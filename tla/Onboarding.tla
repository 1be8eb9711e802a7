----------------------------- MODULE Onboarding -----------------------------
(***************************************************************************)
(* The practice game a new player must finish before the app is theirs     *)
(* (game-onboarding.tsx), on the same board as a real game.                *)
(*                                                                         *)
(* TutorialGame keeps the stage and a game of its own; the board keeps the *)
(* drafts and the drag, and tells the tutorial about them through the      *)
(* guidance callbacks, though not from everywhere: a reset of the drafts   *)
(* and a drop on the discard pile say nothing.  GameOnboardingProvider     *)
(* covers the app until the server has recorded that the player is done.   *)
(*                                                                         *)
(* The cards are the ones the tutorial deals: 5, 6 and the queen, and the  *)
(* 7 that the deck gives.  The order of cards within a draft and within    *)
(* the hand is left out (BoardDrafts has it), and so are the spotlight and *)
(* the texts, which read the state and change nothing.                     *)
(***************************************************************************)
EXTENDS Naturals, FiniteSets

CONSTANTS
  MaxDetours,  \* bound on drags and resets the coach did not ask for
  MaxFaults    \* bound on failed requests and reloads of the page

ASSUME BoundsAssumption == MaxDetours \in Nat /\ MaxFaults \in Nat

VARIABLES
  stage,     \* TutorialStage
  game,      \* the practice game: hand, hasDrawn, what was played and discarded
  drafts,    \* draftCompositions of the board
  drag,      \* activeDrag of the board
  provider,  \* the state of GameOnboardingProvider
  request,   \* POST /auth/onboarding/complete, as the page sees it
  recorded,  \* whether the server has recorded the completion
  detours,   \* drags and resets of the user's own so far
  faults     \* failed requests and reloads so far

vars == <<stage, game, drafts, drag, provider, request, recorded, detours,
          faults>>

Run == {"5", "6", "7"}
Cards == Run \cup {"Q"}
TUTORIAL_STAGES ==
  {"intro", "orientation", "draw", "compose", "discard", "complete"}

NoDrag == [type |-> "none"]
DrawDrag == [type |-> "draw"]
HandDrag(c) == [type |-> "hand", card |-> c, baseline |-> drafts]

createTutorialGame ==
  [hand |-> {"5", "6", "Q"}, hasDrawn |-> FALSE, played |-> {},
   discarded |-> {}]

newProvider(isRequired) ==
  [required |-> isRequired, completedInSession |-> FALSE, replay |-> FALSE,
   isCompleting |-> FALSE]

mustComplete == provider.required /\ ~provider.completedInSession
open == mustComplete \/ provider.replay

tutorialVars == <<stage, game, drafts, drag>>
serverVars == <<request, recorded, faults>>

(* A TutorialGame as it is mounted. *)
Mount ==
  /\ stage' = "intro"
  /\ game' = createTutorialGame
  /\ drafts' = {}
  /\ drag' = NoDrag

----------------------------------------------------------------------------
(* The drafts of the board. *)

Draft(cards, isTable) == [cards |-> cards, table |-> isTable]

(* A draft that loses its last card is gone. *)
removeHandKeyFromDrafts(ds, c) ==
  {d \in {Draft(d.cards \ {c}, d.table) : d \in ds} : d.cards # {}}

(* The card leaves the draft it is in and enters d, unless it was all      *)
(* there was of d.                                                         *)
insertHandKeyIntoDraft(ds, c, d) ==
  IF d.cards = {c} THEN removeHandKeyFromDrafts(ds, c)
  ELSE removeHandKeyFromDrafts(ds \ {d}, c)
         \cup {Draft(d.cards \cup {c}, d.table)}

newDraft(ds, c) == removeHandKeyFromDrafts(ds, c) \cup {Draft({c}, FALSE)}

(* On the one composition of the table all cards share a draft. *)
tableDraft(ds, c) ==
  LET existing == {d \in ds : d.table}
  IN  IF existing = {} THEN removeHandKeyFromDrafts(ds, c)
                              \cup {Draft({c}, TRUE)}
      ELSE insertHandKeyIntoDraft(ds, c, CHOOSE d \in existing : TRUE)

staged(ds, c) == \E d \in ds : c \in d.cards

canCompose == stage \in {"compose", "discard"} /\ game.hasDrawn

----------------------------------------------------------------------------
(* What the tutorial makes of the board's reports. *)

isTutorialRun(cards) == cards = Run

isTutorialDraftComplete(ds) ==
  \E d \in ds : ds = {d} /\ ~d.table /\ isTutorialRun(d.cards)

onDraftStateChange(ds, isDraggingCard) ==
  stage' = IF stage = "compose" /\ isTutorialDraftComplete(ds)
              /\ ~isDraggingCard
           THEN "discard"
           ELSE IF stage = "discard" /\ ~isTutorialDraftComplete(ds)
           THEN "compose"
           ELSE stage

(* A slip: the report of a card let go of is taken for one of a drag. *)
updateDraftCompositionsSlip(ds, isDraggingCard) ==
  drafts' = ds /\ onDraftStateChange(ds, TRUE)

updateDraftCompositions(ds, isDraggingCard) ==
  drafts' = ds /\ onDraftStateChange(ds, isDraggingCard)

onDrawSettled == stage' = IF stage = "draw" THEN "compose" ELSE stage

----------------------------------------------------------------------------
(* Drags. *)

atRest == open /\ drag = NoDrag

(* The deck gives its card as soon as the drag starts. *)
DrawStart ==
  /\ atRest /\ stage = "draw" /\ ~game.hasDrawn
  /\ drag' = DrawDrag
  /\ game' = [game EXCEPT !.hand = @ \cup {"7"}, !.hasDrawn = TRUE]
  /\ UNCHANGED <<stage, drafts, provider, serverVars, detours>>

DrawDrop ==
  /\ drag = DrawDrag
  /\ drag' = NoDrag
  /\ onDrawSettled
  /\ UNCHANGED <<game, drafts, provider, serverVars, detours>>

PickUp(c) ==
  /\ atRest /\ c \in game.hand
  /\ drag' = HandDrag(c)
  /\ UNCHANGED <<stage, game, drafts, provider, serverVars>>

Dragging == drag.type = "hand"
startedInDraft == staged(drag.baseline, drag.card)

(* handleDragOver: a staged card leaves its draft as it comes over the     *)
(* hand, and any card enters a new composition as it comes over that.      *)
OverHand ==
  /\ Dragging /\ canCompose /\ startedInDraft
  /\ updateDraftCompositions(removeHandKeyFromDrafts(drafts, drag.card), TRUE)
  /\ UNCHANGED <<game, drag, provider, serverVars>>

OverDraft(d) ==
  /\ Dragging /\ canCompose
  /\ d \in drafts /\ ~d.table /\ drag.card \notin d.cards
  /\ updateDraftCompositions(insertHandKeyIntoDraft(drafts, drag.card, d),
                             TRUE)
  /\ UNCHANGED <<game, drag, provider, serverVars>>

(* handleDragEnd, where it may compose. *)
DropOn(ds) ==
  /\ Dragging /\ canCompose
  /\ drag' = NoDrag
  /\ updateDraftCompositions(ds, FALSE)
  /\ UNCHANGED <<game, provider, serverVars>>

(* Before the draw a card can only be moved within the hand. *)
DropEarly ==
  /\ Dragging /\ ~canCompose
  /\ drag' = NoDrag
  /\ UNCHANGED <<stage, game, drafts, provider, serverVars>>

DropOnHand == DropOn(removeHandKeyFromDrafts(drafts, drag.card))
DropOnNew == DropOn(newDraft(drafts, drag.card))
DropOnTable == DropOn(tableDraft(drafts, drag.card))
DropOnDraft(d) ==
  d \in drafts /\ DropOn(insertHandKeyIntoDraft(drafts, drag.card, d))

(* Dropped nowhere, or the drag is cancelled: all as it was before. *)
DropNowhere ==
  /\ Dragging
  /\ drag' = NoDrag
  /\ updateDraftCompositions(drag.baseline, FALSE)
  /\ UNCHANGED <<game, provider, serverVars>>

CancelDraw ==
  /\ drag = DrawDrag
  /\ drag' = NoDrag
  /\ onDrawSettled
  /\ UNCHANGED <<game, drafts, provider, serverVars>>

(* playTableAndDiscard, which the board calls if anything is drafted.      *)
(* What was laid stays in drafts, without cards in the hand to stand for.  *)
(* A slip: the discard alone is looked at. *)
hasExpectedPlaySlip == drag.card = "Q"

hasExpectedPlay ==
  /\ stage = "discard" /\ isTutorialDraftComplete(drafts)
  /\ drag.card = "Q"

playTableAndDiscard ==
  /\ stage' = "complete"
  /\ game' = [game EXCEPT
                !.hand = (@ \ UNION {d.cards : d \in drafts}) \ {drag.card},
                !.played = UNION {d.cards : d \in drafts},
                !.discarded = {drag.card}]
  /\ drafts' = {}

(* A drop on the discard pile.  A card that has entered a draft on its way *)
(* stays there, unreported; a refused discard changes nothing.             *)
DropOnPile ==
  /\ Dragging
  /\ drag' = NoDrag
  /\ IF ~staged(drafts, drag.card) /\ drafts # {} /\ hasExpectedPlay
     THEN playTableAndDiscard
     ELSE UNCHANGED <<stage, game, drafts>>
  /\ UNCHANGED <<provider, serverVars>>

(* resetDraftCompositions, unreported too. *)
ResetDrafts ==
  /\ atRest /\ drafts # {}
  /\ drafts' = {}
  /\ UNCHANGED <<stage, game, drag, provider, serverVars>>

----------------------------------------------------------------------------
(* The coach's button, and the provider. *)

(* A slip: the tutorial closes before the server has answered. *)
completeTutorialSlip ==
  /\ request' = IF mustComplete THEN "sent" ELSE request
  /\ provider' = [provider EXCEPT !.replay = FALSE,
                                  !.completedInSession = mustComplete]

completeTutorial ==
  IF mustComplete
  THEN /\ ~provider.isCompleting
       /\ request' = "sent"
       /\ provider' = [provider EXCEPT !.isCompleting = TRUE]
  ELSE /\ provider' = [provider EXCEPT !.replay = FALSE]
       /\ UNCHANGED request

Continue ==
  /\ open /\ ~provider.isCompleting
  /\ \/ /\ stage \in {"intro", "orientation"}
        /\ stage' = IF stage = "intro" THEN "orientation" ELSE "draw"
        /\ UNCHANGED <<provider, request>>
     \/ /\ stage = "complete"
        /\ completeTutorial
        /\ UNCHANGED stage
  /\ UNCHANGED <<game, drafts, drag, recorded, detours, faults>>

(* handleCompleteOnboarding; the answer may be lost after the update. *)
handleCompleteOnboarding ==
  /\ request = "sent"
  /\ \/ recorded' = TRUE /\ request' = "ok" /\ UNCHANGED faults
     \/ /\ faults < MaxFaults /\ faults' = faults + 1
        /\ request' = "failed"
        /\ recorded' \in {recorded, TRUE}
  /\ UNCHANGED <<tutorialVars, provider, detours>>

Completed ==
  /\ request = "ok"
  /\ request' = "none"
  /\ provider' = [provider EXCEPT !.completedInSession = TRUE,
                                  !.replay = FALSE, !.isCompleting = FALSE]
  /\ UNCHANGED <<tutorialVars, recorded, detours, faults>>

CompletionFailed ==
  /\ request = "failed"
  /\ request' = "none"
  /\ provider' = [provider EXCEPT !.isCompleting = FALSE]
  /\ UNCHANGED <<tutorialVars, recorded, detours, faults>>

(* From the app's menu, which is inert while the tutorial is open. *)
startTutorial ==
  /\ ~open /\ detours < MaxDetours /\ detours' = detours + 1
  /\ provider' = [provider EXCEPT !.isCompleting = FALSE, !.replay = TRUE]
  /\ Mount
  /\ UNCHANGED serverVars

(* The session is read again; an answer under way finds nobody.            *)
Reload ==
  /\ faults < MaxFaults /\ faults' = faults + 1
  /\ provider' = newProvider(~recorded)
  /\ request' = "none"
  /\ Mount
  /\ UNCHANGED <<recorded, detours>>

----------------------------------------------------------------------------
(* The user does what the coach asks, at least in the end: bring the run   *)
(* together in one new composition, and then discard the queen.            *)

(* The new composition that has most of the run. *)
Ours ==
  LET new == {d \in drafts : ~d.table /\ d.cards \cap Run # {}}
  IN  IF new = {} THEN {}
      ELSE {CHOOSE d \in new :
              \A e \in new : Cardinality(e.cards \cap Run)
                               <= Cardinality(d.cards \cap Run)}

Wanted ==
  IF staged(drafts, "Q") THEN {"Q"}
  ELSE IF isTutorialDraftComplete(drafts)
  THEN IF stage = "discard" THEN {"Q"} ELSE Run   \* or nudge a laid card
  ELSE {c \in Run : \A d \in Ours : c \notin d.cards}

CoachedPickUp ==
  /\ canCompose
  /\ \E c \in Wanted : PickUp(c)
  /\ UNCHANGED detours

CoachedDrop ==
  /\ Dragging
  /\ IF ~canCompose THEN DropEarly
     ELSE IF drag.card = "Q"
     THEN IF stage = "discard" /\ ~staged(drafts, "Q") THEN DropOnPile
          ELSE DropOnHand
     ELSE IF Ours = {} \/ Ours = {Draft({drag.card}, FALSE)} THEN DropOnNew
     ELSE \E d \in Ours : DropOnDraft(d)
  /\ UNCHANGED detours

Coached == Continue \/ DrawStart \/ DrawDrop \/ CoachedPickUp \/ CoachedDrop

Detour ==
  /\ detours < MaxDetours /\ detours' = detours + 1
  /\ \/ \E c \in Cards : PickUp(c)
     \/ OverHand
     \/ \E d \in drafts : OverDraft(d)
     \/ DropNowhere
     \/ CancelDraw
     \/ ResetDrafts
     \/ DropOnHand
     \/ DropOnNew
     \/ DropOnTable
     \/ \E d \in drafts : DropOnDraft(d)
     \/ DropOnPile

Init ==
  /\ stage = "intro" /\ game = createTutorialGame
  /\ drafts = {} /\ drag = NoDrag
  /\ recorded \in BOOLEAN
  /\ provider = newProvider(~recorded)
  /\ request = "none" /\ detours = 0 /\ faults = 0

Next ==
  \/ Coached
  \/ Detour
  \/ handleCompleteOnboarding
  \/ Completed
  \/ CompletionFailed
  \/ startTutorial
  \/ Reload

(* The user keeps doing what the coach asks, also when a step of theirs    *)
(* undid it, and every request is answered in the end.                     *)
Fairness ==
  /\ WF_vars(Continue)
  /\ WF_vars(DrawStart)
  /\ WF_vars(DrawDrop)
  /\ WF_vars(CoachedPickUp)
  /\ WF_vars(CoachedDrop)
  /\ WF_vars(handleCompleteOnboarding)
  /\ WF_vars(Completed)
  /\ WF_vars(CompletionFailed)

Spec == Init /\ [][Next]_vars /\ Fairness

----------------------------------------------------------------------------
(* Properties. *)

Drafts == [cards : (SUBSET Cards) \ {{}}, table : BOOLEAN]

(* The types; a drafted card is a card of the hand, in one draft only. *)
TypeOK ==
  /\ stage \in TUTORIAL_STAGES
  /\ game \in [hand : SUBSET Cards, hasDrawn : BOOLEAN,
               played : SUBSET Cards, discarded : SUBSET Cards]
  /\ drafts \subseteq Drafts
  /\ \A d \in drafts : d.cards \subseteq game.hand
  /\ \A d, e \in drafts : d # e => d.cards \cap e.cards = {}
  /\ drag \in {NoDrag, DrawDrag}
       \cup [type : {"hand"}, card : Cards, baseline : SUBSET Drafts]
  /\ provider \in [required : BOOLEAN, completedInSession : BOOLEAN,
                   replay : BOOLEAN, isCompleting : BOOLEAN]
  /\ request \in {"none", "sent", "ok", "failed"}
  /\ recorded \in BOOLEAN
  /\ detours \in 0 .. MaxDetours /\ faults \in 0 .. MaxFaults

(* The last stage is reached only with the run on the table, the queen on  *)
(* the pile and an empty hand, whatever was dragged where before.          *)
LessonHolds ==
  stage = "complete" =>
    game.hand = {} /\ game.played = Run /\ game.discarded = {"Q"}

(* The app is uncovered for a player who had to complete the tutorial only *)
(* once the server has recorded it, so that a reload does not bring it     *)
(* back; failed and lost answers included.                                 *)
AppNeedsRecord == provider.required /\ ~open => recorded

(* A user who keeps doing what the coach asks gets through, after any      *)
(* detours, failed requests and reloads.                                   *)
Finishes == open ~> ~open

=============================================================================
