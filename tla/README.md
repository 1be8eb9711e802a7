# Compositions: a TLA+ model

*Compositions* is a rummy-like card game for two to four players. A Go server keeps rooms
and games in memory, saves them to Postgres and talks to a React client over a WebSocket.
This directory models both sides: the rules engine, the lobby with its transaction and
its statistics, the connection, and the parts of the client that keep state of their own.

Run a model with `tlc -config MCGameState.cfg MCGameState`, and check proofs with
`tlapm GameStateProofs.tla`.

## Inventory

Server (`src/backend`):

| Part | State | Operations | Talks to |
|---|---|---|---|
| Compositions (`internal/game/composition.go`, `card.go`) | variant, cards, joker representations | build, insert, reclaim a joker, points | called by the engine |
| Table plays (`internal/game/state.go`) | none: a request against a hand and a table | `applyTablePlayState`; `canTakeDiscardNow` and its search | called by the engine's turn operations |
| Engine (`state.go`, `hand.go`, `card_pile.go`, `statistics.go`) | players with hand, points, opened and forfeited; table; piles; phase, round, dealer, turn | start, next round, two draws, table play, play-and-discard, discard, forfeit, end | called by the lobby under its lock |
| Engine persistence (`persistence.go`, `clone.go`) | none | save, restore, clone | lobby transaction, restart, `PlayTableAndDiscardMatching` |
| Lobby (`cmd/server/lobby_server.go`) | sessions, rooms, pending deal, end proposal | connect, create, join, start, deal, actions, leave, forfeit, propose, vote, reset | engine; persistence; WebSocket handlers |
| Transaction (`lobby_transaction.go`, `persistLocked`) | state before the command, revision counters | commit, roll back, restore at start | database; gives up its inner lock during I/O |
| Finalization (`statisticsJobsLocked`, `saveStatisticsJobsLocked`) | pending terminal jobs | save, retry, block players of failed games | database |
| WebSocket server (`ws_server.go`, `ws_auth.go`) | connections | connect, dispatch, broadcast, heartbeat | lobby, social |
| Social (`cmd/server/social.go`, `internal/database/social.go`) | requests, friendships, invites, presence | send, respond, unfriend, invite, announce | database, every tab |
| Leaderboard, bug reports (`leaderboard.go`, `admin.go`, `database/`) | rows | read a page, complete a report | database |
| Auth, ratings, rate limits, analytics, profiles | rows, token buckets | HTTP handlers | database |

Client (`src/frontend/src`):

| Part | State | Operations | Talks to |
|---|---|---|---|
| Connection (`components/game-websocket-provider.tsx`) | store, socket, attempt number, retry timer, pending actions | connect, authenticate, reduce messages, send, time out, reconnect | server; every view |
| Board (`components/game/game-board-view*.ts*`, `composition-row.tsx`, `game-board-table.tsx`, `game-card-utils.ts`) | hand order, drafts, drag, marks | drag start, over, end, cancel; reset; build the request | snapshots from the store; server |
| Room controls (`game-lobby-view.tsx`, `game-controls-menu.tsx`, `deal-choice-panel.tsx`, `end-game-proposal-alert.tsx`) | open dialogs, chosen deal | the commands of a room | store; server |
| Results (`protected-home.tsx`, `game-results-view.tsx`, `card-transfer-state.ts`, the two animations) | held back results, timers, flights | defer, reveal, animate | store |
| Tutorial (`game-onboarding.tsx`) | stage, practice game, completion | coached turn, record completion | board; HTTP |
| Leaderboard and bug report pages | query cache, scroll position, sheet | load, turn, retry, complete | HTTP |
| Friends and notifications | social state | send, respond, invite | server |

What is hard here, and what correctness means:

* **Compositions.** Validity, order, joker meaning and points of a run are computed by four
  different algorithms over the same cards, with aces at both ends and up to four jokers.
  They must agree with each other and with `RULES.md`, for every order of submission, and
  survive being saved.
* **Engine.** Cards pass through many hands for many turns; the scoring rules interact with
  players who leave. No card may be lost, the next player must always be able to move, and
  the winner must deserve it.
* **Room.** A room waits for players by seat (who deals, who chooses the deal, who plays, who
  votes) while players forfeit, leave, lose their connection and come back, and while commands
  that were given on an older picture of the room are still under way. The room may only
  wait for players it has, and must accept what its pages offer.
* **Transaction.** One lock serialises the commands, but the lock that readers take is given
  up while the database is written, writes fail, failed writes may have happened, and a crash
  can fall between two writes. A command must happen wholly or not at all, and every finished
  game must be counted once, in order, and eventually.
* **Connection.** Authentication, sockets, timers and answers complete in any order, after the
  page has moved on. One socket may be in use, a lost one must be replaced, and a promise
  given for an action must end, truthfully.
* **Board.** The board computes ahead what the server will do with a play, in code of its own,
  over snapshots that arrive in the middle of a drag. What it shows, marks and sends must
  be what the server accepts and makes of it.
* **Results.** Three broadcasts end a game, while animations of the last move and timers
  of the scores run. Nothing may be shown that did not happen, and the page must settle.
* **Lists.** Pages of a ranking or of an archive are read while these change, through a cache
  that joins, cancels and repeats requests.

## Modules

| Module | Models | Built on |
|---|---|---|
| `Composition` | sets and runs as pure operators: validity, order, jokers, points, insert, reclaim | |
| `TableComposition` | the life of one composition: laid down, extended, reclaimed, restored | `Composition` |
| `TablePlay` | requests, `applyTablePlayState`, and the discard search | `Composition` |
| `GameState` | the engine: one variable per field of `GameState` and `Player`, one action per operation | `TablePlay` |
| `Room` | the server's operations on one room, as operators and predicates | |
| `RoomScreen` | `Room` composed with the page of every player: enabled controls, commands under way, connections, restart | `Room` |
| `AtomicLobby` | what a command promises: all or nothing, durable before it is seen | |
| `LobbyTransaction` | locks, copy, saves, rollback, statistics, faults, crash; implements `AtomicLobby` | `AtomicLobby` (by `INSTANCE`) |
| `GameClient` | a page's connection and the server's end of every socket it opens | |
| `DraftPlan` | what the board computes from hand, table and drafts, and what the server makes of the request | `Composition` |
| `BoardDrafts` | the board's drag and drop handlers, the snapshots and the server's answers | `DraftPlan` |
| `RoundResults` | the end of a round on the screen: results, animations, score timers, against the server's broadcasts | |
| `Onboarding` | the tutorial on the board, and the record of its completion | |
| `Leaderboard` | ranking, cursors, page cache and list | |
| `BugReports` | the archive, its pages and the sheet of one report | |
| `Social` | requests, friendships, invites, presence, announcements to every tab | |
| `MC...` | small decks, line-ups and first states for TLC | the module of that name |
| `GameStateProofs` | theorems about compositions, plays, types, turns and scores, about where the cards are, and about a composition on the table | `GameState`, `TableComposition` |
| `RoomScreenProofs` | theorems about the room, its seats and votes, the commands under way and the enabled controls | `RoomScreen` |
| `LobbyTransactionProofs` | theorems about the statistics, and the refinement of `AtomicLobby` | `LobbyTransaction` |
| `GameClientProofs` | theorems about sockets, promises and the session | `GameClient` |
| `RoundResultsProofs` | theorems about results held back and about animations | `RoundResults` |
| `OnboardingProofs` | theorems about the lesson and its record | `Onboarding` |
| `BugReportsProofs` | theorems about the pages of the archive and the completion of a report | `BugReports` |
| `SocialProofs` | theorems about what the tabs show and about answers | `Social` |

The models meet at named places. `Room` takes the engine as its phase and the seats that deal and
play, which `GameState` describes in full, and every command as one step, which `LobbyTransaction`
justifies. `RoomScreen` takes the connection as a queue of commands per player and a set of
connected players, which `GameClient` describes in full. `BoardDrafts` has the server apply a
request with `DraftPlan`'s operators, which follow `applyTablePlayState` card by card, in the
order the request names them: the model keeps positions that `TablePlay`, whose table is a set,
leaves out.

### How the models correspond to the code

Names are the code's where TLA+ allows it, and `PROJECT.json` gives the lines of every
definition. A function that returns `(value, ok)` becomes the set of its results, empty for a
refusal.

**Engine.** A card carries a `copy`, so that the two equal cards of the double deck can be
told apart and followed; every operator that models code compares rank and suit only, as the
code does. Joker representations, which the code stores beside the cards, are a function of
the cards. The table is a set of compositions and a request names a composition where the
code uses its index. A hand is a set: the order of a hand in the server is only an index for
the discard, which is checked against the card itself. `GameState`'s actions are the
successful calls; a call that fails changes nothing that lasts, because every command runs in
the lobby's transaction (`LobbyTransaction`). `PlayTableAndDiscard` works on a restored copy,
as the code does, and so includes what a restore does to the table. `discardAndEndTurn` is the
whole tail of a discard: completed compositions go to the discard pile in an order that
Go's code determines by table index and the model leaves open, then the round ends or the turn
moves on and the draw pile is refilled.

**Room.** `room` is the record the server keeps: players in seat order, who is connected and who
has forfeited, host, phase, dealer and turn, the pending deal, the proposal with its eligible and
agreed players. Each handler is an operator on the room with a guard named `can...`, taken from
the handler's early returns. A deal choice is admitted and applied with the seats of the moment
the server reads it. Expiry of a proposal and the end of the cooldown are steps that may happen at
any time after they were set. The handler that broadcasts a finished game has to put the room back
in a step of its own (`resets`), which a restart can lose. `snapshotPanics` is the index out of
range that reading a deal choice with a stale seat would be.

**Pages.** `controls(p)` is the set of commands that the page of `p` offers in the present
room. A command, once pressed, waits in `inbox[p]` for as long as it likes; an awaited
command is not pressed twice.

**Transaction.** `pc` is where the holder of `commandMu` is: `locked`, `changed`, `saving`,
`saved`, `writing` statistics, `marking` them. While a save is under way `mu` is
given up and `persistLocked` has put the copy into `mem`. `ImplementsAtomicLobby` is about what
whoever takes `mu` finds (`readable`): the copy while the holder of `commandMu` also holds `mu`,
at `locked` and `changed`, where nobody can look; at every other point, the save included, `mem`.
A save that fails may have been written. Statistics are a ledger
to which the jobs of ended games are appended. `jobs` is the set of those still to be written
in this pass; the one with the lowest sequence number is next, which is the order the code
sorts them in. A job whose write fails blocks the later games of its players in that pass.

**Connection.** `refs` holds what survives renders; every continuation (authentication, socket
event, timer) is a step of its own and compares the attempt number as the code does. A socket
has two ends and a queue each way; the server writes its answers one at a time after it
has given up the lobby, with another player's goroutine in between.

**Board.** A hand entry is its key, as in the code, with the occurrence that tells equal cards
apart. The view (`draftResolution`) is computed from the state in every step, as a render
does. Requests are answered in order; snapshots arrive at any later time, in a drag too. All
drop targets of the board are in `Target`.

**Results.** A message, its render and its effects are one step, since React runs the effects
of a store update before the next task. Every timer and animation end is a step. The score
timers of one schedule fire in the order of their delays. A snapshot has a version; those of a new
game go on after a gap that stands for the end of the game before.

**Lists.** The query cache is a library and marked external: one fetch per key, joins,
cancellations and retries are modelled as the pages use them. A page of the archive is the set of
reports that have the right number of newer ones before them. An announcement or an answer
that is late is a write that happens late.

## Runs

| Run | Instance | Shows |
|---|---|---|
| `game_turns` | two players, eleven cards, hands of four, three turns | `CardsConserved`, `DrawNeverBlocks`, `HandStaysBounded` |
| `game_rounds` | three players, eight cards, hands of two, two rounds | `TurnIsPlayable`, `NobodyPlaysAboveLimit`, `WinnerHasFewestPoints`, `AdjustmentKeepsRanking` |
| `table_composition` | every sequence of up to four of twelve cards | `RunValidityIsExact`, `RestoreNeverRefuses`, `ReclaimKeepsTheRest` |
| `room` | three players, one long-delayed command | `RoomNamesPlayers`, `EnabledIsAdmitted`, `EndsByConsent` |
| `transaction` | four users, three games of overlapping line-ups, two faults, one outage | `NothingLost`, `StatisticsInOrder`, `AllWritten`, `ImplementsAtomicLobby` |
| `client` | one page, three events, one awaited command | `OneLiveSocket`, `ResolvedWasApplied`, `SessionLostWithItsSocket`, `Reconnects`, `ActionsSettle` |
| `board` | several hands and tables, three drags over three targets, two turns | `EachCardOnce`, `PlayIsAsShown`, `UnmarkedIsAccepted`, `TotalWithoutReclaims` |
| `results` | three players, four moves | `ResultsAccounted`, `AnimationsAreReal`, `ScoresInTurn`, `ResultsSettle` |
| `onboarding` | seven detours, two faults | `LessonHolds`, `AppNeedsRecord`, `Finishes` |
| `leaderboard` | three players, pages of one row, two metrics and two scopes | `OneRanking`, `ListCompletes` |
| `reports` | three to four reports, pages of two | `CompletedStaysGone`, `TurnsBackWhenEmptied`, `CompletionSettles` |
| `social` | two users, one of them with two tabs, two commands, two troubles | `ShownIsCurrent`, `AnsweredOnce` |

Every module also has a type invariant, `TypeOK` (`TableTypeOK` in `TableComposition`, whose
specification has names of its own so that it can be reasoned about together with the engine's).
It holds in each of these instances; it is left out of the configurations because it only
describes the shape of the state (add `INVARIANT TypeOK` to check it).

**Bounds, and why they are enough.**

* `game_turns`: the deck holds a run of four, the five in all four suits with one of them
  twice, and two jokers, so that within three turns a player can open, add, reclaim a joker,
  complete a set (which moves to the discard pile) and empty the draw pile, which is
  refilled. One new composition, one addition of one card and one reclaim per request are
  enough for these to happen together; `OpeningPoints` is lowered to 14 and `PointsLimit` to
  30 in proportion to the deck.
* `game_rounds` has no table plays and hands of two, in which special hands are common, so
  that a round ends quickly and the limit of 12 points is crossed and not crossed. Two
  shuffles (the deck as it is and turned over), every dealer, both deal types and every block
  order vary the hands.
* `table_composition`'s deck has both ends of the rank circle with the ace twice, three
  jokers, and two more threes for sets.
* `room`: with three players one can forfeit and the game goes on, and a vote can be
  incomplete in two ways. One command that is long on its way is enough for every pair of a
  stale command and a change of the room; all other commands interleave freely. The players
  are interchangeable, so the run uses symmetry; it checks no liveness.
* `transaction`: three games let one game's statistics fail, a second share a player with it
  (and be blocked) and a third share none; two faults are a failed save followed by a crash.
* `client`: three events are, for example, a lost link, an expired cookie and an action of
  another player during the reconnect; one awaited command can then be answered, lost, late
  or timed out.
* `board`: the first states are turns with a run or a set on the table that holds a joker, with
  equal cards in the hand, before and after the draw and the opening. Three drags stage two cards
  and move one of them or play; three targets passed over on the way are enough to leave a draft
  and come back.
* `results`: four moves are enough to end a round, start the next and end that, or to lose
  the connection between a snapshot and the next one. `Gains` of 5 and 50 from totals near the
  limit give scores with and without an adjustment; the player with the first turn leads, so that
a won game and its takeover are reached as well as an end without a winner.
* `onboarding`: the tutorial has four cards, and a detour is one drag, drop or reset; seven are
  enough to stage all four cards in the wrong places, in one draft or several, and to
  take them back.
* `leaderboard`: pages of one row over three players make three pages, so a change can fall
  before the first, between two and after the last.
* `reports`: two pages, the second of which has one report that can be completed, so that the
  page is emptied, while one more report arrives or one other trouble happens.
* `social`: one user has two tabs, which is where two goroutines announce to the same user and
  two answers to one request meet. Two goroutines at work at a time give every overlap of two
  announcements.

**Fairness.** The engine and the room have no step of their own for the properties checked
there, and `board` and `social` state safety only. Elsewhere:

* `client`: weak fairness of what the runtime does by itself: pending timers, session checks
  that return, socket events, server goroutines that read and write, and the effect that
  connects. None of the faults is fair, and neither is any command.
* `transaction`: weak fairness of the handler that holds the lock, strong fairness of the
  retry ticker (it competes with commands for the lock, which Go's mutex hands over), and the
  assumption that an outage of the database ends.
* `results`: weak fairness of receiving, of timers and of animation ends (both animations are of a
  fixed duration; the results are revealed by a timer of their own, which does not wait for
  them).
* `onboarding`: weak fairness of the page, and of a user who does what the coach asks. Without
  the latter nobody finishes; the detours are not fair.
* `leaderboard`, `reports`: weak fairness of `Progress`, the answers of the server and the
  effects of the page, with a user of the leaderboard who keeps scrolling.
* `RoomScreen`'s fairness (handlers run, players reconnect) matters only to `GameOverEnds`
  below.

**Deadlock** is checked in `room` and `transaction`, where somebody can always act. The
others may stop: at a bound, at the end of a game or when the page has settled.

**Exceptions inside properties.** Some properties name the cases in which the code really does not
keep them: the four refusals of `knownRefusal`, a completed report that reappears because an
invalidation joins a first load, of the page on the screen or of one turned back from
(`CompletedStaysGone`), lists loaded while a completion was under way or a report was filed
between the two reads of a list (`TurnsBackWhenEmptied`), announcements that were overtaken or
whose read failed, which leaves every tab out when it is the list of whom to tell that was not read
(`ShownIsCurrent`), drafts at two edges (`UnmarkedIsAccepted`), reclaimed jokers
in the total (`TotalWithoutReclaims`), the order of a run that held all four jokers
(`ReclaimKeepsTheRest`) and a score timeline that returns (`ScoresInTurn`). Each is stated as
narrowly as the instance allows.

## Known disagreements

Each of these configurations ends with a counterexample: the code does something else than
a document, a test or a text of the interface says. They are kept for whoever takes the
question up, and are not among the runs of `PROJECT.json`.

| Configuration (module) | Property | What happens |
|---|---|---|
| `MCGameDiscardDraw` (`MCGameState`) | `DiscardDrawIsPlayable` | The search that allows taking the discard does not ask an unopened player for a composition without reclaimed jokers (`state.go:1233`); applying the play does (`state.go:1415`). The player then holds a card that must be used and cannot be (`RULES.md:62`). |
| `MCGameRoundsWon` (`MCGameState`) | `RoundsWonAccounted` | A special hand dealt in round two or later is not counted as a win, because the round number moves on after the deal (`state.go:594`; `STATISTICS.md:55`). |
| `MCTablePoints` (`MCTableComposition`) | `PointsFollowRepresentation` | Joker, 4, 5 lies on the table as 3, 4, 5 and counts as 4, 5, 6 (`composition.go:280`; `RULES.md:98`). |
| `MCTableJoker` (`MCTableComposition`) | `RunJokerStandsForOneCard` | An insertion can produce a run whose jokers stand for nothing (`composition.go:534`; `RULES.md:156`). |
| `MCTableRestore` (`MCTableComposition`) | `RestoreIsIdentity` | A run can be reordered by a restore, which is part of every play-and-discard (`persistence.go:182`; `persistence_test.go:97`). |
| `MCTableReclaim` (`MCTableComposition`) | `JokersKeepTheirPlaces` | In a run with all four jokers the card that takes the place of one can end up elsewhere: 3, Joker, 5, Joker, 7 and two more jokers, with the 4 reclaimed, has a tie between two windows and is turned round to Joker, Joker, 3, 4, 5, Joker, 7 (`composition.go:81`, `composition.go:534`; `composition_test.go:197` expects the replacement in the joker's place). |
| `MCBoardTotal` (`MCBoardDrafts`) | `TotalShownIsCounted` | With a reclaimed joker the total shown is not the one the server holds against the opening (`game-board-table.tsx:548`; `game-board-table.test.tsx:493`). |
| `MCBoardDrop` (`MCBoardDrafts`) | `DropStages` | The only card of a draft on the table, dragged again to an edge or a joker of the same composition, returns to the hand: taking it out removes the draft it is then put into (`game-board-view.tsx:1053`; `game-board-view-state.test.ts:884` retargets a card within a draft of two). |
| `MCRoomLeave` (`MCRoomScreen`) | `LobbyCanBeLeft` | While the deal of a first round is being chosen the page offers to leave the room, and the server refuses (`lobby_server.go:632`). |
| `MCRoomOver` (`MCRoomScreen`) | `GameOverEnds` | The room is put back only by the handlers of game actions (`ws_server.go:1011`). A quick game that a special hand ends inside the deal goes through the handler of the deal choice (`ws_server.go:702`), and stays over: its players can neither play, leave nor join another room. A restart between the last save and the reset does the same (`ws_server_test.go:1465`, `en.json:145`). |
| `MCResultsBoard` (`MCRoundResults`) | `BoardKeptWhileDeferring` | `room_state` arrives before `game_state`: for one render the page shows results with the game before the last move, which unmounts the board, and the new results are then held back for an animation the fresh board cannot infer (`protected-home.test.tsx:213`). |

`RULES.md` also says to flip the entire discard pile when the deck is empty; the code keeps
the top card.

Further facts that came up while modelling, none of which a property is about:

* Connection: when the session check finds nobody, the page stays at the "disconnected" dialog
  without a timer. `pagehide` with a page that the browser keeps leaves "connected" without a socket.
  A message that cannot be parsed sets "disconnected" over an open socket. A `connect` that
  an old socket sent and the server reads late takes the session.
* Room: `startGame` does not ask for the phase; a proposal is not cleared when the game ends
  normally; a dialog of the game menu stays open after the game.
* Results: an agreed end during round results shows the winner's takeover for a moment;
  players who left are "unknown" in the results.
* Board: resetting the drafts and dropping on the discard pile do not report to the guidance of
  the tutorial.
* Leaderboard: loading the next page cancels a background refetch; a reset at the same page
  twice does not scroll to the top. The fingerprint of a ranking is taken to be free of
  collisions.
* Bug reports: a page beyond the last one hides the page controls when one page is left; list and
  count are two reads.
* Social: the check and the insert of a friend request are two steps, so that a request
  between friends can remain; accepting and declining one invite in two tabs may both succeed;
  invites outlive the friendship.

## Proofs

Each theorem holds for every value of the constants that the assumptions allow, and TLC
evaluates these assumptions in the runs. Every inductive invariant below was first checked by
TLC as an invariant of the run of its component.

**Engine.** For every deck, hand size, limit, number of players from two to four and choice of the
bounds. The assumptions are `GameAssumption` (the cards are distinct and have a rank and a
suit), `DeckIsLargeEnough` (the deck has all hands, the card turned up and one more, as 108
cards do for four hands of twelve), `RequestBounds`, and `LayoutsAssumption` (a client lays a
group of cards down as a sequence of cards of the group).

All are in `GameStateProofs`, which goes on with the table below, in this order:

* `NormalizePermutes` and `NewCompositionKeepsCards`. Putting a run in
  order permutes its cards; the key is that a candidate's gaps are as many as its jokers, so
  that the natural cards and the jokers fill the window one to one.
* An accepted request leaves a hand and a table of the right type, and `TypeCorrect`, one step
  per action.
* `InvCorrect` proves the inductive invariant
  `Inv = TypeOK /\ TurnInv /\ ScoreInv`, from which the properties follow:
  * `DrawNeverBlocksAlways` needs `PilesOK`: during a round the piles together hold a card,
    and before a draw the draw pile holds one and the two piles together two. A draw takes one
    away from either pile, the discard that must follow adds one, and the refill that ends a
    turn then finds a card under the top one. `LobbyOK` (the whole deck is on the pile before
    the first deal) starts the argument.
  * `TurnIsPlayableAlways`: `startRound` demands two active players, a forfeit that leaves one
    ends the game, and an accepted play leaves a card in the hand.
  * `NobodyPlaysAboveLimitAlways` and `WinnerHasFewestPointsAlways` need each other: the
    game goes on only when somebody other than the winner is within the limit, so the
    adjustment has a score to fall back to; it ends when all others are above the limit, which
    the winner is not. `QuickOK` covers the one round of a quick game, in which totals start
    at zero and all other players still hold cards.
  * `AdjustmentKeepsRankingAlways` is an action property proved from the same invariant.
* `CardsCorrect` proves `CardsInv` (`TypeOK`, `CardsConserved`, `HandStaysBounded`, and the whole
  deck on the pile in the lobby); `AllCardsConserved` and `HandsStayBounded` follow. `Lists(s, X)`
  says that a sequence holds exactly the cards of `X`, each once; lemmas give it for every
  operation on piles (concatenation, cut, shuffle, refill, insertion, replacement of a joker). A
  deal is shown to be a partition: `DealPositions` numbers the cards of a round robin or of
  blocks, and every position goes to one seat or stays on the pile. A play is followed through its
  stages: what each addition and reclaim moves between the hand and one composition
  (`UpdatedCards`), that these changes are disjoint because a request names no card twice
  (`ChangesAreDisjoint`), and so that hand and table together keep their cards (`PlayKeepsCards`).
  A hand does not grow in a play, since a reclaim gives a card for the joker it takes
  (`PlayKeepsSize`).

**Table.** For any cards, and any number of cards laid down or inserted at once, from
`CardsAssumption` (ranks and suits are those of a deck; jokers have no suit) and
`BoundsAssumption`. Also in `GameStateProofs`:

* `RunValidityIsExactAlways` (`RunValidityIsExact`). A `Reading` gives every natural card a place
  of its own in a window. The reference definition speaks of readings (`LegalIsRead`), the fit of a
  window finds one where there is one (`FitIsRead`, `ReadFits`: with the least rank known, the
  window may as well begin there, or end at the high ace), and so do the rank counts for runs
  without jokers (`NaturalIsRead`, `ReadIsNatural`). `ValidIsLegal` joins them.
* `RestoreNeverRefusesAlways` (`RestoreNeverRefuses`). A reading of cards is one of the cards in
  every other order, and so are the ranks that points are counted from: `PermutedIsValid` and
  `PermutedPoints`. With `NormalizePermutes` whatever is built of valid cards is valid and is
  worth the same.
* `ReclaimKeepsTheRestAlways` (`ReclaimKeepsTheRest`). The invariant is `TableInv`: a composition
  on the table is valid, and a run on it reads in order or has no order at all
  (`NormalizedIsExact`). The card that takes a joker's place in a run that reads in order is in
  place, and so is the rest (`ReclaimedInPlace`). What could still move it is a tie: two other
  windows, earlier among the candidates, that agree with equally many cards. With at most two
  jokers left there is none that comes first (`FewJokersHaveOrder`). The proof attempt showed
  that with three left there can be, which is the counterexample of `MCTableReclaim`.
* `TableTypeCorrect` (`TableTypeOK`): no play and no restore copies or invents a card.

**Room.** For any players, any deck and any number of commands under way, from `RoomAssumption`
(finitely many players, and cards for the hands of a full room) and `InFlightAssumption`.
`RoomCorrect` proves `RoomInv`:

* `RoomShape`: at most four seats, each player on one, and only players still in the room
  connected to it;
* `RoomNames`: host, turn and votes are those of active players, nobody has forfeited and
  nothing is proposed in the lobby, and a game is played by two or more. The last is what
  leaves `nextActivePlayerIndex` and `transferHostToFirstActive` somebody to find after a forfeit;
* `InboxShape`: commands are under way only from connected players;
* `VotesKnown`: whoever agreed to the present proposal, or has an approval of it under way,
  is among those who consented to it. A new proposal makes the votes under way votes for
  another one, which is why the number of a proposal has to be compared.

Each command has a lemma that it keeps the room good and what it does to the proposal
(`VoteStep`). `RoomTypeCorrect`, `RoomAlwaysNamesPlayers` (`RoomNamesPlayers`) and
`GamesEndByConsent` (`EndsByConsent`, an action property) follow.

`SeatsCorrect` adds where people sit: the host before all others who are still in the game, a deal
before the first round chosen by the last seat for the first, a proposal only while a game is
played, and a start on its way for the first seat. From both invariants,
`EnabledControlsAreAdmitted` proves `EnabledIsAdmitted`, control by control: what the page of a
player enables is admitted by the server, except for the four refusals of `knownRefusal`. The deal
choice is the one that needs the assumption on the deck, since every cut and order the panel
offers has to leave all hands.

**Transaction.** For any players, line-ups, number of games, faults and outages, from
`TransactionAssumption` (a game has a player: one of nobody leaves no statistics).
`TransactionCorrect` proves `TransactionInv`, which says of each of the four copies of the
lobby (memory, the copy kept for a rollback, the save under way, the disk) that it is sound and
that a game that is over in it has a record, and at every `pc` how the copies are
related. `StatisticsNeverLost` (`NothingLost`) and `StatisticsWrittenInOrder`
(`StatisticsInOrder`) follow; the second needs that records are numbered in the order of the
games and that, while statistics are written, a record that is not written has blocked its players.
`LobbyIsAtomic` proves `ImplementsAtomicLobby`, the refinement: every step is the write of a
whole command, its acknowledgement, a restart, or nothing that the abstract lobby sees. The steps
that could be seen are those where `mu` is given up: there the invariant says that the copy is
back in memory, after the swap of `persistLocked` as after the rollback of `unlock`.

**Connection.** For any number of sockets, commands and faults, from `BoundsAssumption`.
`ClientCorrect` proves `ClientInv`. Its core is `Attempts`: of the session checks under way at
most one has the present attempt number, and while it is under way there is no live socket and the
page is signed in; with it, whatever returns late finds another number and opens nothing.
`NoForgottenSocket` (`OneLiveSocket`), `PromisesAreHonest` (`ResolvedWasApplied`: an answer
that reports success is to a command that was carried out, in every queue it passes) and
`ConnectionLostWithSocket` (`SessionLostWithItsSocket`, an action property) follow.

**Round results.** For any number of players, hand size, penalty and number of moves, from the
assumptions of the module. `ResultsCorrect` proves `ResultsInv`. `Remembered` relates the hook to
the store: its game is the store's, and the results to show are either shown or held back, which
is `ResultsAreAccounted` (`ResultsAccounted`). For `AnimationsShowMoves` (`AnimationsAreReal`) the
whole line of snapshots is ordered, from the client's over those in the queue to the server's
(`InOrder`): any two of them are either one move apart, if their versions are, or one is later by
game, round, turn or the top of its pile (`Follows`). The inferences of the board are then decided
move by move, for snapshots next to each other and for those with others lost between them;
`BoardOK` keeps that the two animations never show the same version. An attempt with versions that
ran on from game to game failed: the first snapshot of a new game could then pass for the next of
the game before. The model now leaves a gap there.

**Tutorial.** For any number of detours and faults. `LessonCorrect` proves `LessonInv`: the type, a
hand that is the one dealt until the run is played from it (`HandOK`), a drag that can always be
undone (`DragOK`: the drafts it started from still fit the hand), and a page that believes the
server only (`RecordOK`). `LessonIsLearnt` (`LessonHolds`) and `AppOpensOnRecord` (`AppNeedsRecord`)
follow. Most of the work is in `moveCard` and `reorder`: the drafts on the board stay disjoint and
not empty, through every drop and back.

**Bug reports.** For any page size, any number of reports, of other administrators' steps and of
faults. `ReportsCorrect` proves `ReportsInv`, whose core is `Fresh`: neither the data of a page
that counts as up to date nor a list on its way to become these data names a report this
administrator was told of. `CompletedReportsStayGone` (`CompletedStaysGone`) follows. For an
administrator who works alone, `AloneInv` counts: a list of `n` rows that shows something of a
page has all rows before it, pages before the present one are not empty, and a completion that
waits for a page of more than one report will leave one; `CompletionTurnsBack` proves the action
property `TurnsBackWhenEmptied` from it. The attempts found two exceptions that the run was too
small to meet: a load of a page that was turned back from can be joined like that of the page on
the screen, and a report filed between the two reads of a list makes an empty page with a next
one.

**Social.** For any users, connections, commands and troubles. `SocialCorrect` proves `SocialInv`.
`NamesOK` and `AnswersOK` give `RequestAnsweredOnce` (`AnsweredOnce`): a request is in the table,
or one goroutine is to report its answer, or it was reported once. `ToldOK` gives
`WhatIsShownIsCurrent` (`ShownIsCurrent`). It says of every open tab that it shows the state of
now, or counts as behind, or that something makes up for it: a goroutine that is still to read,
one that carries the state of now to the tab, or one that knows it was overtaken. Each write to a
table is shown to leave such a goroutine behind, each read to fetch the state of now, and each
write to a tab to leave the others' promises alone.

**Only model-checked.**

* Liveness under fairness: `AllWritten`, `Reconnects`, `ActionsSettle`, `ResultsSettle`,
  `Finishes`, `ListCompletes`, `CompletionSettles`.
* The properties of `BoardDrafts`: the view is computed by folds and selections over
  sequences of drafts with operators as arguments, which the provers can neither unfold
  nor do induction over.
* `OneRanking` and `ScoresInTurn`: a ranking is sorted with a comparison as an argument, and the
  timers of a schedule are selected and joined in the same way.
* `TypeOK` of `RoundResults`: it bounds the numbers that only its own instance bounds. The proofs
  use `Shapes` instead.

## Not modelled

* Rate limits and connection slots: token buckets over real time, sequential under one lock.
* Ratings: the Elo formula is floating point; the order in which games are rated is
  `StatisticsInOrder`.
* OAuth, cookies and user records: external protocols; a connection sees a valid, a missing or an
  unreachable session.
* Analytics, profiles and statistics pages: queries without control of their own.
* Spectating beyond the connection's state, emotes, issue reports and the relay of drafts to
  other players: messages that change nothing in the game.
* What a snapshot hides from other players, final placements and the counters that only
  statistics read.
* Rendering: layout, sounds, texts, the component library.
* Engine: `AddPlayer` (all seats are filled in `Init`), `unadjustedTotalPoints`, and
  `EndWithoutWinner`'s different callers, which `Room` has.

## Plan

What is left, in this order:

1. `EachCardOnce` of `BoardDrafts`, with the drafts' cards stated by quantifiers over
   positions instead of folds.
2. `OneRanking` of `Leaderboard`, with the sorted ranking described by its order instead of
   computed.
3. More of the server: the WebSocket dispatch and its heartbeat, the relay of drafts, and what a
   snapshot hides from other players.
