---------------------------- MODULE Leaderboard ----------------------------
(***************************************************************************)
(* The leaderboard: pages of a ranking that changes while they are read.   *)
(*                                                                         *)
(* The server ranks the players anew for every request and ends a page     *)
(* with a cursor that holds the last row and a fingerprint of the whole    *)
(* ranking.  A cursor of another ranking is answered with a fresh first    *)
(* page, marked reset.  The client keeps the pages it has loaded for each  *)
(* metric and scope, loads the next one when the last rows come into view, *)
(* loads all of them again in the background when they have grown stale,   *)
(* and shows the pages from the last reset on.                             *)
(*                                                                         *)
(* A request is answered in one step: the ranking it reads is the one of   *)
(* the moment it is evaluated, and nothing the page does before the answer *)
(* arrives depends on that moment.  The query cache is a library; it is    *)
(* modelled by what the page uses of it: one fetch at a time per key,      *)
(* fetchNextPage cancels a background refetch, a refetch joins whatever is *)
(* under way, a refetch asks for as many pages as there were, each with    *)
(* the cursor of the page before, and replaces them at the end, and a      *)
(* fetch goes on after the page has turned to another key.                 *)
(***************************************************************************)
EXTENDS Integers, Sequences, FiniteSets, SequencesExt, TLC

CONSTANTS
  NumPlayers,   \* the players, as numbers: user ids are ordered
  Viewer,       \* whose screen this is
  Metrics,      \* the statistics shown: a subset of AllMetrics
  Limit,        \* rows per page
  FirstStats,   \* the players' statistics at first
  FirstFriends, \* the viewer's friends at first
  Games,        \* which games may be finished: pairs of winner and loser
  MaxChanges,   \* bound on games finished and friendships changed
  MaxVisits,    \* bound on changes of tab and returns to the window
  MaxFaults     \* bound on requests that fail after their retries

Players == 1 .. NumPlayers
AllMetrics == {"elo", "wins", "games"}
Scopes == {"friends", "global"}
Keys == Metrics \X Scopes

Stats == [games : Nat, wins : Nat, rating : Nat]

ASSUME ParametersAssumption ==
  /\ NumPlayers \in Nat \ {0} /\ Viewer \in Players
  /\ Metrics \subseteq AllMetrics /\ "elo" \in Metrics
  /\ Limit \in Nat \ {0}
  /\ FirstStats \in [Players -> Stats]
  /\ FirstFriends \subseteq Players \ {Viewer}
  /\ Games \subseteq Players \X Players
  /\ MaxChanges \in Nat /\ MaxVisits \in Nat /\ MaxFaults \in Nat

VARIABLES
  db,       \* statistics and the viewer's friends
  history,  \* the rankings of every key there have been, the present one last
  cache,    \* the query of each key: pages, status, fetch under way
  shown,    \* the key on the screen
  near,     \* whether the last rows are in view
  visits,   \* changes of tab and returns to the window so far
  faults    \* failed requests so far

vars == <<db, history, cache, shown, near, visits, faults>>

----------------------------------------------------------------------------
(* The server. *)

scoreExpression(metric, s) ==
  CASE metric = "elo" -> s.rating
    [] metric = "wins" -> s.wins
    [] metric = "games" -> s.games

\* Whom the ranking of a key is about.
Ranks(d, key, p) ==
  /\ d.stats[p].games > 0
  /\ key[2] = "global" \/ p = Viewer \/ p \in d.friends

scoreOf(d, key, p) == scoreExpression(key[1], d.stats[p])

\* score DESC, user id ASC
Before(d, key, p, q) ==
  \/ scoreOf(d, key, p) > scoreOf(d, key, q)
  \/ scoreOf(d, key, p) = scoreOf(d, key, q) /\ p < q

RankedRow(d, key, p) ==
  [rank |-> 1 + Cardinality({q \in Players : Ranks(d, key, q)
                                             /\ Before(d, key, q, p)}),
   id |-> p, score |-> scoreOf(d, key, p)]

leaderboardRankedPlayers(d, key) ==
  SortSeq(SelectSeq([p \in Players |-> RankedRow(d, key, p)],
                    LAMBDA row : Ranks(d, key, row.id)),
          LAMBDA r, s : r.rank < s.rank)

NoCursor == [id |-> -1]
NoPlacement == [rank |-> 0]

\* Whether a row comes after the row a cursor of this ranking points at.
AfterCursor(row, cursor) ==
  \/ row.score < cursor.score
  \/ row.score = cursor.score /\ row.id > cursor.id

\* Slip: the extra row that was asked for is counted in the page.
NextCursorSlip(rows, ranked) ==
  IF Len(rows) > Limit + 1
  THEN [id |-> rows[Limit].id, score |-> rows[Limit].score, rev |-> ranked]
  ELSE NoCursor

NextCursor(rows, ranked) ==
  IF Len(rows) > Limit
  THEN [id |-> rows[Limit].id, score |-> rows[Limit].score, rev |-> ranked]
  ELSE NoCursor

PlacementIn(ranked) ==
  LET own == SelectSeq(ranked, LAMBDA row : row.id = Viewer)
  IN  IF own = <<>> THEN NoPlacement ELSE own[1]

PageOf(rows, ranked, reset) ==
  [players |-> SubSeq(rows, 1, IF Len(rows) < Limit THEN Len(rows) ELSE Limit),
   reset |-> reset,
   next |-> NextCursor(rows, ranked),
   placement |-> PlacementIn(ranked)]

\* All the rows that follow the cursor; the query's LIMIT is PageOf's.
PageAfter(ranked, cursor, reset) ==
  PageOf(IF cursor = NoCursor \/ reset THEN ranked
         ELSE SelectSeq(ranked, LAMBDA row : AfterCursor(row, cursor)),
         ranked, reset)

\* The fingerprint of a ranking is equal for equal players and scores only:
\* the ranking itself stands for it.
GetLeaderboard(ranked, cursor) ==
  PageAfter(ranked, cursor, cursor # NoCursor /\ cursor.rev # ranked)

Rankings(d) == [k \in Keys |-> leaderboardRankedPlayers(d, k)]

----------------------------------------------------------------------------
(* The query cache, and what the page derives from it. *)

NoFetch == [dir |-> "none"]
NoQuery == [pages |-> <<>>, status |-> "pending", dir |-> "none",
            fetch |-> NoFetch]

getNextPageParam(pages) == Last(pages).next
hasNextPage(q) == q.pages # <<>> /\ getNextPageParam(q.pages) # NoCursor
isFetching(q) == q.fetch # NoFetch
isFetchingNextPage(q) == isFetching(q) /\ q.dir = "forward"
isFetchNextPageError(q) == q.status = "error" /\ q.dir = "forward"

\* The page after the ones fetched so far, or the first.
FetchParam(f) == IF f.pages = <<>> THEN NoCursor ELSE getNextPageParam(f.pages)

\* A first load, or all the pages over again.
Refetching(q) ==
  [q EXCEPT !.dir = "none",
            !.status = IF q.pages = <<>> THEN "pending" ELSE @,
            !.fetch = [dir |-> "refetch", pages |-> <<>>,
                       want |-> IF q.pages = <<>> THEN 1 ELSE Len(q.pages)]]

fetchNextPage(q) ==
  [q EXCEPT !.dir = "forward",
            !.fetch = [dir |-> "forward", pages |-> q.pages,
                       want |-> Len(q.pages) + 1]]

\* Turning to a key, or coming back to the window.
refetch(q) == IF isFetching(q) THEN q ELSE Refetching(q)

\* One more page of a fetch: the last one settles the query.
WithPage(q, page) ==
  LET pages == Append(q.fetch.pages, page) IN
  IF Len(pages) < q.fetch.want /\ page.next # NoCursor
  THEN [q EXCEPT !.fetch.pages = pages]
  ELSE [q EXCEPT !.pages = pages, !.status = "success", !.fetch = NoFetch]

findLastIndex(pages) ==
  Max({0} \cup {i \in DOMAIN pages : pages[i].reset})

\* The first place and the last value of every player id, as a Map keeps.
withRow(rows, row) ==
  IF \E i \in DOMAIN rows : rows[i].id = row.id
  THEN [i \in DOMAIN rows |-> IF rows[i].id = row.id THEN row ELSE rows[i]]
  ELSE Append(rows, row)

dedupe(rows) ==
  LET upTo[i \in 0 .. Len(rows)] ==
        IF i = 0 THEN <<>> ELSE withRow(upTo[i - 1], rows[i])
  IN  upTo[Len(rows)]

playersOf(pages) == FlattenSeq([i \in DOMAIN pages |-> pages[i].players])

currentPages(pages) == SubSeq(pages, Max({1, findLastIndex(pages)}), Len(pages))

\* Slip: the pages before a reset are kept.
visibleLeaderboardSlip(pages) ==
  [players |-> dedupe(playersOf(pages)),
   placement |-> IF pages = <<>> THEN NoPlacement ELSE pages[1].placement]

visibleLeaderboard(pages) ==
  [players |-> dedupe(playersOf(currentPages(pages))),
   placement |-> IF pages = <<>> THEN NoPlacement
                 ELSE currentPages(pages)[1].placement]

Rows(key) == visibleLeaderboard(cache[key].pages).players

\* players.length > 0
HasRows(pages) ==
  \E i \in DOMAIN pages :
    /\ pages[i].players # <<>>
    /\ \A j \in i + 1 .. Len(pages) : ~pages[j].reset

\* What the card under the tabs holds.
View(q) ==
  CASE q.status = "pending" -> "spinner"
    [] q.status # "pending" /\ HasRows(q.pages) -> "table"
    [] q.status = "error" /\ ~HasRows(q.pages) -> "error"
    [] q.status = "success" /\ ~HasRows(q.pages) -> "empty"

----------------------------------------------------------------------------
Init ==
  /\ db = [stats |-> FirstStats, friends |-> FirstFriends]
  /\ history = <<Rankings(db)>>
  /\ shown = <<"elo", "friends">>
  /\ cache = [k \in Keys |-> IF k = shown THEN Refetching(NoQuery) ELSE NoQuery]
  /\ near = FALSE /\ visits = 0 /\ faults = 0

Change(changed) ==
  /\ Len(history) <= MaxChanges
  /\ db' = changed /\ history' = Append(history, Rankings(changed))
  /\ UNCHANGED <<cache, shown, near, visits, faults>>

\* A ranked game between two players is finished and counted.
FinishGame(winner, loser) ==
  /\ <<winner, loser>> \in Games
  /\ Change([db EXCEPT
       !.stats[winner] = [games |-> @.games + 1, wins |-> @.wins + 1,
                          rating |-> @.rating + 1],
       !.stats[loser] = [@ EXCEPT !.games = @ + 1,
                                  !.rating = IF @ = 0 THEN 0 ELSE @ - 1]])

ChangeFriendship(p) ==
  /\ p # Viewer
  /\ Change([db EXCEPT
       !.friends = IF p \in @ THEN @ \ {p} ELSE @ \cup {p}])

\* The answer to the request under way, from the ranking of the moment, which
\* is the last of the history.  The end of the list may have moved and a reset
\* scrolls to the top: ScrollDown looks again.
Answered(key) ==
  /\ isFetching(cache[key])
  /\ cache' = [cache EXCEPT ![key] =
       WithPage(@, GetLeaderboard(Last(history)[key], FetchParam(@.fetch)))]
  /\ near' = (near /\ key # shown)
  /\ UNCHANGED <<db, history, shown, visits, faults>>

FetchFailed(key) ==
  /\ isFetching(cache[key]) /\ faults < MaxFaults
  /\ cache' = [cache EXCEPT ![key].status = "error", ![key].fetch = NoFetch]
  /\ faults' = faults + 1
  /\ UNCHANGED <<db, history, shown, near, visits>>

\* The observer moves to the query of the new key: one without data is loaded,
\* one that has grown stale is loaded again.
Select(key) ==
  /\ key # shown /\ visits < MaxVisits
  /\ shown' = key /\ near' = FALSE /\ visits' = visits + 1
  /\ \/ cache' = [cache EXCEPT ![key] = refetch(@)]
     \/ cache[key].pages # <<>> /\ cache' = cache
  /\ UNCHANGED <<db, history, faults>>

handleMetricChange(metric) == Select(<<metric, shown[2]>>)

handleScopeChange(scope) == Select(<<shown[1], scope>>)

\* The window gets the focus, or the network is back, and the data are stale.
WindowFocus ==
  /\ visits < MaxVisits /\ ~isFetching(cache[shown])
  /\ cache' = [cache EXCEPT ![shown] = refetch(@)]
  /\ visits' = visits + 1
  /\ UNCHANGED <<db, history, shown, near, faults>>

ScrollDown ==
  /\ ~near /\ View(cache[shown]) = "table"
  /\ near' = TRUE
  /\ UNCHANGED <<db, history, cache, shown, visits, faults>>

\* The effect that loads the next page.
FetchNextEffect ==
  /\ View(cache[shown]) = "table" /\ near /\ hasNextPage(cache[shown])
  /\ ~isFetchingNextPage(cache[shown]) /\ ~isFetchNextPageError(cache[shown])
  /\ cache' = [cache EXCEPT ![shown] = fetchNextPage(@)]
  /\ UNCHANGED <<db, history, shown, near, visits, faults>>

\* The button under the table.
RetryLoadingPlayers ==
  /\ isFetchNextPageError(cache[shown]) /\ ~isFetching(cache[shown])
  /\ View(cache[shown]) = "table"
  /\ cache' = [cache EXCEPT ![shown] = fetchNextPage(@)]
  /\ UNCHANGED <<db, history, shown, near, visits, faults>>

\* The button in place of the table, pressed when the last attempt has ended.
TryAgain ==
  /\ View(cache[shown]) = "error" /\ ~isFetching(cache[shown])
  /\ cache' = [cache EXCEPT ![shown] = Refetching(@)]
  /\ UNCHANGED <<db, history, shown, near, visits, faults>>

Next ==
  \/ \E w, l \in Players : FinishGame(w, l)
  \/ \E p \in Players : ChangeFriendship(p)
  \/ \E k \in Keys : Answered(k) \/ FetchFailed(k)
  \/ \E metric \in Metrics : handleMetricChange(metric)
  \/ \E scope \in Scopes : handleScopeChange(scope)
  \/ WindowFocus \/ ScrollDown
  \/ FetchNextEffect \/ RetryLoadingPlayers \/ TryAgain

\* Requests end, effects run, and a user who wants to see more scrolls down
\* and presses the button that offers to try again.
Progress ==
  \/ Answered(shown) \/ FetchNextEffect
  \/ ScrollDown \/ RetryLoadingPlayers \/ TryAgain

Fairness == WF_vars(Progress)

Spec == Init /\ [][Next]_vars /\ Fairness

----------------------------------------------------------------------------
Row == [rank : Nat \ {0}, id : Players, score : Nat]

TypeOKPage(page) ==
  /\ \A i \in DOMAIN page.players : page.players[i] \in Row
  /\ Len(page.players) <= Limit
  /\ page.reset \in BOOLEAN
  /\ page.next # NoCursor => page.players # <<>>

\* The state has its shape: pages are no longer than asked for, and a fetch
\* under way still lacks a page that the server said exists.
TypeOK ==
  /\ Len(history) \in 1 .. MaxChanges + 1
  /\ shown \in Keys /\ near \in BOOLEAN
  /\ visits \in 0 .. MaxVisits /\ faults \in 0 .. MaxFaults
  /\ \A k \in Keys :
       /\ cache[k].status \in {"pending", "success", "error"}
       /\ cache[k].dir \in {"none", "forward"}
       /\ \A i \in DOMAIN cache[k].pages : TypeOKPage(cache[k].pages[i])
       /\ isFetching(cache[k]) =>
            /\ Len(cache[k].fetch.pages) < cache[k].fetch.want
            /\ cache[k].fetch.pages # <<>> => FetchParam(cache[k].fetch) # NoCursor

\* Rows and a pinned row are the first of a ranking and the viewer's of it.
Shows(visible, ranked) ==
  /\ IsPrefix(visible.players, ranked)
  /\ visible.placement = PlacementIn(ranked)

\* The rows on the screen, and the pinned row of the viewer, are the first
\* rows of one ranking that the server once had for this metric and scope:
\* none twice, none left out, none of another ranking, whatever changed
\* between the requests they came in and whatever was cancelled.
OneRanking ==
  \A k \in Keys : cache[k].pages # <<>> =>
    \E i \in DOMAIN history :
      Shows(visibleLeaderboard(cache[k].pages), history[i][k])

\* Complete: the last row of some ranking is on the screen.
Complete ==
  /\ cache[shown].pages # <<>>
  /\ \E i \in DOMAIN history :
       Rows(shown) = history[i][shown]

\* A user who keeps scrolling gets to see a whole ranking, however often a
\* game moved the pages under way, and rests there.
ListCompletes == <>[]Complete
============================================================================
