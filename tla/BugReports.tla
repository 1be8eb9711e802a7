----------------------------- MODULE BugReports -----------------------------
(***************************************************************************)
(* The archive of bug reports that an administrator works through: pages   *)
(* of the open reports, a sheet with one of them, and the button that      *)
(* completes it, against a server where players file reports and other     *)
(* administrators complete them.                                           *)
(*                                                                         *)
(* The server answers a request for a page from two reads, the rows of the *)
(* page and then the number of open reports, and other requests may fall   *)
(* between them.  A report is numbered in the order of creation.  The      *)
(* newest comes first, and a page is the set of its rows.                  *)
(*                                                                         *)
(* The query cache is a library, modelled by what the page uses of it: one *)
(* query per page and per report, one fetch at a time per query; a fetch   *)
(* that is asked for while one is under way joins it, except that an       *)
(* invalidation and the button that tries again cancel it and ask anew     *)
(* when the query has data; a page without data shows those of the page    *)
(* shown before; a failed fetch has been retried and marks the data as     *)
(* invalid.  A request whose answer nobody waits for only reads, and is    *)
(* dropped when it is cancelled.                                           *)
(***************************************************************************)
EXTENDS Integers, FiniteSets

CONSTANTS
  PageSize,    \* rows per page
  FirstOpen,   \* how many reports are open at first
  MaxReports,  \* bound on the reports ever filed
  MaxTurns,    \* bound on page turns and returns to the window
  MaxTrouble   \* bound on completions by other administrators and on
               \* requests and answers that are lost

ASSUME ParametersAssumption ==
  /\ PageSize \in Nat \ {0}
  /\ FirstOpen \in Nat /\ MaxReports \in Nat /\ FirstOpen <= MaxReports
  /\ MaxTurns \in Nat /\ MaxTrouble \in Nat

Reports == 1 .. MaxReports
Pages == 1 .. MaxReports + 1

VARIABLES
  filed,     \* the number of reports filed so far
  open,      \* the reports that are not completed
  cache,     \* the query of each page
  detail,    \* the query of the report in the sheet
  page,      \* the page the administrator has turned to
  last,      \* the last page whose query had data while it was shown
  selected,  \* the report in the sheet
  mutation,  \* the completion under way
  told,      \* the reports this page knows it has completed
  overlap,   \* how a list met a change: it was read while a completion was
             \* under way, was being loaded when that was answered, or was
             \* read but not counted when a report was filed
  turns, others, faults

server == <<filed, open>>
ui == <<page, last, selected>>
bounds == <<turns, others, faults>>
vars == <<server, cache, detail, ui, mutation, told, overlap, bounds>>

NoReport == 0
NoData == [total |-> -1, reports |-> {}]
NoFetch == [at |-> "none"]
Idle == [at |-> "idle"]

----------------------------------------------------------------------------
(* The server. *)

\* ORDER BY created_at DESC, id DESC, LIMIT and OFFSET: a row is on the page
\* that the number of newer rows puts it on.
newer(rows, r) == {s \in rows : s > r}

ListGameBugReportsPage(rows, p) ==
  {r \in rows : Cardinality(newer(rows, r)) \div PageSize = p - 1}

totalPages(data) == (data.total + PageSize - 1) \div PageSize

FirstPage == [total |-> FirstOpen,
              reports |-> ListGameBugReportsPage(1 .. FirstOpen, 1)]

----------------------------------------------------------------------------
(* The query cache. *)

NoQuery == [data |-> NoData, status |-> "pending", invalid |-> FALSE,
            fetch |-> NoFetch]

isFetching(q) == q.fetch # NoFetch

Fetching(q) ==
  [q EXCEPT !.fetch = [at |-> "asked"],
            !.status = IF q.data = NoData THEN "pending" ELSE @]

\* refetch, invalidateQueries: a fetch under way is cancelled if there are data.
refetch(q) == IF isFetching(q) /\ q.data = NoData THEN q ELSE Fetching(q)

\* Slip: a fetch under way is always joined.
invalidateQueriesSlip(c, p) ==
  [k \in Pages |->
    LET marked == [c[k] EXCEPT !.invalid = c[k].data # NoData]
    IN  IF k = p /\ ~isFetching(marked) THEN refetch(marked) ELSE marked]

\* Every page is out of date, and the one on the screen is loaded again.
invalidateQueries(c, p) ==
  [k \in Pages |->
    LET marked == [c[k] EXCEPT !.invalid = c[k].data # NoData]
    IN  IF k = p THEN refetch(marked) ELSE marked]

\* What turning to a page fetches: stale says that its data have grown old.
Shown(q, stale) ==
  IF ~isFetching(q) /\ (q.data = NoData \/ q.invalid \/ stale)
  THEN Fetching(q) ELSE q

----------------------------------------------------------------------------
(* What the page shows. *)

isError(p) == cache[p].status = "error"

\* data ?? initialPage, where a page that loads keeps the previous data.
ReportsOf(p) ==
  IF cache[p].data # NoData THEN cache[p].data
  ELSE IF isError(p) THEN FirstPage ELSE cache[last].data

reports == ReportsOf(page)

TableShown == ~isError(page) /\ reports.reports # {}
FooterShown == totalPages(reports) > 1

----------------------------------------------------------------------------
Init ==
  /\ filed = FirstOpen /\ open = 1 .. FirstOpen
  /\ cache = [p \in Pages |->
       IF p = 1 THEN [NoQuery EXCEPT !.data = FirstPage, !.status = "success"]
       ELSE NoQuery]
  /\ detail = "none"
  /\ page = 1 /\ last = 1 /\ selected = NoReport
  /\ mutation = Idle /\ told = {} /\ overlap = {}
  /\ turns = 0 /\ others = 0 /\ faults = 0

\* A player files a report during a game.
CreateGameBugReport ==
  /\ filed < MaxReports
  /\ filed' = filed + 1 /\ open' = open \cup {filed + 1}
  /\ overlap' = IF \E p \in Pages : cache[p].fetch.at = "listed"
                THEN overlap \cup {"filed"} ELSE overlap
  /\ UNCHANGED <<cache, detail, ui, mutation, told, bounds>>

CompleteElsewhere(r) ==
  /\ r \in open /\ others + faults < MaxTrouble
  /\ open' = open \ {r} /\ others' = others + 1
  /\ UNCHANGED <<filed, cache, detail, ui, mutation, told, overlap, turns, faults>>

\* The first read of a request for a page.
ListReports(p) ==
  /\ cache[p].fetch.at = "asked"
  /\ cache' = [cache EXCEPT ![p].fetch =
       [at |-> "listed", reports |-> ListGameBugReportsPage(open, p)]]
  /\ overlap' = IF mutation.at \in {"sent", "completed"}
                THEN overlap \cup {"read"} ELSE overlap
  /\ UNCHANGED <<server, detail, ui, mutation, told, bounds>>

\* Slip: the page is not turned back when its only report is gone.
onCompletedSlip(c) ==
  /\ selected' = NoReport /\ detail' = "none" /\ mutation' = Idle
  /\ page' = page /\ cache' = c

\* The end of a completion: the sheet closes, whichever report it shows, and
\* the page is turned back if its list had one report when the answer came.
onCompleted(c) ==
  /\ selected' = NoReport /\ detail' = "none" /\ mutation' = Idle
  /\ IF mutation.single /\ page > 1
     THEN page' = page - 1
          /\ \E stale \in BOOLEAN :
               cache' = [c EXCEPT ![page - 1] = Shown(@, stale)]
     ELSE page' = page /\ cache' = c

\* A fetch of page p has ended, which a completion may have waited for.
Settled(p, c) ==
  IF mutation.at = "refreshing" /\ mutation.page = p
  THEN onCompleted(c)
  ELSE cache' = c /\ UNCHANGED <<page, selected, detail, mutation>>

\* The second read, which ends the request, and its answer: what happens on
\* the server between the two may as well happen after both.
CountReports(p) ==
  /\ cache[p].fetch.at = "listed"
  /\ last' = IF p = page THEN p ELSE last
  /\ Settled(p, [cache EXCEPT ![p] =
       [data |-> [total |-> Cardinality(open), reports |-> @.fetch.reports],
        status |-> "success", invalid |-> FALSE, fetch |-> NoFetch]])
  /\ UNCHANGED <<server, told, overlap, bounds>>

\* Slip: a refresh that fails leaves the completion waiting.
PageFailsSlip(p) ==
  /\ isFetching(cache[p]) /\ others + faults < MaxTrouble
  /\ faults' = faults + 1
  /\ cache' = [cache EXCEPT ![p] = [@ EXCEPT
       !.status = "error", !.invalid = TRUE, !.fetch = NoFetch]]
  /\ UNCHANGED <<server, detail, ui, mutation, told, overlap, turns, others>>

PageFails(p) ==
  /\ isFetching(cache[p]) /\ others + faults < MaxTrouble
  /\ faults' = faults + 1
  /\ Settled(p, [cache EXCEPT ![p] = [@ EXCEPT
       !.status = "error", !.invalid = TRUE, !.fetch = NoFetch]])
  /\ UNCHANGED <<server, last, told, overlap, turns, others>>

TurnTo(p) ==
  /\ turns < MaxTurns /\ turns' = turns + 1
  /\ page' = p
  /\ last' = IF cache[p].data # NoData THEN p ELSE last
  /\ \E stale \in BOOLEAN : cache' = [cache EXCEPT ![p] = Shown(@, stale)]
  /\ UNCHANGED <<server, detail, selected, mutation, told, overlap, others, faults>>

\* The sheet is modal: the page behind it cannot be turned.
PaginationPrevious ==
  /\ FooterShown /\ selected = NoReport
  /\ page > 1 /\ ~isFetching(cache[page])
  /\ TurnTo(page - 1)

PaginationNext ==
  /\ FooterShown /\ selected = NoReport
  /\ page < totalPages(reports) /\ ~isFetching(cache[page])
  /\ TurnTo(page + 1)

\* The window gets the focus and the page's data are stale.
WindowFocus ==
  /\ turns < MaxTurns /\ turns' = turns + 1
  /\ ~isFetching(cache[page])
  /\ cache' = [cache EXCEPT ![page] = Fetching(@)]
  /\ UNCHANGED <<server, detail, ui, mutation, told, overlap, others, faults>>

\* The button in place of the table.  A fetch that it cancels ends at once for
\* a completion that waits for it.
TryAgain ==
  /\ isError(page) /\ selected = NoReport
  /\ turns < MaxTurns /\ turns' = turns + 1
  /\ Settled(page, [cache EXCEPT ![page] = refetch(@)])
  /\ UNCHANGED <<server, last, told, overlap, others, faults>>

onSelect(r) ==
  /\ TableShown /\ selected = NoReport
  /\ r \in reports.reports
  /\ selected' = r /\ detail' = "loading"
  /\ UNCHANGED <<server, cache, page, last, mutation, told, overlap, bounds>>

onOpenChange ==
  /\ selected # NoReport
  /\ selected' = NoReport /\ detail' = "none"
  /\ UNCHANGED <<server, cache, page, last, mutation, told, overlap, bounds>>

\* The report of the sheet, or the answer that it does not exist any more.  A
\* report seen before may come from the cache, although it is completed; not
\* one completed here, whose query has been removed.
DetailSettles ==
  /\ detail = "loading"
  /\ \/ selected \notin told /\ detail' = "loaded"
     \/ selected \notin open /\ detail' = "failed"
  /\ UNCHANGED <<server, cache, ui, mutation, told, overlap, bounds>>

\* The button of the sheet.
mutate ==
  /\ selected # NoReport /\ detail = "loaded" /\ mutation = Idle
  /\ mutation' = [at |-> "sent", report |-> selected]
  /\ UNCHANGED <<server, cache, detail, ui, told, overlap, bounds>>

\* The server completes the report, if nobody has.
handleAdminBugReportComplete ==
  /\ mutation.at = "sent"
  /\ open' = open \ {mutation.report}
  /\ mutation' = [mutation EXCEPT !.at =
       IF mutation.report \in open THEN "completed" ELSE "refused"]
  /\ UNCHANGED <<filed, cache, detail, ui, told, overlap, bounds>>

\* The request does not reach the server, or its answer does not come back.
CompletionLost ==
  /\ mutation.at \in {"sent", "completed"} /\ others + faults < MaxTrouble
  /\ mutation' = [mutation EXCEPT !.at = "refused"]
  /\ faults' = faults + 1
  /\ UNCHANGED <<server, cache, detail, ui, told, overlap, turns, others>>

onError ==
  /\ mutation.at = "refused"
  /\ mutation' = Idle
  /\ UNCHANGED <<server, cache, detail, ui, told, overlap, bounds>>

\* What the invalidation finds under way: a refetch of the page on the screen,
\* which it cancels, or a load that it leaves to go on: the first of that page,
\* or one of a page that has been turned back from.
UnderWay(c, p) ==
  {IF k = p /\ c[k].data # NoData THEN "refetch" ELSE "load" :
     k \in {q \in Pages : isFetching(c[q])}}

\* The query of the report is removed; the open sheet asks for it again.
onSuccess ==
  /\ mutation.at = "completed"
  /\ detail' = IF selected = mutation.report THEN "loading" ELSE detail
  /\ cache' = invalidateQueries(cache, page)
  /\ mutation' = [at |-> "refreshing", page |-> page,
                  single |-> Cardinality(reports.reports) = 1]
  /\ told' = told \cup {mutation.report}
  /\ overlap' = overlap \cup UnderWay(cache, page)
  /\ UNCHANGED <<server, ui, bounds>>

Next ==
  \/ CreateGameBugReport
  \/ \E r \in Reports : CompleteElsewhere(r) \/ onSelect(r)
  \/ \E p \in Pages :
       ListReports(p) \/ CountReports(p) \/ PageFails(p)
  \/ PaginationPrevious \/ PaginationNext \/ WindowFocus \/ TryAgain
  \/ onOpenChange \/ DetailSettles
  \/ mutate \/ handleAdminBugReportComplete \/ CompletionLost
  \/ onError \/ onSuccess

\* Requests end.
Progress ==
  \/ handleAdminBugReportComplete \/ onError \/ onSuccess
  \/ \E p \in Pages : ListReports(p) \/ CountReports(p)

Fairness == WF_vars(Progress)

Spec == Init /\ [][Next]_vars /\ Fairness

----------------------------------------------------------------------------
\* The state has its shape: the page on the screen exists, its list comes
\* from data, and a page is no longer than asked for.
TypeOK ==
  /\ filed \in 0 .. MaxReports /\ open \subseteq 1 .. filed
  /\ told \subseteq (1 .. filed) \ open
  /\ page \in Pages /\ last \in Pages /\ selected \in Reports \cup {NoReport}
  /\ cache[last].data # NoData
  /\ (detail = "none") = (selected = NoReport)
  /\ \A p \in Pages :
       /\ cache[p].status \in {"pending", "success", "error"}
       /\ cache[p].data.reports \subseteq 1 .. filed
       /\ Cardinality(cache[p].data.reports) <= PageSize
       /\ cache[p].invalid \in BOOLEAN

\* A page that counts as up to date lists no report this administrator has
\* been told is completed, however requests overlap.  The exception is a load
\* that was under way when a completion was answered and was not asked for
\* again: the first load of the page on the screen, which the invalidation
\* joins, or a load of a page turned back from, which it leaves alone.
CompletedStaysGone ==
  "load" \notin overlap =>
    \A p \in Pages :
      cache[p].data # NoData /\ ~cache[p].invalid =>
        told \cap cache[p].data.reports = {}

\* When an administrator works alone and requests succeed, a completion does
\* not empty the page on the screen: completing its last report turns it
\* back.  The exceptions are a list that was loaded while the completion was
\* under way, when the list it was counted on is not the one that is left, and
\* a report filed between the two reads of a list, when an empty page can have
\* a next one to turn back from.
TurnsBackWhenEmptied ==
  [][(/\ mutation.at = "refreshing" /\ mutation' = Idle
      /\ cache[page].data.reports # {}
      /\ others = 0 /\ faults' = 0 /\ overlap = {})
     => (page' = 1 \/ cache'[page'].data.reports # {})]_vars

\* A completion comes to its end, and the button of the sheet works again,
\* whatever fails on the way.
CompletionSettles == (mutation # Idle) ~> (mutation = Idle)
=============================================================================
