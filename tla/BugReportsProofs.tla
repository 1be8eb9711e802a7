---------------------------- MODULE BugReportsProofs ----------------------------
(***************************************************************************)
(* The archive of bug reports, for any page size and any number of reports,*)
(* page turns and faults: a page that counts as up to date lists no report *)
(* that this administrator has completed.                                  *)
(***************************************************************************)
EXTENDS BugReports, FiniteSetTheorems, TLAPS

PageData == [total : Int, reports : SUBSET Reports]
Fetches == {NoFetch, [at |-> "asked"]}
           \cup [at : {"listed"}, reports : SUBSET Reports]
Queries == [data : PageData, status : {"pending", "success", "error"},
            invalid : BOOLEAN, fetch : Fetches]
Mutations == {Idle}
             \cup [at : {"sent", "completed", "refused"}, report : Reports]
             \cup [at : {"refreshing"}, page : Pages, single : BOOLEAN]

\* A list that the server may have sent: reports that were filed, no more
\* than a page holds.
ListOK(list, n) == list \subseteq 1 .. n /\ Cardinality(list) <= PageSize

QueryOK(q, n) ==
  /\ ListOK(q.data.reports, n) /\ q.data.total <= n
  /\ q.fetch.at = "listed" => ListOK(q.fetch.reports, n)

\* Neither the data of a page that counts as up to date nor a list on its way
\* to become these data names a report this administrator was told of.
Fresh(q, known) ==
  /\ q.data # NoData /\ ~q.invalid => known \cap q.data.reports = {}
  /\ q.fetch.at = "listed" => known \cap q.fetch.reports = {}

Good(q, n, known, met) ==
  /\ q \in Queries
  /\ QueryOK(q, n)
  /\ "load" \notin met => Fresh(q, known)

CacheOK(c, n, known, met) ==
  /\ c = [p \in Pages |-> c[p]]
  /\ \A p \in Pages : Good(c[p], n, known, met)

\* The reports told of are completed, and so is the one whose completion the
\* server has answered; the completion under way is of a report once filed.
ReportsOK ==
  /\ filed \in 0 .. MaxReports /\ FirstOpen <= filed
  /\ open \subseteq 1 .. filed /\ told \subseteq (1 .. filed) \ open
  /\ mutation \in Mutations
  /\ mutation.at \in {"sent", "completed", "refused"} =>
       mutation.report \in 1 .. filed
  /\ mutation.at = "completed" => mutation.report \notin open

ScreenOK ==
  /\ page \in Pages /\ last \in Pages /\ cache[last].data # NoData
  /\ selected \in 0 .. filed
  /\ detail \in {"none", "loading", "loaded", "failed"}
  /\ detail = "none" <=> selected = NoReport

ReportsInv == ReportsOK /\ CacheOK(cache, filed, told, overlap) /\ ScreenOK

\* The number of rows before a page.
Before(p) == (p - 1) * PageSize

\* A list of n rows that shows something of page p has all the rows before it.
Counted(list, p, n) == list # {} => n >= Before(p) + Cardinality(list)

\* A list shows something of page p if it goes beyond the rows before it.
Filled(list, p, n) == n > Before(p) => list # {}

-----------------------------------------------------------------------------
(***************************************************************************)
(* Lists.                                                                  *)
(***************************************************************************)
Rank(rows, r) == Cardinality(newer(rows, r))

\* Each of n rows has a number of newer ones less than n, and no two the same.
LEMMA Ranks ==
  ASSUME NEW n \in Nat, NEW rows \in SUBSET (1 .. n)
  PROVE  /\ IsFiniteSet(rows) /\ Cardinality(rows) \in Nat
         /\ \A r \in rows : Rank(rows, r) \in 0 .. Cardinality(rows) - 1
         /\ \A r, s \in rows : r # s => Rank(rows, r) # Rank(rows, s)
<1> DEFINE rank(r) == Rank(rows, r)
<1>1. IsFiniteSet(rows) /\ Cardinality(rows) \in Nat
  <2>1. IsFiniteSet(1 .. n)
    BY FS_Interval
  <2> QED BY <2>1, FS_Subset, FS_CardinalityType
<1>2. \A r \in rows : r \in Nat
  OBVIOUS
<1>3. ASSUME NEW r \in rows
      PROVE  /\ IsFiniteSet(newer(rows, r)) /\ rank(r) \in Nat
             /\ rank(r) \in 0 .. Cardinality(rows) - 1
  <2> DEFINE A == newer(rows, r)
  <2>1. A \in SUBSET rows /\ r \notin A
    BY <1>2 DEF newer
  <2>2. IsFiniteSet(A) /\ Cardinality(A) \in Nat
    BY <1>1, <2>1, FS_Subset, FS_CardinalityType
  <2>3. rank(r) = Cardinality(A)
    BY DEF Rank
  <2> HIDE DEF A, rank
  <2>4. Cardinality(A \cup {r}) = Cardinality(A) + 1
    BY <2>1, <2>2, FS_AddElement
  <2>5. A \cup {r} \in SUBSET rows
    BY <2>1
  <2>6. Cardinality(A \cup {r}) <= Cardinality(rows)
    BY <1>1, <2>5, FS_Subset
  <2> QED BY <1>1, <2>2, <2>3, <2>4, <2>6 DEF A
<1>4. ASSUME NEW r \in rows, NEW s \in rows, r < s
      PROVE  rank(s) < rank(r)
  <2> DEFINE A == newer(rows, s)
             B == newer(rows, r)
  <2>0. /\ \A x : x \in A <=> x \in rows /\ x > s
        /\ \A x : x \in B <=> x \in rows /\ x > r
    BY DEF newer
  <2>1. A \cup {s} \in SUBSET B /\ s \notin A
    <3> HIDE DEF A, B
    <3>2. s \notin A
      BY ONLY <2>0, <1>2, s \in rows
    <3>3. ASSUME NEW x \in A \cup {s}
          PROVE  x \in B
      <4>1. x \in rows /\ (x > s \/ x = s)
        BY ONLY <2>0, x \in A \cup {s}, s \in rows
      <4>2. x \in Nat /\ s \in Nat /\ r \in Nat /\ r < s
        BY ONLY <1>4, <1>2, <4>1, r \in rows, s \in rows
      <4>3. x > r
        BY ONLY <4>1, <4>2
      <4> QED BY ONLY <2>0, <4>1, <4>3
    <3> QED BY ONLY <3>2, <3>3
  <2>2. IsFiniteSet(A) /\ IsFiniteSet(B) /\ Cardinality(A) \in Nat
    BY <1>3 DEF Rank
  <2>3. rank(s) = Cardinality(A) /\ rank(r) = Cardinality(B)
    BY DEF Rank
  <2> HIDE DEF A, B, rank
  <2>4. Cardinality(A \cup {s}) = Cardinality(A) + 1
    BY <2>1, <2>2, FS_AddElement
  <2>5. Cardinality(A \cup {s}) <= Cardinality(B) /\ Cardinality(B) \in Nat
    BY <2>1, <2>2, FS_Subset, FS_CardinalityType
  <2> QED BY <2>2, <2>3, <2>4, <2>5
<1>5. ASSUME NEW r \in rows, NEW s \in rows, r # s
      PROVE  rank(r) # rank(s)
  <2>1. r < s \/ s < r
    BY <1>2, <1>5
  <2>2. rank(r) \in Nat /\ rank(s) \in Nat
    BY <1>3
  <2> HIDE DEF rank
  <2> QED BY <1>4, <2>1, <2>2
<1> QED BY <1>1, <1>3, <1>5

\* The rows of a page are those with so many newer ones.
LEMMA PageByRank ==
  ASSUME NEW rows, NEW p \in Pages, NEW r \in rows, Rank(rows, r) \in Nat
  PROVE  r \in ListGameBugReportsPage(rows, p) <=>
           Before(p) <= Rank(rows, r) /\ Rank(rows, r) < Before(p) + PageSize
<1>1. PageSize \in Nat /\ PageSize > 0 /\ p \in Nat /\ p > 0
  BY ParametersAssumption DEF Pages
<1>2. \A i, j, m \in Nat : m > 0 /\ j > 0 =>
        (i \div m = j - 1 <=> (j - 1) * m <= i /\ i < (j - 1) * m + m)
  <2> TAKE i, j, m \in Nat
  <2> HAVE m > 0 /\ j > 0
  <2> DEFINE d == i \div m
             e == i % m
  <2>1. d \in Nat /\ e \in Nat /\ e < m /\ i = d * m + e
    OBVIOUS
  <2> HIDE DEF d, e
  <2>2. CASE d = j - 1
    BY <2>1, <2>2
  <2>3. CASE d < j - 1
    <3>1. (d + 1) * m <= (j - 1) * m
      BY <2>1, <2>3
    <3> QED BY <2>1, <2>3, <3>1 DEF d
  <2>4. CASE d > j - 1
    <3>1. j * m <= d * m
      BY <2>1, <2>4
    <3> QED BY <2>1, <2>4, <3>1 DEF d
  <2> QED BY <2>1, <2>2, <2>3, <2>4 DEF d
<1>3. r \in ListGameBugReportsPage(rows, p) <=> Rank(rows, r) \div PageSize = p - 1
  BY DEF ListGameBugReportsPage, Rank
<1> QED BY <1>1, <1>2, <1>3 DEF Before

\* A page of ListGameBugReportsPage holds open reports, no more than PageSize
\* of them; it has all the rows before it, and something if there is more.
LEMMA PageHolds ==
  ASSUME NEW n \in Nat, NEW rows \in SUBSET (1 .. n), NEW p \in Pages
  PROVE  /\ ListGameBugReportsPage(rows, p) \subseteq rows
         /\ ListOK(ListGameBugReportsPage(rows, p), n)
         /\ Counted(ListGameBugReportsPage(rows, p), p, Cardinality(rows))
         /\ Filled(ListGameBugReportsPage(rows, p), p, Cardinality(rows))
<1> DEFINE list == ListGameBugReportsPage(rows, p)
           N == Cardinality(rows)
           first == Before(p)
           f == [r \in rows |-> Rank(rows, r)]
           g == [r \in list |-> Rank(rows, r)]
<1>0. PageSize \in Nat /\ PageSize > 0 /\ first \in Nat
  BY ParametersAssumption DEF Pages, Before
<1>1. list \subseteq rows
  BY DEF ListGameBugReportsPage
<1>2. /\ IsFiniteSet(rows) /\ N \in Nat
      /\ \A r \in rows : Rank(rows, r) \in 0 .. N - 1
      /\ \A r, s \in rows : r # s => Rank(rows, r) # Rank(rows, s)
  BY Ranks
<1>3. IsFiniteSet(list) /\ Cardinality(list) \in Nat
  BY <1>1, <1>2, FS_Subset, FS_CardinalityType
<1>4. \A r \in rows : r \in list <=>
        first <= Rank(rows, r) /\ Rank(rows, r) < first + PageSize
  BY <1>2, PageByRank
<1> HIDE DEF list, N, first
<1>5. ASSUME NEW m \in Int, \A r \in list : Rank(rows, r) \in first .. m, first <= m + 1
      PROVE  Cardinality(list) <= m + 1 - first
  <2>1. g \in Injection(list, first .. m)
    <3>1. g \in [list -> first .. m]
      BY <1>5
    <3>2. \A r, s \in list : g[r] = g[s] => r = s
      BY <1>1, <1>2
    <3> HIDE DEF g
    <3> QED BY <3>1, <3>2 DEF Injection, IsInjective
  <2>2. IsFiniteSet(first .. m) /\ Cardinality(first .. m) = m + 1 - first
    BY <1>0, <1>5, FS_Interval
  <2> HIDE DEF g
  <2> QED BY <2>1, <2>2, FS_Injection
<1>6. Cardinality(list) <= PageSize
  <2>1. \A r \in list : Rank(rows, r) \in first .. first + PageSize - 1
    BY <1>0, <1>1, <1>2, <1>4
  <2> QED BY <1>0, <1>3, <1>5, <2>1
<1>7. Counted(list, p, N)
  <2> SUFFICES ASSUME list # {} PROVE N >= first + Cardinality(list)
    BY DEF Counted, first
  <2>1. \A r \in list : Rank(rows, r) \in first .. N - 1
    BY <1>0, <1>1, <1>2, <1>4
  <2>2. first <= N
    BY <1>0, <1>2, <2>1
  <2> QED BY <1>0, <1>2, <1>3, <1>5, <2>1, <2>2
<1>8. Filled(list, p, N)
  <2> SUFFICES ASSUME N > first PROVE list # {}
    BY DEF Filled, first
  <2>1. f \in Injection(rows, 0 .. N - 1)
    <3>1. f \in [rows -> 0 .. N - 1] /\ \A r, s \in rows : f[r] = f[s] => r = s
      BY <1>2
    <3> HIDE DEF f
    <3> QED BY <3>1 DEF Injection, IsInjective
  <2>2. IsFiniteSet(0 .. N - 1) /\ Cardinality(0 .. N - 1) = N
    BY <1>0, <1>2, FS_Interval
  <2>3. f \in Surjection(rows, 0 .. N - 1)
    <3> HIDE DEF f
    <3> QED BY <2>1, <2>2, FS_Injection DEF N
  <2>4. first \in 0 .. N - 1
    BY <1>0, <1>2
  <2>5. PICK r \in rows : Rank(rows, r) = first
    BY <2>3, <2>4 DEF Surjection
  <2> QED BY <1>0, <1>4, <2>5
<1> QED BY <1>1, <1>6, <1>7, <1>8 DEF ListOK, list, N

-----------------------------------------------------------------------------
(***************************************************************************)
(* Queries.                                                                *)
(***************************************************************************)
\* Whatever a query is good for, it stays good for when more reports are filed.
LEMMA GoodWithMoreFiled ==
  ASSUME NEW q, NEW n \in Nat, NEW m \in Nat, n <= m, NEW known, NEW met,
         Good(q, n, known, met)
  PROVE  Good(q, m, known, met)
<1>1. q.data.total \in Int
  BY DEF Good, Queries, PageData
<1>2. 1 .. n \subseteq 1 .. m
  OBVIOUS
<1>3. QueryOK(q, m)
  BY <1>1, <1>2 DEF Good, QueryOK, ListOK
<1> QED BY <1>3 DEF Good

\* The same of all the queries.
LEMMA CacheWithMoreFiled ==
  ASSUME NEW c, NEW n \in Nat, NEW m \in Nat, n <= m, NEW known, NEW met,
         CacheOK(c, n, known, met)
  PROVE  CacheOK(c, m, known, met)
BY GoodWithMoreFiled DEF CacheOK

Replaced(d, c, p, q) == d = [c EXCEPT ![p] = q]

\* A query that is put in the place of another.
LEMMA CacheExcept ==
  ASSUME NEW c, NEW n, NEW known, NEW met, CacheOK(c, n, known, met),
         NEW p \in Pages, NEW q, Good(q, n, known, met),
         NEW d, Replaced(d, c, p, q)
  PROVE  /\ CacheOK(d, n, known, met)
         /\ d[p] = q
         /\ \A k \in Pages \ {p} : d[k] = c[k]
BY DEF CacheOK, Replaced

\* A fetch that is asked for forgets the list on its way.
LEMMA FetchingGood ==
  ASSUME NEW q, NEW n, NEW known, NEW met, Good(q, n, known, met)
  PROVE  Good(Fetching(q), n, known, met) /\ Fetching(q).data = q.data
<1> DEFINE s == IF q.data = NoData THEN "pending" ELSE q.status
<1>0. q \in Queries
  BY DEF Good
<1>1. q.status \in {"pending", "success", "error"}
  BY <1>0 DEF Queries
<1>2. Fetching(q) = [q EXCEPT !.fetch = [at |-> "asked"], !.status = s]
  BY DEF Fetching
<1>3. s \in {"pending", "success", "error"}
  BY <1>1
<1> HIDE DEF s
<1>4. Fetching(q) \in Queries
  BY <1>0, <1>2, <1>3 DEF Queries, Fetches
<1>5. /\ Fetching(q).data = q.data /\ Fetching(q).invalid = q.invalid
      /\ Fetching(q).fetch.at # "listed"
  BY <1>0, <1>2 DEF Queries
<1> HIDE DEF Fetching
<1> QED BY <1>4, <1>5 DEF Good, QueryOK, Fresh

\* Asking anew, by an invalidation or a button, keeps a good query good.
LEMMA RefetchGood ==
  ASSUME NEW q, NEW n, NEW known, NEW met, Good(q, n, known, met)
  PROVE  Good(refetch(q), n, known, met) /\ refetch(q).data = q.data
BY FetchingGood DEF refetch

\* So does showing its page.
LEMMA ShownGood ==
  ASSUME NEW q, NEW stale \in BOOLEAN, NEW n, NEW known, NEW met, Good(q, n, known, met)
  PROVE  Good(Shown(q, stale), n, known, met) /\ Shown(q, stale).data = q.data
BY FetchingGood DEF Shown

\* A query that is put in the place of one with the same data.
LEMMA CacheKeepsData ==
  ASSUME NEW c, NEW n, NEW known, NEW met, CacheOK(c, n, known, met),
         NEW p \in Pages, NEW q, Good(q, n, known, met), q.data = c[p].data,
         NEW d, Replaced(d, c, p, q)
  PROVE  /\ CacheOK(d, n, known, met)
         /\ \A k \in Pages : d[k].data = c[k].data
<1>1. /\ CacheOK(d, n, known, met) /\ d[p] = q
      /\ \A k \in Pages \ {p} : d[k] = c[k]
  BY CacheExcept
<1> QED BY <1>1

\* The list of the page on the screen, or of the one before it, or the first
\* page that came with the route.
LEMMA ReportsAreListed ==
  ASSUME CacheOK(cache, filed, told, overlap), ScreenOK, ReportsOK
  PROVE  /\ reports.reports \subseteq 1 .. filed
         /\ reports.total \in Int /\ reports.total <= filed
<1>1. /\ Good(cache[page], filed, told, overlap)
      /\ Good(cache[last], filed, told, overlap)
  BY DEF CacheOK, ScreenOK
<1>2. /\ cache[page].data.reports \subseteq 1 .. filed
      /\ cache[page].data.total \in Int /\ cache[page].data.total <= filed
      /\ cache[last].data.reports \subseteq 1 .. filed
      /\ cache[last].data.total \in Int /\ cache[last].data.total <= filed
  BY <1>1 DEF Good, QueryOK, ListOK, Queries, PageData
<1>3. FirstOpen \in Nat /\ filed \in Nat /\ FirstOpen <= filed
  BY ParametersAssumption DEF ReportsOK
<1>4. 1 \in Pages
  BY ParametersAssumption DEF Pages
<1>5. FirstPage.reports \subseteq 1 .. FirstOpen /\ FirstPage.total = FirstOpen
  BY <1>3, <1>4, PageHolds DEF FirstPage
<1>6. 1 .. FirstOpen \subseteq 1 .. filed
  BY <1>3
<1> HIDE DEF FirstPage
<1> QED BY <1>2, <1>3, <1>5, <1>6 DEF reports, ReportsOf

-----------------------------------------------------------------------------
(***************************************************************************)
(* Steps.                                                                  *)
(***************************************************************************)
\* The end of a fetch, with the end of a completion that waited for it.
LEMMA SettledKeeps ==
  ASSUME NEW c, CacheOK(c, filed, told, overlap), NEW p,
         page \in Pages, Settled(p, c)
  PROVE  /\ CacheOK(cache', filed, told, overlap)
         /\ \A k \in Pages : cache'[k].data = c[k].data
         /\ page' \in Pages
         /\ mutation' = mutation \/ mutation' = Idle
         /\ \/ selected' = selected /\ detail' = detail
            \/ selected' = NoReport /\ detail' = "none"
<1>1. CASE onCompleted(c)
  <2>1. CASE mutation.single /\ page > 1
    <3>1. page - 1 \in Pages
      BY <2>1, ParametersAssumption DEF Pages
    <3>2. PICK stale \in BOOLEAN :
            cache' = [c EXCEPT ![page - 1] = Shown(@, stale)]
      BY <1>1, <2>1 DEF onCompleted
    <3> DEFINE q == Shown(c[page - 1], stale)
    <3>3. Replaced(cache', c, page - 1, q)
      BY <3>1, <3>2 DEF CacheOK, Replaced
    <3>5. Good(q, filed, told, overlap) /\ q.data = c[page - 1].data
      BY <3>1, ShownGood DEF CacheOK
    <3> HIDE DEF q
    <3>4. /\ CacheOK(cache', filed, told, overlap)
          /\ \A k \in Pages : cache'[k].data = c[k].data
      BY <3>1, <3>3, <3>5, CacheKeepsData
    <3> QED BY <1>1, <2>1, <3>1, <3>4 DEF onCompleted
  <2>2. CASE ~(mutation.single /\ page > 1)
    BY <1>1, <2>2 DEF onCompleted
  <2> QED BY <2>1, <2>2
<1>2. CASE cache' = c /\ UNCHANGED <<page, selected, detail, mutation>>
  BY <1>2
<1> QED BY <1>1, <1>2 DEF Settled

\* What is left of the invariant when the server and what was told stay.
LEMMA QuietStep ==
  ASSUME ReportsInv, UNCHANGED <<filed, open, told>>, overlap \subseteq overlap',
         CacheOK(cache', filed, told, overlap'),
         page' \in Pages, last' \in Pages, cache'[last'].data # NoData,
         mutation' \in {mutation, Idle},
         \/ selected' = selected /\ detail' = detail
         \/ selected' = NoReport /\ detail' = "none"
  PROVE  ReportsInv'
<1>1. ScreenOK'
  BY DEF ReportsInv, ReportsOK, ScreenOK, NoReport
<1>2. ReportsOK'
  <2>1. Idle \in Mutations /\ Idle.at = "idle"
    BY DEF Mutations, Idle
  <2> QED BY <2>1 DEF ReportsInv, ReportsOK
<1> QED BY <1>1, <1>2 DEF ReportsInv

\* As fewer fetches count as fresh when they met a completion.
LEMMA CacheWhenMet ==
  ASSUME NEW c, NEW n, NEW known, NEW met, NEW more, met \subseteq more,
         CacheOK(c, n, known, met)
  PROVE  CacheOK(c, n, known, more)
BY DEF CacheOK, Good

\* A list is read by the server.
LEMMA ListStep ==
  ASSUME ReportsInv, NEW p \in Pages, ListReports(p)
  PROVE  ReportsInv'
<1> DEFINE list == ListGameBugReportsPage(open, p)
           q == [cache[p] EXCEPT !.fetch = [at |-> "listed", reports |-> list]]
<1> USE DEF ReportsInv
<1>1. filed \in Nat /\ MaxReports \in Nat /\ open \in SUBSET (1 .. filed)
  BY ParametersAssumption DEF ReportsOK
<1>2. list \subseteq open /\ ListOK(list, filed)
  BY <1>1, PageHolds
<1> HIDE DEF list
<1>3. Good(cache[p], filed, told, overlap)
  BY DEF CacheOK
<1>4. /\ q \in Queries /\ q.data = cache[p].data /\ q.invalid = cache[p].invalid
      /\ q.fetch.reports = list
  <2>1. list \in SUBSET Reports
    BY <1>1, <1>2 DEF ReportsOK, Reports
  <2>2. [at |-> "listed", reports |-> list] \in Fetches
    BY <2>1 DEF Fetches
  <2> QED BY <1>3, <2>2 DEF Good, Queries
<1>5. told \cap list = {}
  BY <1>2 DEF ReportsOK
<1>6. Good(q, filed, told, overlap)
  <2> HIDE DEF q
  <2> QED BY <1>2, <1>3, <1>4, <1>5 DEF Good, QueryOK, Fresh
<1> DEFINE d == [cache EXCEPT ![p] = q]
<1>7. cache' = d /\ overlap \subseteq overlap'
  BY DEF ListReports, CacheOK, list
<1>r. Replaced(d, cache, p, q)
  BY DEF Replaced
<1> HIDE DEF d, q
<1>8. CacheOK(d, filed, told, overlap) /\ \A k \in Pages : d[k].data = cache[k].data
  BY <1>4, <1>6, <1>r, CacheKeepsData
<1>9. CacheOK(cache', filed, told, overlap')
  BY <1>7, <1>8, CacheWhenMet
<1> QED
  <2>1. UNCHANGED <<filed, open, told, detail, page, last, selected, mutation>>
    BY DEF ListReports, server, ui
  <2>2. cache'[last'].data # NoData /\ page' \in Pages /\ last' \in Pages
    BY <1>7, <1>8, <2>1 DEF ScreenOK
  <2> QED BY <1>7, <1>9, <2>1, <2>2, QuietStep

\* A fetch ends with the number of open reports.
LEMMA CountStep ==
  ASSUME ReportsInv, NEW p \in Pages, CountReports(p)
  PROVE  ReportsInv'
<1> DEFINE list == cache[p].fetch.reports
           q == [data |-> [total |-> Cardinality(open), reports |-> list],
                 status |-> "success", invalid |-> FALSE, fetch |-> NoFetch]
           d == [cache EXCEPT ![p] = q]
<1> USE DEF ReportsInv
<1>1. Good(cache[p], filed, told, overlap) /\ cache[p].fetch.at = "listed"
  BY DEF CacheOK, CountReports
<1>2. Cardinality(open) \in Nat /\ Cardinality(open) <= filed
  <2>1. filed \in Nat /\ open \in SUBSET (1 .. filed)
    BY DEF ReportsOK
  <2>2. IsFiniteSet(1 .. filed) /\ Cardinality(1 .. filed) = filed
    BY <2>1, FS_Interval
  <2> QED BY <2>1, <2>2, FS_Subset, FS_CardinalityType
<1>3. list \in SUBSET Reports
  BY <1>1 DEF Good, Queries, Fetches, NoFetch
<1>4. q \in Queries
  BY <1>2, <1>3 DEF Queries, PageData, Fetches
<1>5. q.data # NoData
  BY <1>2 DEF NoData
<1>6. Good(q, filed, told, overlap)
  <2>1. QueryOK(q, filed) /\ ("load" \notin overlap => Fresh(q, told))
    BY <1>1, <1>2 DEF Good, QueryOK, Fresh, NoFetch
  <2> QED BY <1>4, <2>1 DEF Good
<1>7. Settled(p, d)
  BY DEF CountReports, CacheOK
<1>r. Replaced(d, cache, p, q)
  BY DEF Replaced
<1> HIDE DEF d, q
<1>8. /\ CacheOK(d, filed, told, overlap) /\ d[p] = q
      /\ \A k \in Pages \ {p} : d[k] = cache[k]
  BY <1>6, <1>r, CacheExcept
<1>9. UNCHANGED <<filed, open, told, overlap>> /\ last' = IF p = page THEN p ELSE last
  BY DEF CountReports, server
<1>10. /\ CacheOK(cache', filed, told, overlap')
       /\ \A k \in Pages : cache'[k].data = d[k].data
       /\ page' \in Pages
       /\ mutation' = mutation \/ mutation' = Idle
       /\ \/ selected' = selected /\ detail' = detail
          \/ selected' = NoReport /\ detail' = "none"
  BY <1>7, <1>8, <1>9, SettledKeeps DEF ScreenOK
<1>11. last' \in Pages /\ cache'[last'].data # NoData
  BY <1>5, <1>8, <1>9, <1>10 DEF ScreenOK
<1> QED BY <1>9, <1>10, <1>11, QuietStep

\* A fetch that fails leaves the data, which do not count as up to date.
LEMMA FailStep ==
  ASSUME ReportsInv, NEW p \in Pages, PageFails(p)
  PROVE  ReportsInv'
<1> DEFINE q == [cache[p] EXCEPT !.status = "error", !.invalid = TRUE,
                                 !.fetch = NoFetch]
           d == [cache EXCEPT ![p] = q]
<1> USE DEF ReportsInv
<1>1. Good(cache[p], filed, told, overlap)
  BY DEF CacheOK
<1>2. /\ q \in Queries /\ q.data = cache[p].data /\ q.invalid
      /\ q.fetch = NoFetch
  BY <1>1 DEF Good, Queries, Fetches
<1>3. Settled(p, d)
  BY DEF PageFails, CacheOK
<1>r. Replaced(d, cache, p, q)
  BY DEF Replaced
<1> HIDE DEF d, q
<1>4. Good(q, filed, told, overlap)
  BY <1>1, <1>2 DEF Good, QueryOK, Fresh, NoFetch
<1>5. CacheOK(d, filed, told, overlap) /\ \A k \in Pages : d[k].data = cache[k].data
  BY <1>2, <1>4, <1>r, CacheKeepsData
<1>6. UNCHANGED <<filed, open, told, overlap, last>>
  BY DEF PageFails, server
<1>7. /\ CacheOK(cache', filed, told, overlap')
      /\ \A k \in Pages : cache'[k].data = d[k].data
      /\ page' \in Pages
      /\ mutation' = mutation \/ mutation' = Idle
      /\ \/ selected' = selected /\ detail' = detail
         \/ selected' = NoReport /\ detail' = "none"
  BY <1>3, <1>5, <1>6, SettledKeeps DEF ScreenOK
<1>8. last' \in Pages /\ cache'[last'].data # NoData
  BY <1>5, <1>6, <1>7 DEF ScreenOK
<1> QED BY <1>6, <1>7, <1>8, QuietStep

\* A fetch that the administrator asks for.
LEMMA TryAgainStep ==
  ASSUME ReportsInv, TryAgain
  PROVE  ReportsInv'
<1> DEFINE q == refetch(cache[page])
           d == [cache EXCEPT ![page] = q]
<1> USE DEF ReportsInv
<1>1. page \in Pages /\ Good(cache[page], filed, told, overlap)
  BY DEF CacheOK, ScreenOK
<1>2. Good(q, filed, told, overlap) /\ q.data = cache[page].data
  BY <1>1, RefetchGood
<1>3. Settled(page, d)
  BY <1>1 DEF TryAgain, CacheOK
<1>r. Replaced(d, cache, page, q)
  BY DEF Replaced
<1> HIDE DEF d, q
<1>4. CacheOK(d, filed, told, overlap) /\ \A k \in Pages : d[k].data = cache[k].data
  BY <1>1, <1>2, <1>r, CacheKeepsData
<1>5. UNCHANGED <<filed, open, told, overlap, last>>
  BY DEF TryAgain, server
<1>6. /\ CacheOK(cache', filed, told, overlap')
      /\ \A k \in Pages : cache'[k].data = d[k].data
      /\ page' \in Pages
      /\ mutation' = mutation \/ mutation' = Idle
      /\ \/ selected' = selected /\ detail' = detail
         \/ selected' = NoReport /\ detail' = "none"
  BY <1>1, <1>3, <1>4, <1>5, SettledKeeps
<1>7. last' \in Pages /\ cache'[last'].data # NoData
  BY <1>4, <1>5, <1>6 DEF ScreenOK
<1> QED BY <1>5, <1>6, <1>7, QuietStep

\* A turn of the page asks for a page that is out of date or was never loaded.
LEMMA TurnStep ==
  ASSUME ReportsInv, NEW p \in Pages, TurnTo(p)
  PROVE  ReportsInv'
<1> USE DEF ReportsInv
<1>1. PICK stale \in BOOLEAN : cache' = [cache EXCEPT ![p] = Shown(@, stale)]
  BY DEF TurnTo
<1> DEFINE q == Shown(cache[p], stale)
<1>2. Replaced(cache', cache, p, q)
  BY <1>1 DEF Replaced, CacheOK
<1>3. Good(q, filed, told, overlap) /\ q.data = cache[p].data
  BY ShownGood DEF CacheOK
<1> HIDE DEF q
<1>4. UNCHANGED <<filed, open, told, overlap, detail, selected, mutation>>
      /\ page' = p /\ last' = IF cache[p].data # NoData THEN p ELSE last
  BY DEF TurnTo, server
<1>5. /\ CacheOK(cache', filed, told, overlap')
      /\ \A k \in Pages : cache'[k].data = cache[k].data
  BY <1>2, <1>3, <1>4, CacheKeepsData
<1>6. last' \in Pages /\ cache'[last'].data # NoData
  BY <1>4, <1>5 DEF ScreenOK
<1> QED BY <1>4, <1>5, <1>6, QuietStep

\* So does the return to the window.
LEMMA FocusStep ==
  ASSUME ReportsInv, WindowFocus
  PROVE  ReportsInv'
<1> USE DEF ReportsInv
<1> DEFINE q == Fetching(cache[page])
<1>1. page \in Pages
  BY DEF ScreenOK
<1>2. Replaced(cache', cache, page, q)
  BY <1>1 DEF WindowFocus, Replaced, CacheOK
<1>3. Good(q, filed, told, overlap) /\ q.data = cache[page].data
  BY <1>1, FetchingGood DEF CacheOK
<1> HIDE DEF q
<1>4. UNCHANGED <<filed, open, told, overlap, detail, ui, mutation>>
  BY DEF WindowFocus, server
<1>5. /\ CacheOK(cache', filed, told, overlap')
      /\ \A k \in Pages : cache'[k].data = cache[k].data
  BY <1>1, <1>2, <1>3, <1>4, CacheKeepsData
<1> QED BY <1>4, <1>5, QuietStep DEF ScreenOK, ui

\* The server files or completes a report for somebody else.
LEMMA ServerStep ==
  ASSUME ReportsInv,
         CreateGameBugReport \/ \E r \in Reports : CompleteElsewhere(r)
  PROVE  ReportsInv'
<1> USE DEF ReportsInv
<1>1. filed \in Nat /\ MaxReports \in Nat
  BY ParametersAssumption DEF ReportsOK
<1>2. CASE CreateGameBugReport
  <2>1. /\ filed' = filed + 1 /\ filed < MaxReports /\ open' = open \cup {filed + 1}
        /\ UNCHANGED <<cache, detail, ui, mutation, told>>
        /\ overlap \subseteq overlap'
    BY <1>2 DEF CreateGameBugReport
  <2>2. CacheOK(cache', filed', told', overlap')
    <3>1. CacheOK(cache, filed + 1, told, overlap)
      BY <1>1, CacheWithMoreFiled
    <3> QED BY <2>1, <3>1, CacheWhenMet
  <2>3. ReportsOK'
    <3>1. filed' \in 0 .. MaxReports /\ FirstOpen <= filed'
      BY <1>1, <2>1, ParametersAssumption DEF ReportsOK
    <3>2. open' \subseteq 1 .. filed' /\ told' \subseteq (1 .. filed') \ open'
      BY <1>1, <2>1 DEF ReportsOK
    <3>3. /\ mutation' \in Mutations
          /\ mutation'.at \in {"sent", "completed", "refused"} =>
               mutation'.report \in 1 .. filed'
          /\ mutation'.at = "completed" => mutation'.report \notin open'
      BY <1>1, <2>1 DEF ReportsOK
    <3> QED BY <3>1, <3>2, <3>3 DEF ReportsOK
  <2>4. ScreenOK'
    BY <1>1, <2>1 DEF ScreenOK, ui, NoReport
  <2> QED BY <2>2, <2>3, <2>4
<1>3. CASE \E r \in Reports : CompleteElsewhere(r)
  BY <1>3 DEF CompleteElsewhere, ReportsOK, ScreenOK, ui
<1> QED BY <1>2, <1>3

\* The sheet opens, closes and loads; a completion is asked for, carried out,
\* lost or refused.
LEMMA SheetStep ==
  ASSUME ReportsInv,
         \/ \E r \in Reports : onSelect(r)
         \/ onOpenChange \/ DetailSettles \/ mutate
         \/ handleAdminBugReportComplete \/ CompletionLost \/ onError
  PROVE  ReportsInv'
<1> USE DEF ReportsInv
<1>0. UNCHANGED <<filed, cache, page, last, told, overlap>>
  BY DEF onSelect, onOpenChange, DetailSettles, mutate, server, ui,
         handleAdminBugReportComplete, CompletionLost, onError
<1>1. CacheOK(cache', filed', told', overlap')
  BY <1>0
<1>2. reports.reports \subseteq 1 .. filed /\ filed \in Nat /\ filed <= MaxReports
  BY ReportsAreListed, ParametersAssumption DEF ReportsOK
<1>3. ASSUME NEW r \in Reports, onSelect(r)
      PROVE  ReportsInv'
  <2>1. UNCHANGED <<open, mutation>> /\ selected' = r /\ detail' = "loading"
    BY <1>3 DEF onSelect, server
  <2>2. r \in 1 .. filed
    BY <1>2, <1>3 DEF onSelect
  <2> HIDE DEF onSelect
  <2>3. ReportsOK'
    BY <1>0, <2>1 DEF ReportsOK
  <2>4. ScreenOK'
    BY <1>0, <1>2, <2>1, <2>2 DEF ScreenOK, NoReport
  <2> QED BY <1>1, <2>3, <2>4
<1>4. CASE onOpenChange
  BY <1>0, <1>1, <1>2, <1>4 DEF onOpenChange, ReportsOK, ScreenOK, server, NoReport
<1>5. CASE DetailSettles
  BY <1>0, <1>1, <1>5 DEF DetailSettles, ReportsOK, ScreenOK, server, ui
<1>6. CASE mutate
  <2>1. /\ mutation' = [at |-> "sent", report |-> selected]
        /\ UNCHANGED <<open, detail, selected>> /\ selected \in 1 .. filed
    BY <1>2, <1>6 DEF mutate, ScreenOK, NoReport, server, ui
  <2>2. mutation' \in Mutations /\ mutation'.at = "sent" /\ mutation'.report = selected
    <3>1. selected \in Reports
      BY <1>2, <2>1, ParametersAssumption DEF Reports
    <3> QED BY <2>1, <3>1 DEF Mutations
  <2>3. ReportsOK'
    BY <1>0, <2>1, <2>2 DEF ReportsOK
  <2> QED BY <1>0, <1>1, <2>1, <2>3 DEF ScreenOK
<1>7. CASE handleAdminBugReportComplete \/ CompletionLost
  <2>1. /\ mutation \in Mutations
        /\ mutation.at \in {"sent", "completed"}
        /\ mutation.report \in 1 .. filed
        /\ UNCHANGED <<detail, selected>>
    BY <1>7 DEF handleAdminBugReportComplete, CompletionLost, ReportsOK, ui
  <2>2. mutation \in [at : {"sent", "completed", "refused"}, report : Reports]
    BY <2>1 DEF Mutations, Idle
  <2>3. \A a \in {"completed", "refused"} :
          /\ [mutation EXCEPT !.at = a] \in Mutations
          /\ [mutation EXCEPT !.at = a].at = a
          /\ [mutation EXCEPT !.at = a].report = mutation.report
    BY <2>2 DEF Mutations
  <2>4. /\ open' \subseteq open
        /\ \E a \in {"completed", "refused"} :
             /\ mutation' = [mutation EXCEPT !.at = a]
             /\ a = "completed" => mutation.report \notin open'
    BY <1>7 DEF handleAdminBugReportComplete, CompletionLost, server
  <2>5. ReportsOK'
    BY <1>0, <2>1, <2>3, <2>4 DEF ReportsOK
  <2> QED BY <1>0, <1>1, <2>1, <2>5 DEF ScreenOK
<1>8. CASE onError
  <2>1. Idle \in Mutations /\ Idle.at = "idle"
    BY DEF Mutations, Idle
  <2> QED BY <1>0, <1>1, <1>8, <2>1 DEF onError, ReportsOK, ScreenOK, server, ui
<1> QED BY <1>3, <1>4, <1>5, <1>6, <1>7, <1>8

\* After the invalidation a page does not count as up to date unless it has no
\* data, and a list on its way is one that the invalidation has left alone.
LEMMA MarkedGood ==
  ASSUME CacheOK(cache, filed, told, overlap), page \in Pages, NEW k \in Pages,
         NEW more
  PROVE  LET c == invalidateQueries(cache, page)
         IN  Good(c[k], filed, more, overlap \cup UnderWay(cache, page))
             /\ c[k].data = cache[k].data
<1> DEFINE c == invalidateQueries(cache, page)
           met == overlap \cup UnderWay(cache, page)
           flag == cache[k].data # NoData
           marked == [cache[k] EXCEPT !.invalid = flag]
<1>1. cache[k] \in Queries /\ QueryOK(cache[k], filed)
  BY DEF CacheOK, Good
<1>2. c[k] = IF k = page THEN refetch(marked) ELSE marked
  BY DEF invalidateQueries
<1>3. flag \in BOOLEAN /\ (flag <=> cache[k].data # NoData)
  OBVIOUS
<1> HIDE DEF flag
<1>4. /\ marked \in Queries /\ marked.data = cache[k].data
      /\ marked.invalid = flag /\ marked.fetch = cache[k].fetch
  BY <1>1, <1>3 DEF Queries
<1> HIDE DEF marked
<1>5. QueryOK(marked, filed)
  BY <1>1, <1>4 DEF QueryOK
<1>6. isFetching(cache[k]) /\ (k # page \/ cache[k].data = NoData) => "load" \in met
  BY DEF UnderWay
<1> HIDE DEF met, c
<1>7. NoFetch.at # "listed" /\ isFetching(marked) = isFetching(cache[k])
  BY <1>4 DEF NoFetch, isFetching
<1>8. CASE k # page \/ (isFetching(marked) /\ marked.data = NoData)
  <2>1. c[k] = marked
    BY <1>2, <1>8 DEF refetch
  <2>2. marked.fetch.at = "listed" => "load" \in met
    BY <1>4, <1>6, <1>7, <1>8 DEF isFetching
  <2>3. marked.data # NoData => marked.invalid
    BY <1>3, <1>4
  <2>4. Good(marked, filed, more, met)
    BY <1>4, <1>5, <2>2, <2>3 DEF Good, Fresh
  <2> QED BY <1>4, <2>1, <2>4 DEF c, met
<1>9. CASE k = page /\ ~(isFetching(marked) /\ marked.data = NoData)
  <2> DEFINE q == [marked EXCEPT !.fetch = NoFetch]
  <2>1. c[k] = Fetching(marked)
    BY <1>2, <1>9 DEF refetch
  <2>2. Fetching(q) = Fetching(marked)
    <3>1. /\ q = [marked EXCEPT !.fetch = NoFetch] /\ q.data = marked.data
          /\ q.status = marked.status
      BY <1>4 DEF Queries
    <3>2. [q EXCEPT !.fetch = [at |-> "asked"]]
            = [marked EXCEPT !.fetch = [at |-> "asked"]]
      BY <1>4 DEF Queries
    <3> QED BY <1>4, <3>1, <3>2 DEF Fetching, Queries
  <2>3. /\ q \in Queries /\ q.data = cache[k].data /\ q.invalid = flag
        /\ q.fetch = NoFetch
    BY <1>4 DEF Queries, Fetches
  <2> HIDE DEF q
  <2>4. Good(q, filed, more, met)
    BY <1>3, <1>4, <1>5, <1>7, <2>3 DEF Good, QueryOK, Fresh
  <2>5. Good(c[k], filed, more, met) /\ c[k].data = cache[k].data
    BY <2>1, <2>2, <2>3, <2>4, FetchingGood
  <2> QED BY <2>5 DEF c, met
<1> QED BY <1>8, <1>9

\* The answer of the server: the report is told of, every list is out of date,
\* and the one on the screen is asked for again.
LEMMA SuccessStep ==
  ASSUME ReportsInv, onSuccess
  PROVE  ReportsInv'
<1> USE DEF ReportsInv
<1>1. /\ mutation.at = "completed" /\ mutation.report \in (1 .. filed) \ open
      /\ page \in Pages
  BY DEF onSuccess, ReportsOK, ScreenOK
<1>2. /\ cache' = invalidateQueries(cache, page)
      /\ overlap' = overlap \cup UnderWay(cache, page)
      /\ told' = told \cup {mutation.report}
      /\ detail' = IF selected = mutation.report THEN "loading" ELSE detail
      /\ UNCHANGED <<filed, open, page, last, selected>>
  BY DEF onSuccess, server, ui
<1> DEFINE c == invalidateQueries(cache, page)
           met == overlap \cup UnderWay(cache, page)
<1>3. \A k \in Pages : Good(c[k], filed, told', met) /\ c[k].data = cache[k].data
  BY <1>1, MarkedGood
<1>4. c = [k \in Pages |-> c[k]]
  BY DEF invalidateQueries
<1> HIDE DEF c, met
<1>5. CacheOK(c, filed, told', met)
  BY <1>3, <1>4 DEF CacheOK
<1>6. CacheOK(cache', filed', told', overlap')
  BY <1>2, <1>5 DEF c, met
<1>7. mutation' \in Mutations /\ mutation'.at = "refreshing"
  <2>1. (Cardinality(reports.reports) = 1) \in BOOLEAN
    OBVIOUS
  <2> DEFINE one == Cardinality(reports.reports) = 1
  <2>2. mutation' = [at |-> "refreshing", page |-> page, single |-> one]
    BY DEF onSuccess
  <2>3. one \in BOOLEAN
    OBVIOUS
  <2> HIDE DEF one
  <2> QED BY <1>1, <2>2, <2>3 DEF Mutations
<1>8. ReportsOK'
  BY <1>1, <1>2, <1>7 DEF ReportsOK
<1>9. cache'[last'].data # NoData
  BY <1>2, <1>3 DEF ScreenOK, c
<1>10. ScreenOK'
  BY <1>1, <1>2, <1>9 DEF ScreenOK, ReportsOK, NoReport
<1> QED BY <1>6, <1>8, <1>10

-----------------------------------------------------------------------------
(***************************************************************************)
(* The archive keeps its invariant.                                        *)
(***************************************************************************)
LEMMA ReportsInvInit == ASSUME Init PROVE ReportsInv
<1>1. /\ FirstOpen \in Nat /\ MaxReports \in Nat /\ FirstOpen <= MaxReports
      /\ 1 \in Pages
  BY ParametersAssumption DEF Pages
<1>2. /\ ListOK(FirstPage.reports, FirstOpen) /\ FirstPage.total \in Nat
      /\ FirstPage \in PageData /\ FirstPage.total = FirstOpen
  <2>1. 1 .. FirstOpen \in SUBSET (1 .. FirstOpen)
    OBVIOUS
  <2>2. /\ ListGameBugReportsPage(1 .. FirstOpen, 1) \subseteq 1 .. FirstOpen
        /\ ListOK(ListGameBugReportsPage(1 .. FirstOpen, 1), FirstOpen)
    BY <1>1, <2>1, PageHolds
  <2>3. 1 .. FirstOpen \subseteq Reports
    BY <1>1 DEF Reports
  <2> QED BY <1>1, <2>2, <2>3 DEF FirstPage, PageData
<1>3. FirstPage # NoData
  BY <1>1 DEF FirstPage, NoData
<1>4. Good(NoQuery, filed, told, overlap)
  <2>1. NoData \in PageData /\ ListOK({}, filed)
    BY FS_EmptySet, ParametersAssumption DEF NoData, PageData, ListOK
  <2>2. NoQuery \in Queries
    BY <2>1 DEF NoQuery, Queries, Fetches
  <2>3. QueryOK(NoQuery, filed) /\ Fresh(NoQuery, told)
    <3>1. filed \in Nat
      BY <1>1 DEF Init
    <3> QED BY <2>1, <3>1 DEF NoQuery, NoData, NoFetch, QueryOK, Fresh
  <2> QED BY <2>2, <2>3 DEF Good
<1> DEFINE q == [NoQuery EXCEPT !.data = FirstPage, !.status = "success"]
<1>5. /\ q.data = FirstPage /\ q.invalid = FALSE /\ q.fetch = NoFetch
      /\ q \in Queries
  BY <1>2, <1>4 DEF NoQuery, Good, Queries
<1> HIDE DEF q
<1>6. Good(q, filed, told, overlap) /\ q.data = FirstPage
  <2>2. told = {} /\ filed = FirstOpen
    BY DEF Init
  <2>3. QueryOK(q, filed) /\ Fresh(q, told)
    BY <1>2, <1>5, <2>2 DEF NoFetch, QueryOK, Fresh
  <2> QED BY <1>5, <2>3 DEF Good
<1>7. cache = [p \in Pages |-> IF p = 1 THEN q ELSE NoQuery]
  BY DEF Init, q
<1>8. CacheOK(cache, filed, told, overlap)
  BY <1>4, <1>6, <1>7 DEF CacheOK
<1>9. ScreenOK
  <2>1. cache[1].data # NoData
    BY <1>1, <1>3, <1>6, <1>7
  <2>2. page = 1 /\ last = 1 /\ selected = 0 /\ detail = "none" /\ filed = FirstOpen
    BY DEF Init, NoReport
  <2> QED BY <1>1, <2>1, <2>2 DEF ScreenOK, NoReport
<1>10. ReportsOK
  BY <1>1 DEF Init, ReportsOK, Mutations, Idle
<1> QED BY <1>8, <1>9, <1>10 DEF ReportsInv

\* There are no more pages than rows.
LEMMA PagesAreFewer ==
  ASSUME NEW t \in Int, NEW n \in Nat \ {0}
  PROVE  (t + n - 1) \div n <= t \/ (t + n - 1) \div n <= 1
<1> DEFINE k == (t + n - 1) \div n
<1>1. k \in Int /\ k * n <= t + n - 1
  OBVIOUS
<1> HIDE DEF k
<1>2. SUFFICES ASSUME k > t, k > 1 PROVE FALSE
  BY <1>1 DEF k
<1>3. (k - 1) * n <= t - 1
  BY <1>1
<1>4. (k - 1) * n >= k - 1
  <2>1. k - 1 \in Nat /\ n >= 1
    BY <1>1, <1>2
  <2>2. \A i \in Nat, j \in Nat : j >= 1 => i * j >= i
    OBVIOUS
  <2> QED BY <2>1, <2>2
<1> QED BY <1>1, <1>2, <1>3, <1>4

\* Every step keeps the invariant.
LEMMA ReportsInvNext == ReportsInv /\ [Next]_vars => ReportsInv'
<1> SUFFICES ASSUME ReportsInv, [Next]_vars PROVE ReportsInv'
  OBVIOUS
<1>1. CASE UNCHANGED vars
  BY <1>1 DEF vars, server, ui, ReportsInv, ReportsOK, ScreenOK
<1>2. CASE Next
  <2>1. CASE CreateGameBugReport \/ \E r \in Reports : CompleteElsewhere(r)
    BY <2>1, ServerStep
  <2>2. ASSUME NEW p \in Pages, ListReports(p) \/ CountReports(p) \/ PageFails(p)
        PROVE  ReportsInv'
    BY <2>2, ListStep, CountStep, FailStep
  <2>3. CASE PaginationPrevious \/ PaginationNext
    <3>1. page \in Pages
      BY DEF ReportsInv, ScreenOK
    <3>2. CASE PaginationPrevious
      <4>1. page - 1 \in Pages
        BY <3>1, <3>2, ParametersAssumption DEF PaginationPrevious, Pages
      <4> QED BY <3>2, <4>1, TurnStep DEF PaginationPrevious
    <3>3. CASE PaginationNext
      <4>1. page + 1 \in Pages
        <5> DEFINE t == reports.total
                   k == totalPages(reports)
        <5>1. t \in Int /\ t <= MaxReports /\ page \in Nat
          BY <3>1, ReportsAreListed, ParametersAssumption
             DEF ReportsInv, ReportsOK, Pages
        <5>2. k = (t + PageSize - 1) \div PageSize /\ page < k
          BY <3>3 DEF PaginationNext, totalPages
        <5> HIDE DEF t, k
        <5>3. k <= t \/ k <= 1
          BY <5>1, <5>2, PagesAreFewer, ParametersAssumption
        <5>4. k \in Int
          BY <5>1, <5>2, ParametersAssumption
        <5> QED BY <3>1, <5>1, <5>2, <5>3, <5>4, ParametersAssumption DEF Pages
      <4> QED BY <3>3, <4>1, TurnStep DEF PaginationNext
    <3> QED BY <2>3, <3>2, <3>3
  <2>4. CASE WindowFocus \/ TryAgain
    BY <2>4, FocusStep, TryAgainStep
  <2>5. CASE onSuccess
    BY <2>5, SuccessStep
  <2>6. CASE \/ \E r \in Reports : onSelect(r)
             \/ onOpenChange \/ DetailSettles \/ mutate
             \/ handleAdminBugReportComplete \/ CompletionLost \/ onError
    BY <2>6, SheetStep
  <2> QED BY <1>2, <2>1, <2>2, <2>3, <2>4, <2>5, <2>6 DEF Next
<1> QED BY <1>1, <1>2

\* The inductive invariant holds of every behaviour, whatever is fair.
THEOREM ReportsCorrect == Spec => []ReportsInv
<1>1. Init => ReportsInv
  BY ReportsInvInit
<1>2. ReportsInv /\ [Next]_vars => ReportsInv'
  BY ReportsInvNext
<1> QED BY <1>1, <1>2, PTL DEF Spec

\* The state has its shape: the page on the screen exists and its list comes
\* from data, no report that was told of is open, and a page that the server
\* sends holds no more than PageSize rows.
THEOREM ReportsTypeCorrect == Spec => []TypeOK
<1>1. ReportsInv => TypeOK
  <2> SUFFICES ASSUME ReportsInv PROVE TypeOK
    OBVIOUS
  <2>1. filed \in Nat /\ filed <= MaxReports /\ selected \in Reports \cup {NoReport}
    BY ParametersAssumption DEF ReportsInv, ReportsOK, ScreenOK, Reports, NoReport
  <2>2. ASSUME NEW p \in Pages
        PROVE  /\ cache[p].status \in {"pending", "success", "error"}
               /\ cache[p].data.reports \subseteq 1 .. filed
               /\ Cardinality(cache[p].data.reports) <= PageSize
               /\ cache[p].invalid \in BOOLEAN
    BY DEF ReportsInv, CacheOK, Good, QueryOK, ListOK, Queries
  <2>3. (detail = "none") = (selected = NoReport)
    BY DEF ReportsInv, ScreenOK
  <2> QED BY <2>1, <2>2, <2>3 DEF ReportsInv, ReportsOK, ScreenOK, TypeOK
<1> QED BY <1>1, ReportsCorrect, PTL

\* A report that the administrator has completed does not come back on a page
\* that counts as up to date, in whichever order requests and answers arrive,
\* unless a load that the invalidation leaves alone was under way.
THEOREM CompletedReportsStayGone == Spec => []CompletedStaysGone
<1>1. ReportsInv => CompletedStaysGone
  BY DEF ReportsInv, CacheOK, Good, Fresh, CompletedStaysGone
<1> QED BY <1>1, ReportsCorrect, PTL

-----------------------------------------------------------------------------
(***************************************************************************)
(* An administrator who works alone.                                       *)
(***************************************************************************)
Alone == others = 0 /\ faults = 0 /\ overlap = {}

\* The report that is completed already, but still listed on pages that count
\* as up to date.
Owed == IF mutation.at = "completed" THEN 1 ELSE 0

\* A query that has not failed, when n rows were open and are still listed and
\* m are open.
DataKept(q, p, n) ==
  /\ q.status # "error"
  /\ q.data # NoData /\ ~q.invalid => Counted(q.data.reports, p, n)
  /\ Filled(q.data.reports, p, q.data.total)

FetchKept(q, p, n, m) ==
  q.fetch.at = "listed" =>
    Counted(q.fetch.reports, p, n) /\ Filled(q.fetch.reports, p, m)

\* On page p only that page is loaded, which it is when it has to be, and all
\* those between it and the first one list something.
Kept(c, p, n, m) ==
  /\ \A k \in Pages : /\ DataKept(c[k], k, n) /\ FetchKept(c[k], k, n, m)
                      /\ k # p => c[k].fetch = NoFetch
                      /\ 1 < k /\ k < p => c[k].data.reports # {}
  /\ c[p].data = NoData \/ c[p].invalid => isFetching(c[p])

\* A completion waits for the page on the screen.  If that listed more than
\* one report, it will still list one.
RefreshKept ==
  LET q == cache[page] IN
  mutation.at = "refreshing" =>
    /\ mutation.page = page /\ isFetching(q) /\ q.data # NoData
    /\ mutation.single <=> Cardinality(q.data.reports) = 1
    /\ q.fetch.at = "asked" =>
         Counted(q.data.reports, page, Cardinality(open) + 1)
    /\ q.fetch.at = "listed" /\ q.data.reports # {} /\ ~mutation.single =>
         q.fetch.reports # {}

AloneKept ==
  /\ Kept(cache, page, Cardinality(open) + Owed, Cardinality(open))
  /\ RefreshKept

AloneInv == Alone => AloneKept

TroubleOK == others \in Nat /\ faults \in Nat

\* Who is alone after a step was alone before it.
LEMMA AloneBefore ==
  ASSUME TroubleOK, [Next]_vars
  PROVE  TroubleOK' /\ (Alone' => Alone)
<1>1. /\ others' \in {others, others + 1} /\ faults' \in {faults, faults + 1}
      /\ overlap \subseteq overlap'
  <2>1. CASE UNCHANGED vars
    BY <2>1 DEF vars, bounds
  <2>2. CASE Next
    BY <2>2 DEF Next, bounds, CreateGameBugReport, CompleteElsewhere, onSelect,
       ListReports, CountReports, PageFails, PaginationPrevious, PaginationNext,
       TurnTo, WindowFocus, TryAgain, onOpenChange, DetailSettles, mutate,
       handleAdminBugReportComplete, CompletionLost, onError, onSuccess
  <2> QED BY <2>1, <2>2
<1> QED BY <1>1 DEF TroubleOK, Alone

\* A list is short enough for more rows, and long enough for fewer.
LEMMA CountedMore ==
  ASSUME NEW f \in Nat, NEW list \in SUBSET (1 .. f), NEW p \in Pages,
         NEW n \in Int, NEW m \in Int, n <= m
  PROVE  /\ Cardinality(list) \in Nat /\ Before(p) \in Nat
         /\ Counted(list, p, n) => Counted(list, p, m)
         /\ Filled(list, p, m) => Filled(list, p, n)
<1>1. Before(p) \in Nat
  BY ParametersAssumption DEF Before, Pages
<1>2. Cardinality(list) \in Nat
  <2>1. IsFiniteSet(1 .. f)
    BY FS_Interval
  <2> QED BY <2>1, FS_Subset, FS_CardinalityType
<1> QED BY <1>1, <1>2 DEF Counted, Filled

\* Filing a report and completing one keep what holds of the queries.
LEMMA KeptMore ==
  ASSUME NEW c, NEW p, NEW f \in Nat, NEW known, NEW met, CacheOK(c, f, known, met),
         NEW n \in Int, NEW m \in Int, NEW n2 \in Int, NEW m2 \in Int,
         Kept(c, p, n, m), n <= n2,
         m2 <= m \/ \A k \in Pages : c[k].fetch.at # "listed"
  PROVE  Kept(c, p, n2, m2)
<1>1. ASSUME NEW k \in Pages
      PROVE  DataKept(c[k], k, n2) /\ FetchKept(c[k], k, n2, m2)
  <2>1. Good(c[k], f, known, met) /\ DataKept(c[k], k, n) /\ FetchKept(c[k], k, n, m)
    BY DEF CacheOK, Kept
  <2>2. DataKept(c[k], k, n2)
    <3>1. c[k].data.reports \in SUBSET (1 .. f)
      BY <2>1 DEF Good, QueryOK, ListOK
    <3> QED BY <2>1, <3>1, CountedMore DEF DataKept
  <2>3. FetchKept(c[k], k, n2, m2)
    <3> SUFFICES ASSUME c[k].fetch.at = "listed"
                 PROVE  /\ Counted(c[k].fetch.reports, k, n2)
                        /\ Filled(c[k].fetch.reports, k, m2)
      BY DEF FetchKept
    <3>1. c[k].fetch.reports \in SUBSET (1 .. f) /\ m2 <= m
      BY <2>1 DEF Good, QueryOK, ListOK
    <3> QED BY <2>1, <3>1, CountedMore DEF FetchKept
  <2> QED BY <2>2, <2>3
<1> QED BY <1>1 DEF Kept

\* A page is turned to, when none is being loaded.
LEMMA KeptTurned ==
  ASSUME NEW c, NEW n, NEW m, NEW p \in Pages, NEW q, NEW d,
         NEW stale \in BOOLEAN, q = Shown(c[p], stale),
         \A k \in Pages : /\ c[k] \in Queries /\ c[k].fetch = NoFetch
                          /\ DataKept(c[k], k, n)
                          /\ 1 < k /\ k < p => c[k].data.reports # {},
         \A k \in Pages : d[k] = IF k = p THEN q ELSE c[k]
  PROVE  Kept(d, p, n, m)
<1>1. ~isFetching(c[p]) /\ c[p] \in Queries /\ DataKept(c[p], p, n)
  BY DEF isFetching
<1>2. /\ q.data = c[p].data /\ q.invalid = c[p].invalid
      /\ q.status # "error" /\ q.fetch.at # "listed"
      /\ q.data = NoData \/ q.invalid => isFetching(q)
  <2>1. CASE q = c[p] /\ ~(c[p].data = NoData \/ c[p].invalid)
    BY <1>1, <2>1 DEF isFetching, NoFetch, DataKept
  <2>2. CASE q = Fetching(c[p])
    BY <1>1, <2>2 DEF Fetching, Queries, isFetching, NoFetch, DataKept
  <2> QED BY <1>1, <2>1, <2>2 DEF Shown
<1>3. DataKept(q, p, n) /\ FetchKept(q, p, n, m)
  BY <1>1, <1>2 DEF DataKept, FetchKept
<1>4. \A k \in Pages : FetchKept(c[k], k, n, m)
  BY DEF FetchKept, NoFetch
<1> QED BY <1>2, <1>3, <1>4 DEF Kept

\* What is counted is a number.
LEMMA OpenIsCounted ==
  ASSUME ReportsOK
  PROVE  /\ IsFiniteSet(open) /\ Cardinality(open) \in Nat
         /\ Owed \in {0, 1} /\ filed \in Nat
<1>1. filed \in Nat /\ open \in SUBSET (1 .. filed)
  BY DEF ReportsOK
<1>2. IsFiniteSet(1 .. filed)
  BY <1>1, FS_Interval
<1> QED BY <1>1, <1>2, FS_Subset, FS_CardinalityType DEF Owed

\* The other steps leave the lists and the page on the screen alone.
QuietSteps ==
  \/ CreateGameBugReport
  \/ \E r \in Reports : onSelect(r)
  \/ onOpenChange \/ DetailSettles \/ mutate
  \/ handleAdminBugReportComplete \/ onError

\* So they keep what somebody who is alone relies on; a report that is filed
\* adds to what may be listed.
LEMMA QuietKept ==
  ASSUME ReportsInv, ReportsInv', AloneKept, Alone', QuietSteps
  PROVE  AloneKept'
<1>1. UNCHANGED <<cache, page>> /\ CacheOK(cache, filed, told, overlap)
  BY DEF QuietSteps, CreateGameBugReport, onSelect, onOpenChange, DetailSettles,
     mutate, handleAdminBugReportComplete, onError, ui, ReportsInv
<1>2. /\ Cardinality(open) \in Nat /\ Owed \in {0, 1} /\ filed \in Nat
      /\ Cardinality(open') \in Nat /\ Owed' \in {0, 1} /\ IsFiniteSet(open)
  <2>1. filed' \in Nat /\ open' \in SUBSET (1 .. filed')
    BY DEF ReportsInv, ReportsOK
  <2>2. IsFiniteSet(1 .. filed')
    BY <2>1, FS_Interval
  <2>3. Cardinality(open') \in Nat
    BY <2>1, <2>2, FS_Subset, FS_CardinalityType
  <2>4. Owed' \in {0, 1}
    BY DEF Owed
  <2> QED BY <2>3, <2>4, OpenIsCounted DEF ReportsInv
<1> DEFINE n == Cardinality(open)
           m == Cardinality(open')
<1>3. /\ n + Owed <= m + Owed'
      /\ m <= n \/ \A k \in Pages : cache[k].fetch.at # "listed"
      /\ mutation'.at = "refreshing" =>
           mutation' = mutation /\ n <= m
  <2>1. CASE CreateGameBugReport
    <3>1. filed + 1 \notin open /\ open' = open \cup {filed + 1} /\ UNCHANGED mutation
      BY <1>2, <2>1 DEF CreateGameBugReport, ReportsInv, ReportsOK
    <3>2. m = n + 1
      BY <1>2, <3>1, FS_AddElement
    <3>3. \A k \in Pages : cache[k].fetch.at # "listed"
      BY <2>1 DEF CreateGameBugReport, Alone
    <3> HIDE DEF n, m
    <3> QED BY <1>2, <3>1, <3>2, <3>3 DEF Owed, n
  <2>2. CASE (\E r \in Reports : onSelect(r)) \/ onOpenChange \/ DetailSettles
    BY <1>2, <2>2 DEF onSelect, onOpenChange, DetailSettles, server, Owed
  <2>3. CASE mutate \/ onError
    BY <1>2, <2>3 DEF mutate, onError, server, Owed, Idle
  <2>4. CASE handleAdminBugReportComplete
    <3>1. /\ mutation.at = "sent" /\ open' = open \ {mutation.report}
          /\ mutation' = [mutation EXCEPT !.at =
               IF mutation.report \in open THEN "completed" ELSE "refused"]
          /\ mutation \in Mutations
      BY <2>4 DEF handleAdminBugReportComplete, ReportsInv, ReportsOK
    <3>2. mutation'.at = IF mutation.report \in open THEN "completed" ELSE "refused"
      BY <3>1 DEF Mutations, Idle
    <3>3. m = IF mutation.report \in open THEN n - 1 ELSE n
      BY <1>2, <3>1, FS_RemoveElement
    <3> HIDE DEF n, m
    <3> QED BY <1>2, <3>1, <3>2, <3>3 DEF Owed, n, m
  <2> QED BY <2>1, <2>2, <2>3, <2>4 DEF QuietSteps
<1>4. Kept(cache, page, n + Owed, n)
  BY DEF AloneKept
<1> HIDE DEF n, m
<1>5. n + Owed \in Int /\ m + Owed' \in Int /\ n \in Int /\ m \in Int
  BY <1>2 DEF n, m
<1>6. Kept(cache, page, m + Owed', m)
  BY <1>1, <1>2, <1>3, <1>4, <1>5, KeptMore
<1>7. RefreshKept'
  <2> SUFFICES ASSUME mutation'.at = "refreshing" PROVE RefreshKept'
    BY DEF RefreshKept
  <2>1. mutation' = mutation /\ n <= m /\ RefreshKept
    BY <1>3 DEF AloneKept
  <2>2. page \in Pages /\ cache[page].data.reports \in SUBSET (1 .. filed)
    BY <1>1 DEF ReportsInv, ScreenOK, CacheOK, Good, QueryOK, ListOK
  <2>3. Counted(cache[page].data.reports, page, n + 1) =>
          Counted(cache[page].data.reports, page, m + 1)
    <3>1. n + 1 \in Int /\ m + 1 \in Int /\ n + 1 <= m + 1
      BY <1>5, <2>1
    <3> QED BY ONLY <1>2, <2>2, <3>1, CountedMore
  <2> QED BY <1>1, <2>1, <2>3 DEF RefreshKept, n, m
<1> QED BY <1>1, <1>6, <1>7 DEF AloneKept, m

\* Who waits for the page on the screen is the only one to be served.
LEMMA OnScreen ==
  ASSUME ReportsInv, AloneKept, NEW p \in Pages, cache[p].fetch.at \in {"asked", "listed"}
  PROVE  p = page
BY DEF AloneKept, Kept, NoFetch

\* The list has one row less than before the completion, or more.
LEMMA ListKept ==
  ASSUME ReportsInv, AloneKept, Alone', NEW p \in Pages, ListReports(p)
  PROVE  AloneKept'
<1> DEFINE list == ListGameBugReportsPage(open, p)
           n == Cardinality(open)
           r == cache[p].data.reports
<1>1. /\ p = page /\ cache[p].fetch.at = "asked"
      /\ cache' = [cache EXCEPT ![p].fetch = [at |-> "listed", reports |-> list]]
      /\ UNCHANGED <<open, page, mutation>> /\ Owed = 0 /\ Owed' = 0
  BY OnScreen DEF ListReports, server, ui, Alone, Owed
<1>2. n \in Nat /\ filed \in Nat /\ open \in SUBSET (1 .. filed)
  BY OpenIsCounted DEF ReportsInv, ReportsOK
<1>3. Counted(list, p, n) /\ Filled(list, p, n)
  BY <1>2, PageHolds
<1>4. cache[p] \in Queries /\ cache = [k \in Pages |-> cache[k]]
      /\ r \in SUBSET (1 .. filed)
  BY DEF ReportsInv, CacheOK, Good, QueryOK, ListOK
<1> HIDE DEF list
<1>5. /\ cache'[p].data = cache[p].data /\ cache'[p].invalid = cache[p].invalid
      /\ cache'[p].status = cache[p].status
      /\ cache'[p].fetch.at = "listed" /\ cache'[p].fetch.reports = list
      /\ isFetching(cache'[p])
      /\ \A k \in Pages \ {p} : cache'[k] = cache[k]
  BY <1>1, <1>4 DEF Queries, isFetching, NoFetch
<1>6. Kept(cache, p, n, n) /\ RefreshKept
  BY <1>1, <1>2 DEF AloneKept
<1> HIDE DEF n
<1>7. Kept(cache', p, n, n)
  BY <1>3, <1>5, <1>6 DEF Kept, DataKept, FetchKept
<1>8. RefreshKept'
  <2> SUFFICES ASSUME mutation.at = "refreshing" PROVE RefreshKept'
    BY <1>1 DEF RefreshKept
  <2>1. /\ mutation.page = page /\ cache[p].data # NoData
        /\ mutation.single <=> Cardinality(r) = 1
        /\ Counted(r, p, n + 1)
    BY <1>1, <1>6 DEF RefreshKept, n
  <2>2. r # {} /\ ~mutation.single => list # {}
    <3>1. Cardinality(r) \in Nat /\ Before(p) \in Nat
      BY <1>2, <1>4, CountedMore
    <3>2. r # {} => Cardinality(r) # 0
      <4>1. IsFiniteSet(1 .. filed)
        BY <1>2, FS_Interval
      <4>2. IsFiniteSet(r)
        BY <1>4, <4>1, FS_Subset
      <4> QED BY <4>2, FS_EmptySet
    <3> HIDE DEF r
    <3> QED BY <1>2, <1>3, <2>1, <3>1, <3>2 DEF Counted, Filled, n
  <2> QED BY <1>1, <1>5, <2>1, <2>2 DEF RefreshKept
<1> QED BY <1>1, <1>2, <1>7, <1>8 DEF AloneKept, n

\* The answer is shown; a completion that waited for it turns the page back to
\* one that lists something.
LEMMA CountKept ==
  ASSUME ReportsInv, AloneKept, Alone', NEW p \in Pages, CountReports(p)
  PROVE  /\ AloneKept'
         /\ (mutation.at = "refreshing" /\ cache[page].data.reports # {}) =>
              (page' = 1 \/ cache'[page'].data.reports # {})
<1> DEFINE list == cache[p].fetch.reports
           n == Cardinality(open)
           q == [data |-> [total |-> n, reports |-> list],
                 status |-> "success", invalid |-> FALSE, fetch |-> NoFetch]
           d == [cache EXCEPT ![p] = q]
<1>1. p = page /\ cache[p].fetch.at = "listed" /\ UNCHANGED open
  BY OnScreen DEF CountReports, server
<1>2. CacheOK(cache, filed, told, overlap) /\ cache[p] \in Queries /\ page \in Pages
  BY DEF ReportsInv, CacheOK, Good, ScreenOK
<1>3. n \in Nat /\ Owed \in {0, 1}
  BY OpenIsCounted DEF ReportsInv
<1>4. Settled(p, d)
  BY <1>2 DEF CountReports, CacheOK
<1>5. /\ q.data.total = n /\ q.data.reports = list /\ q.status = "success"
      /\ q.invalid = FALSE /\ q.fetch = NoFetch /\ q.data # NoData
  BY <1>3 DEF NoData
<1> HIDE DEF q
<1>6. \A k \in Pages : d[k] = IF k = p THEN q ELSE cache[k]
  BY <1>2 DEF CacheOK
<1> HIDE DEF d
<1>7. Kept(cache, p, n + Owed, n) /\ RefreshKept
  BY <1>1 DEF AloneKept
<1> HIDE DEF n
<1>8. \A k \in Pages : /\ DataKept(d[k], k, n + Owed) /\ d[k].fetch = NoFetch
                       /\ 1 < k /\ k < p => d[k].data.reports # {}
  <2> TAKE k \in Pages
  <2>1. p \in Nat /\ k \in Nat
    BY DEF Pages
  <2>2. CASE k = p
    BY <1>1, <1>5, <1>6, <1>7, <2>1, <2>2 DEF Kept, DataKept, FetchKept
  <2>3. CASE k # p
    BY <1>1, <1>6, <1>7, <2>3 DEF Kept
  <2> QED BY <2>2, <2>3
<1>9. Kept(d, p, n + Owed, n)
  BY <1>5, <1>6, <1>8 DEF Kept, FetchKept, NoFetch
<1>10. CASE mutation.at # "refreshing"
  <2>1. cache' = d /\ UNCHANGED <<page, mutation>>
    BY <1>4, <1>10 DEF Settled
  <2>2. Owed' = Owed /\ RefreshKept'
    BY <1>10, <2>1 DEF Owed, RefreshKept
  <2> QED BY <1>1, <1>9, <1>10, <2>1, <2>2 DEF AloneKept, n
<1>11. CASE mutation.at = "refreshing"
  <2>1. /\ onCompleted(d) /\ (mutation.single <=> Cardinality(cache[p].data.reports) = 1)
        /\ ~mutation.single /\ cache[p].data.reports # {} => list # {}
    BY <1>1, <1>4, <1>7, <1>11 DEF Settled, RefreshKept
  <2>2. mutation' = Idle /\ Owed = 0 /\ Owed' = 0 /\ RefreshKept'
    BY <1>11, <2>1 DEF onCompleted, Owed, RefreshKept, Idle
  <2>3. CASE mutation.single /\ page > 1
    <3>1. page - 1 \in Pages /\ page' = page - 1 /\ page \in Nat
      BY <1>2, <2>1, <2>3, ParametersAssumption DEF Pages, onCompleted
    <3>2. PICK stale \in BOOLEAN :
            cache' = [d EXCEPT ![page - 1] = Shown(@, stale)]
      BY <2>1, <2>3 DEF onCompleted
    <3> DEFINE b == page - 1
               s == Shown(d[b], stale)
    <3>3. \A k \in Pages : cache'[k] = IF k = b THEN s ELSE d[k]
      <4>1. d = [k \in Pages |-> d[k]]
        BY <1>2 DEF d, CacheOK
      <4> QED BY <3>1, <3>2, <4>1
    <3>4. \A k \in Pages : 1 < k /\ k < b => d[k].data.reports # {}
      BY <1>1, <1>8, <3>1 DEF Pages
    <3>5. \A k \in Pages : d[k] \in Queries
      <4>1. list \in SUBSET Reports
        BY <1>1, <1>2 DEF Queries, Fetches, NoFetch
      <4>2. q \in Queries
        BY <1>3, <4>1 DEF q, Queries, PageData, Fetches
      <4>3. \A k \in Pages : cache[k] \in Queries
        BY <1>2 DEF CacheOK, Good
      <4> QED BY <1>6, <4>2, <4>3
    <3>6. b \in Pages /\ b > 1 => d[b].data.reports # {}
      BY <1>1, <1>8, <3>1
    <3> HIDE DEF b
    <3>7. s = Shown(d[b], stale)
      OBVIOUS
    <3> HIDE DEF s
    <3>8. Kept(cache', b, n, n)
      <4>1. \A k \in Pages : /\ d[k] \in Queries /\ d[k].fetch = NoFetch
                             /\ DataKept(d[k], k, n)
                             /\ 1 < k /\ k < b => d[k].data.reports # {}
        BY <1>3, <1>8, <2>2, <3>4, <3>5
      <4>2. b \in Pages
        BY <3>1 DEF b
      <4> QED BY ONLY <3>3, <3>7, <4>1, <4>2, stale \in BOOLEAN, KeptTurned
    <3>9. s.data = d[b].data
      BY <3>1, <3>5, <3>7 DEF Shown, Fetching, Queries, b
    <3>10. page' = b /\ b \in Pages /\ (b = 1 \/ b > 1)
      BY <3>1 DEF b, Pages
    <3>11. n + Owed' = n /\ n = Cardinality(open')
      BY <1>1, <1>3, <2>2 DEF n
    <3>12. AloneKept'
      BY ONLY <2>2, <3>8, <3>10, <3>11 DEF AloneKept
    <3>13. cache'[b].data = d[b].data
      BY <3>3, <3>9, <3>10
    <3> QED BY <3>6, <3>10, <3>12, <3>13
  <2>4. CASE ~(mutation.single /\ page > 1)
    <3>1. page' = page /\ cache' = d
      BY <2>1, <2>4 DEF onCompleted
    <3>2. cache[p].data.reports # {} => (page = 1 \/ d[p].data.reports # {})
      BY <1>1, <1>2, <1>5, <1>6, <2>1, <2>4 DEF Pages
    <3> QED BY <1>1, <1>3, <1>9, <2>2, <3>1, <3>2 DEF AloneKept, n
  <2> QED BY <2>3, <2>4
<1> QED BY <1>10, <1>11

\* Turning a page waits until the present one is loaded, and the next page is
\* there only if this one lists something.
LEMMA TurnKept ==
  ASSUME ReportsInv, ReportsInv', AloneKept, Alone', PaginationPrevious \/ PaginationNext
  PROVE  AloneKept'
<1> DEFINE n == Cardinality(open)
           p == page'
<1>1. /\ ~isFetching(cache[page]) /\ TurnTo(p) /\ page \in Nat /\ page \in Pages
      /\ (p = page - 1 /\ page > 1) \/ (p = page + 1 /\ page < totalPages(reports))
  BY DEF PaginationPrevious, PaginationNext, TurnTo, ReportsInv, ScreenOK, Pages
<1>2. CacheOK(cache, filed, told, overlap)
  BY DEF ReportsInv
<1>3. n \in Nat /\ Owed \in {0, 1}
  BY OpenIsCounted DEF ReportsInv
<1>4. Kept(cache, page, n + Owed, n) /\ RefreshKept
  BY DEF AloneKept
<1>5. mutation.at # "refreshing"
  BY <1>1, <1>4 DEF RefreshKept
<1>6. UNCHANGED <<open, mutation>> /\ Owed' = Owed /\ RefreshKept'
  BY <1>1, <1>5 DEF TurnTo, server, Owed, RefreshKept
<1>7. p \in Pages
  <2>1. CASE p = page - 1
    BY <1>1, <2>1, ParametersAssumption DEF Pages
  <2>2. CASE p = page + 1
    <3>1. page' \in Pages
      BY DEF ReportsInv, ScreenOK
    <3> QED BY <3>1
  <2> QED BY <1>1, <2>1, <2>2
<1>8. \A k \in Pages : 1 < k /\ k < p => cache[k].data.reports # {}
  <2>1. cache[page].data # NoData /\ reports = cache[page].data
    BY <1>1, <1>4 DEF Kept, reports, ReportsOf
  <2>2. p = page + 1 => cache[page].data.reports # {}
    <3> SUFFICES ASSUME p = page + 1 PROVE cache[page].data.reports # {}
      OBVIOUS
    <3> DEFINE t == cache[page].data.total
    <3>1. page < (t + PageSize - 1) \div PageSize
      BY <1>1, <2>1 DEF totalPages
    <3>2. t \in Int
      BY <1>1, <1>2 DEF CacheOK, Good, Queries, PageData
    <3> HIDE DEF t
    <3>3. t > Before(page)
      <4>1. \A i, k, m \in Int : m > 0 /\ k < (i + m - 1) \div m => i > k * m
        OBVIOUS
      <4>2. t > page * PageSize
        BY <1>1, <3>1, <3>2, <4>1, ParametersAssumption
      <4>3. Before(page) <= page * PageSize /\ Before(page) \in Int
            /\ page * PageSize \in Int
        BY <1>1, ParametersAssumption DEF Before
      <4> QED BY <3>2, <4>2, <4>3
    <3> QED BY <1>1, <1>4, <3>3 DEF Kept, DataKept, Filled, t
  <2>3. \A k \in Pages : 1 < k /\ k < p => (k < page \/ (k = page /\ p = page + 1))
    BY <1>1, <1>7 DEF Pages
  <2> QED BY <1>4, <2>2, <2>3 DEF Kept
<1>9. PICK stale \in BOOLEAN : cache' = [cache EXCEPT ![p] = Shown(@, stale)]
  BY <1>1 DEF TurnTo
<1> DEFINE q == Shown(cache[p], stale)
<1>10. \A k \in Pages : cache'[k] = IF k = p THEN q ELSE cache[k]
  BY <1>2, <1>7, <1>9 DEF CacheOK
<1>11. q = Shown(cache[p], stale)
  OBVIOUS
<1>12. \A k \in Pages : /\ cache[k] \in Queries /\ cache[k].fetch = NoFetch
                        /\ DataKept(cache[k], k, n + Owed)
  BY <1>1, <1>2, <1>4 DEF CacheOK, Good, Kept, isFetching
<1> HIDE DEF q, p, n
<1>13. Kept(cache', p, n + Owed, n)
  BY ONLY <1>7, <1>8, <1>10, <1>11, <1>12, stale \in BOOLEAN, KeptTurned
<1> QED BY <1>6, <1>13 DEF AloneKept, p, n

\* A page that is loaded again keeps its data meanwhile.
LEMMA FocusKept ==
  ASSUME ReportsInv, AloneKept, Alone', WindowFocus
  PROVE  AloneKept'
<1> DEFINE n == Cardinality(open)
           q == Fetching(cache[page])
<1>1. /\ ~isFetching(cache[page]) /\ page \in Pages
      /\ CacheOK(cache, filed, told, overlap)
      /\ UNCHANGED <<open, mutation, page>>
  BY DEF WindowFocus, ReportsInv, ScreenOK, server, ui
<1>2. Kept(cache, page, n + Owed, n) /\ RefreshKept
  BY DEF AloneKept
<1>3. mutation.at # "refreshing"
  BY <1>1, <1>2 DEF RefreshKept
<1>4. Owed' = Owed /\ RefreshKept'
  BY <1>1, <1>3 DEF Owed, RefreshKept
<1>5. \A k \in Pages : cache'[k] = IF k = page THEN q ELSE cache[k]
  BY <1>1 DEF WindowFocus, CacheOK
<1>6. cache[page] \in Queries /\ cache[page].status # "error"
  BY <1>1, <1>2 DEF CacheOK, Good, Kept, DataKept
<1>7. /\ q.data = cache[page].data /\ q.invalid = cache[page].invalid
      /\ q.status # "error" /\ q.fetch.at = "asked"
  BY <1>6 DEF Fetching, Queries
<1> HIDE DEF q
<1>8. Kept(cache', page, n + Owed, n)
  BY <1>1, <1>2, <1>5, <1>7 DEF Kept, DataKept, FetchKept, isFetching, NoFetch
<1> QED BY <1>1, <1>4, <1>8 DEF AloneKept

\* The completion is answered when nothing is loaded.
LEMMA SuccessKept ==
  ASSUME ReportsInv, AloneKept, Alone', onSuccess
  PROVE  AloneKept'
<1> DEFINE n == Cardinality(open)
           c == invalidateQueries(cache, page)
           marked(k) == [cache[k] EXCEPT !.invalid = cache[k].data # NoData]
<1>1. /\ page \in Pages /\ CacheOK(cache, filed, told, overlap)
      /\ UNCHANGED <<open, page>> /\ cache' = c
      /\ UnderWay(cache, page) = {} /\ mutation.at = "completed"
      /\ mutation' = [at |-> "refreshing", page |-> page,
                      single |-> Cardinality(reports.reports) = 1]
  BY DEF onSuccess, ReportsInv, ScreenOK, server, ui, Alone
<1>2. Kept(cache, page, n + 1, n) /\ n \in Nat
  BY <1>1, OpenIsCounted DEF AloneKept, Owed, ReportsInv
<1>3. \A k \in Pages : cache[k].fetch = NoFetch
  BY <1>1 DEF UnderWay, isFetching
<1>4. /\ cache[page].data # NoData /\ ~cache[page].invalid
      /\ reports = cache[page].data
  <2>1. ~isFetching(cache[page])
    BY <1>1, <1>3 DEF isFetching
  <2>2. cache[page].data # NoData /\ ~cache[page].invalid
    BY <1>2, <2>1 DEF Kept
  <2> QED BY <2>2 DEF reports, ReportsOf
<1>5. ASSUME NEW k \in Pages
      PROVE  /\ c[k].data = cache[k].data /\ c[k].status # "error"
             /\ c[k].data # NoData => c[k].invalid
             /\ k # page => c[k].fetch = NoFetch
             /\ k = page => c[k].fetch = [at |-> "asked"]
  <2> DEFINE flag == cache[k].data # NoData
             m == [cache[k] EXCEPT !.invalid = flag]
  <2>1. cache[k] \in Queries /\ cache[k].status # "error" /\ flag \in BOOLEAN
    BY <1>1, <1>2 DEF CacheOK, Good, Kept, DataKept
  <2>2. c[k] = IF k = page THEN refetch(m) ELSE m
    BY DEF invalidateQueries
  <2>3. flag <=> cache[k].data # NoData
    OBVIOUS
  <2> HIDE DEF flag
  <2>4. /\ m \in Queries /\ m.data = cache[k].data /\ m.invalid = flag
        /\ m.status = cache[k].status /\ m.fetch = NoFetch
    BY <1>3, <2>1 DEF Queries
  <2> HIDE DEF m, c
  <2>5. CASE k # page
    BY <2>1, <2>2, <2>3, <2>4, <2>5
  <2>6. CASE k = page
    <3>1. c[k] = Fetching(m)
      BY <2>2, <2>4, <2>6 DEF refetch, isFetching
    <3> QED BY <2>1, <2>3, <2>4, <2>6, <3>1 DEF Fetching, Queries
  <2> QED BY <2>5, <2>6
<1> HIDE DEF c
<1>6. /\ isFetching(c[page]) /\ c[page].fetch.at = "asked"
      /\ NoFetch.at # "listed"
  BY <1>1, <1>5 DEF isFetching, NoFetch
<1>7. Kept(c, page, n, n)
  BY <1>2, <1>5, <1>6 DEF Kept, DataKept, FetchKept
<1>8. mutation'.at = "refreshing" /\ mutation'.page = page
      /\ (mutation'.single <=> Cardinality(cache[page].data.reports) = 1)
  BY <1>1, <1>4
<1>9. Counted(cache[page].data.reports, page, n + 1)
  BY <1>1, <1>2, <1>4 DEF Kept, DataKept
<1>10. RefreshKept'
  BY <1>1, <1>4, <1>5, <1>6, <1>8, <1>9 DEF RefreshKept
<1>11. Owed' = 0 /\ n + Owed' = n
  BY <1>2, <1>8 DEF Owed
<1> QED BY <1>1, <1>7, <1>10, <1>11 DEF AloneKept

\* At first nothing is loaded, and the first page is the only one with data.
LEMMA AloneInvInit == ASSUME Init PROVE AloneInv /\ TroubleOK
<1>1. ReportsInv
  BY ReportsInvInit
<1>2. open \in SUBSET (1 .. filed) /\ filed \in Nat /\ IsFiniteSet(open)
      /\ Cardinality(open) \in Nat
  BY <1>1, OpenIsCounted DEF ReportsInv, ReportsOK
<1> DEFINE n == Cardinality(open)
           list == ListGameBugReportsPage(open, 1)
<1>3. n = FirstOpen /\ FirstOpen \in Nat
  <2>1. FirstOpen \in Nat /\ 1 \in Int /\ FirstOpen \in Int
    BY ParametersAssumption
  <2>2. Cardinality(1 .. FirstOpen) = IF 1 > FirstOpen THEN 0 ELSE FirstOpen - 1 + 1
    BY <2>1, FS_Interval
  <2> QED BY <2>1, <2>2 DEF Init
<1>4. 1 \in Pages
  BY ParametersAssumption DEF Pages
<1>5. Counted(list, 1, n) /\ Filled(list, 1, n)
  BY <1>2, <1>4, PageHolds
<1>6. /\ cache[1].data = [total |-> n, reports |-> list] /\ cache[1].data # NoData
      /\ cache[1].status = "success" /\ ~cache[1].invalid /\ cache[1].fetch = NoFetch
  <2>1. cache[1] = [NoQuery EXCEPT !.data = FirstPage, !.status = "success"]
    BY <1>4 DEF Init
  <2>2. FirstPage = [total |-> n, reports |-> list]
    BY <1>3 DEF Init, FirstPage
  <2>3. FirstPage.total # -1
    BY <1>3, <2>2
  <2>4. FirstPage # NoData
    BY <2>3 DEF NoData
  <2> HIDE DEF n, list
  <2> QED BY <2>1, <2>2, <2>4 DEF NoQuery
<1>7. \A k \in Pages : k # 1 => cache[k] = NoQuery
  BY DEF Init
<1>8. \A k \in Pages : DataKept(NoQuery, k, n)
  BY ParametersAssumption DEF DataKept, NoQuery, NoData, Filled, Before, Pages
<1>9. page = 1 /\ mutation.at = "idle"
  BY DEF Init, Idle
<1> HIDE DEF n, list
<1>10. DataKept(cache[1], 1, n)
  BY <1>5, <1>6 DEF DataKept
<1>11. Kept(cache, 1, n, n)
  <2>1. \A k \in Pages : DataKept(cache[k], k, n) /\ cache[k].fetch = NoFetch
    <3> SUFFICES ASSUME NEW k \in Pages
                 PROVE  DataKept(cache[k], k, n) /\ cache[k].fetch = NoFetch
      OBVIOUS
    <3>1. CASE k = 1
      BY <1>6, <1>10, <3>1
    <3>2. CASE k # 1
      <4>1. cache[k] = NoQuery /\ NoQuery.fetch = NoFetch
        BY <1>7, <3>2 DEF NoQuery
      <4> QED BY <1>8, <4>1
    <3> QED BY <3>1, <3>2
  <2>2. \A k \in Pages : FetchKept(cache[k], k, n, n)
    BY <2>1 DEF FetchKept, NoFetch
  <2>3. \A k \in Pages : ~(1 < k /\ k < 1)
    BY DEF Pages
  <2> QED BY <1>6, <2>1, <2>2, <2>3 DEF Kept
<1>12. n + Owed = n
  BY <1>3, <1>9 DEF Owed
<1> QED BY <1>9, <1>11, <1>12 DEF AloneInv, AloneKept, RefreshKept, TroubleOK, Init, n

\* A completion that is refused, lost or answered by a failure, and another
\* administrator, end the time in which somebody is alone.
LEMMA AloneInvNext ==
  ASSUME ReportsInv, ReportsInv', TroubleOK, AloneInv, [Next]_vars
  PROVE  AloneInv'
<1> SUFFICES ASSUME Alone' PROVE AloneKept'
  BY DEF AloneInv
<1>1. AloneKept /\ Alone
  BY AloneBefore DEF AloneInv
<1>2. CASE UNCHANGED vars
  BY <1>1, <1>2 DEF vars, server, ui, AloneKept, RefreshKept, Owed
<1>3. CASE QuietSteps
  BY <1>1, <1>3, QuietKept
<1>4. CASE \E p \in Pages : ListReports(p)
  BY <1>1, <1>4, ListKept
<1>5. CASE \E p \in Pages : CountReports(p)
  BY <1>1, <1>5, CountKept
<1>6. CASE PaginationPrevious \/ PaginationNext
  BY <1>1, <1>6, TurnKept
<1>7. CASE WindowFocus
  BY <1>1, <1>7, FocusKept
<1>8. CASE onSuccess
  BY <1>1, <1>8, SuccessKept
<1>9. CASE (\E r \in Reports : CompleteElsewhere(r)) \/ CompletionLost
           \/ \E p \in Pages : PageFails(p)
  BY <1>1, <1>9 DEF CompleteElsewhere, CompletionLost, PageFails, Alone
<1>10. CASE TryAgain
  BY <1>1, <1>10 DEF TryAgain, isError, AloneKept, Kept, DataKept, ReportsInv, ScreenOK
<1> QED BY <1>2, <1>3, <1>4, <1>5, <1>6, <1>7, <1>8, <1>9, <1>10 DEF Next, QuietSteps

\* The step that ends a refresh of somebody alone is the answer it waits for.
LEMMA OnlyTheAnswerEnds ==
  ASSUME TroubleOK, Alone, AloneKept, page \in Pages, faults' = 0, Next,
         mutation.at = "refreshing", mutation' = Idle
  PROVE  overlap' = overlap /\ \E p \in Pages : CountReports(p)
<1>1. mutation' # mutation /\ cache[page].status # "error"
  BY DEF Idle, AloneKept, Kept, DataKept
<1>2. ASSUME NEW p \in Pages PROVE ~PageFails(p)
  BY DEF PageFails, Alone
<1>3. ~TryAgain
  BY <1>1 DEF TryAgain, isError
<1>4. \E p \in Pages : CountReports(p)
  BY <1>1, <1>2, <1>3 DEF Next, CreateGameBugReport, CompleteElsewhere, onSelect,
     ListReports, PaginationPrevious, PaginationNext, TurnTo, WindowFocus,
     onOpenChange, DetailSettles, mutate, handleAdminBugReportComplete,
     CompletionLost, onError, onSuccess
<1> QED BY <1>4 DEF CountReports

\* The completion of the last report of a page turns the page back, when an
\* administrator works alone, requests succeed and no list was loaded while
\* the completion or another report came between.
THEOREM CompletionTurnsBack == Spec => TurnsBackWhenEmptied
<1> DEFINE I == ReportsInv /\ TroubleOK /\ AloneInv
           TurnsBack ==
             (/\ mutation.at = "refreshing" /\ mutation' = Idle
              /\ cache[page].data.reports # {}
              /\ others = 0 /\ faults' = 0 /\ overlap = {})
             => (page' = 1 \/ cache'[page'].data.reports # {})
<1>1. Init => I
  BY ReportsInvInit, AloneInvInit
<1>2. I /\ [Next]_vars => I'
  BY ReportsInvNext, AloneBefore, AloneInvNext
<1>3. I /\ [Next]_vars => [TurnsBack]_vars
  <2> SUFFICES ASSUME I, Next,
                      mutation.at = "refreshing", mutation' = Idle,
                      cache[page].data.reports # {},
                      others = 0, faults' = 0, overlap = {}
               PROVE  page' = 1 \/ cache'[page'].data.reports # {}
    OBVIOUS
  <2>1. faults = 0 /\ Alone
    <3>1. faults' \in {faults, faults + 1}
      BY DEF Next, bounds, CreateGameBugReport, CompleteElsewhere, onSelect,
         ListReports, CountReports, PageFails, PaginationPrevious, PaginationNext,
         TurnTo, WindowFocus, TryAgain, onOpenChange, DetailSettles, mutate,
         handleAdminBugReportComplete, CompletionLost, onError, onSuccess
    <3> QED BY <3>1 DEF TroubleOK, Alone
  <2>2. AloneKept /\ page \in Pages
    BY <2>1 DEF AloneInv, ReportsInv, ScreenOK
  <2>3. PICK p \in Pages : CountReports(p)
    BY <2>1, <2>2, OnlyTheAnswerEnds
  <2>4. Alone'
    BY <2>1, <2>3 DEF CountReports, bounds, Alone
  <2> QED BY <2>2, <2>3, <2>4, CountKept
<1> HIDE DEF I, TurnsBack
<1>4. Spec => [][TurnsBack]_vars
  BY <1>1, <1>2, <1>3, PTL DEF Spec
<1> QED BY <1>4 DEF TurnsBackWhenEmptied, TurnsBack
=============================================================================
