-------------------------- MODULE IssueViews_proofs --------------------------
(***************************************************************************)
(* For any number of issues, projects and requests: the page of an issue   *)
(* and the global its order buttons read agree on the event; the list is   *)
(* on a page that exists, and shows what the store holds.  First, what the *)
(* pager shows for every number of pages: TLC cannot try them all, and the *)
(* window's two corrections are easy to get wrong by one.                  *)
(***************************************************************************)
EXTENDS IssueViews, FiniteSetTheorems, WellFoundedInduction, TLAPS
-----------------------------------------------------------------------------
(* The pager                                                               *)

\* The run of buttons lies within the pages, has the current one among them,
\* and is five long unless there are fewer pages than that.
THEOREM WindowTheorem ==
    ASSUME NEW pages \in Nat \ {0}, NEW at \in 1..pages
    PROVE  /\ at \in Window(at, pages)
           /\ Window(at, pages) \subseteq 1..pages
           /\ EndPage(at, pages) - StartPage(at, pages) = Least(pages, MaxVisible) - 1
<1>1. at \in Int /\ 1 <= at /\ at <= pages /\ pages \in Int  OBVIOUS
<1>. QED  BY <1>1, SMT DEF Window, StartPage, EndPage, FirstGuess, Least, Most, MaxVisible

\* No button of the pager leads to a page that does not exist.
THEOREM ButtonsTheorem ==
    ASSUME NEW pages \in Nat \ {0}, NEW at \in 1..pages
    PROVE  Buttons(at, pages) \subseteq 1..pages
<1>1. at \in Int /\ 1 <= at /\ at <= pages /\ pages \in Int  OBVIOUS
<1>2. Window(at, pages) \subseteq 1..pages  BY WindowTheorem
<1>. QED  BY <1>1, <1>2 DEF Buttons

\* The page a list is drawn with exists, and has a row if there is any.
THEOREM ClampTheorem ==
    ASSUME NEW n \in Nat, NEW limit \in Nat \ {0}, NEW page \in Nat \ {0}
    PROVE  LET p == Clamped(page, TotalPages(n, limit))
           IN  /\ p \in 1..TotalPages(n, limit)
               /\ n > 0 => (p - 1) * limit < n
<1>. DEFINE q == (n - 1) \div limit
<1>1. CASE n = 0  BY <1>1, SMT DEF Clamped, TotalPages, Least
<1>2. CASE n > 0
  <2>1. n - 1 \in Nat  BY <1>2
  <2>2. q \in Nat /\ q * limit <= n - 1  BY <2>1, SMTT(30)
  <2>. HIDE DEF q
  <2>3. TotalPages(n, limit) = q + 1  BY <1>2 DEF TotalPages, q
  <2>. DEFINE p == Clamped(page, TotalPages(n, limit))
  <2>4. p \in Nat /\ 1 <= p /\ p - 1 <= q  BY <2>2, <2>3, SMT DEF Clamped, Least
  <2>. HIDE DEF p
  <2>5. (p - 1) * limit <= q * limit  BY <2>2, <2>4, SMTT(30)
  <2>. QED  BY <2>2, <2>3, <2>4, <2>5, SMT DEF p
<1>. QED  BY <1>1, <1>2

-----------------------------------------------------------------------------
(* The page of an issue                                                    *)

\* What is displayed has its fields: an EXCEPT of it then has the new value.
ShownShape == {"view", "tab", "body", "own"} \subseteq DOMAIN shown
TInv == ShownShape /\ TraceIsBody

LEMMA DrawShape ==
    ASSUME NEW f, NEW st, DrawList(f, st)
    PROVE  ShownShape' /\ shown'.view # "page"
BY DEF DrawList, ShownShape, Fetching

LEMMA FetchingShape ==
    ASSUME shown' = Fetching
    PROVE  ShownShape' /\ shown'.view # "page"
BY DEF ShownShape, Fetching

LEMMA PageShape ==
    ASSUME NEW t, NEW i, NEW fl, shown' = Page(t, i, fl)
    PROVE  ShownShape' /\ shown'.tab = "wait"
BY DEF ShownShape, Page, Fetching

\* The one place that draws an event keeps the page and the global together.
LEMMA TabShape ==
    ASSUME NEW s, NEW i, NEW tab, ShowTab(s, i, tab),
           {"view", "tab", "body", "own"} \subseteq DOMAIN s
    PROVE  ShownShape' /\ TraceIsBody'
BY DEF ShowTab, ShownShape, TraceIsBody, TraceTabs

LEMMA OffPage ==
    ASSUME ShownShape', shown'.view # "page" \/ shown'.tab \notin TraceTabs
    PROVE  TInv'
BY DEF TInv, TraceIsBody

LEMMA StepTInv == TInv /\ [Next]_vars => TInv'
<1>. SUFFICES ASSUME TInv, [Next]_vars PROVE TInv'
  OBVIOUS
<1>. USE DEF opened
<1>s. ASSUME UNCHANGED <<shown, traced>> PROVE TInv'
  BY <1>s DEF TInv, ShownShape, TraceIsBody
<1>w. "wait" \notin TraceTabs /\ "none" \notin TraceTabs
  BY DEF TraceTabs
<1>1. ASSUME NEW t \in Tasks, MetaLands(t) PROVE TInv'
  <2>1. \/ \E i, fl : shown' = Page(t, i, fl)
        \/ UNCHANGED <<shown, traced>>
    BY <1>1 DEF MetaLands
  <2>. QED  BY <2>1, <1>s, <1>w, PageShape, OffPage
<1>2. ASSUME NEW t \in Tasks, EventsLand(t) PROVE TInv'
  <2>1. UNCHANGED traced /\ (\/ UNCHANGED shown
                             \/ shown' = [shown EXCEPT !.tab = "none", !.body = NoIssue])
    BY <1>2 DEF EventsLand
  <2>2. CASE shown' = [shown EXCEPT !.tab = "none", !.body = NoIssue]
    <3>1. ShownShape' /\ shown'.tab = "none"
      BY <2>2 DEF TInv, ShownShape
    <3>. QED  BY <3>1, <1>w, OffPage
  <2>. QED  BY <2>1, <2>2, <1>s
<1>3. ASSUME NEW t \in Tasks, PayloadLands(t) PROVE TInv'
  <2>1. CASE UNCHANGED <<shown, traced>>  BY <2>1, <1>s
  <2>2. CASE shown.view # "page" /\ UNCHANGED shown
    BY <2>2, OffPage DEF TInv, ShownShape
  <2>3. ASSUME NEW s \in {shown, [shown EXCEPT !.own = task[t].issue]},
               ShowTab(s, task[t].issue, "highlights")
        PROVE  TInv'
    <3>1. {"view", "tab", "body", "own"} \subseteq DOMAIN s
      BY <2>3 DEF TInv, ShownShape
    <3>. QED  BY <3>1, <2>3, TabShape DEF TInv
  <2>. QED  BY <1>3, <2>1, <2>2, <2>3 DEF PayloadLands
<1>4. ASSUME NEW t \in Tasks, ActLands(t) \/ Served(t) \/ UsersLand(t) PROVE TInv'
  BY <1>4, <1>s DEF ActLands, Served, UsersLand
<1>5. ASSUME NEW t \in Tasks, RefreshLands(t) PROVE TInv'
  <2>1. (\E f, st : DrawList(f, st)) \/ shown' = Fetching
    BY <1>5 DEF RefreshLands, ToIssue
  <2>. QED  BY <2>1, DrawShape, FetchingShape, OffPage
<1>6. ASSUME NEW i \in Issues, OpenIssue(i) \/ ShowAffectedUsers(i) \/ Others(i) PROVE TInv'
  <2>1. shown' = Fetching \/ UNCHANGED <<shown, traced>>
    BY <1>6 DEF OpenIssue, ShowAffectedUsers, Others, ToIssue
  <2>. QED  BY <2>1, <1>s, FetchingShape, OffPage
<1>7. ASSUME Filter \/ ChangeIssuesPage \/ Back \/ DeleteIssue PROVE TInv'
  <2>1. \E f, st : DrawList(f, st)
    BY <1>7 DEF Filter, ChangeIssuesPage, Back, DeleteIssue, ToList
  <2>. QED  BY <2>1, DrawShape, OffPage
<1>8. ASSUME ClickTab \/ SetStackTraceOrder PROVE TInv'
  <2>1. \E i, tab : ShowTab(shown, i, tab)
    BY <1>8 DEF ClickTab, SetStackTraceOrder
  <2>. QED  BY <2>1, TabShape DEF TInv, ShownShape
<1>9. ASSUME Change \/ RefreshClick \/ Tick \/ CloseModal PROVE TInv'
  BY <1>9, <1>s DEF Change, RefreshClick, Tick, CloseModal
<1>10. ASSUME DrillDown PROVE TInv'
  <2>1. shown' = Fetching
    BY <1>10 DEF DrillDown, ToIssue
  <2>. QED  BY <2>1, FetchingShape, OffPage
<1>11. ASSUME UNCHANGED vars PROVE TInv'
  BY <1>11, <1>s DEF vars
<1>. QED
  BY <1>1, <1>2, <1>3, <1>4, <1>5, <1>6, <1>7, <1>8, <1>9, <1>10, <1>11 DEF Next, Answer

\* The order buttons of a stack trace redraw the trace that is on the page.
THEOREM TraceTheorem == Spec => []TraceIsBody
<1>1. Init => TInv
  BY DEF Init, TInv, ShownShape, TraceIsBody, Fetching
<1>2. TInv => TraceIsBody
  BY DEF TInv
<1>. QED  BY <1>1, <1>2, StepTInv, PTL DEF Spec

-----------------------------------------------------------------------------
(* The rows of a page                                                      *)

\* Of m or more hits, one has rank m: the first place that m hits do not pass.
LEMMA Ranked ==
    ASSUME NEW n \in Nat, NEW hits \in SUBSET (1 .. n), NEW m \in 1 .. Cardinality(hits)
    PROVE  \E k \in hits : Rank(hits, k) = m
<1> DEFINE upto(k) == {j \in hits : j <= k}
           late == {k \in Nat : Rank(hits, k) >= m}
<1>0. \A j \in hits : j \in Nat /\ 1 <= j /\ j <= n
  OBVIOUS
<1>1. IsFiniteSet(hits) /\ Cardinality(hits) \in Nat
  <2>1. IsFiniteSet(1 .. n)
    BY FS_Interval
  <2>. QED BY <2>1, FS_Subset, FS_CardinalityType
<1>2. ASSUME NEW k \in Nat
      PROVE  IsFiniteSet(upto(k)) /\ Rank(hits, k) = Cardinality(upto(k)) /\ Rank(hits, k) \in Nat
  <2>1. IsFiniteSet(upto(k))
    BY <1>1, FS_Subset
  <2>. QED BY <2>1, FS_CardinalityType DEF Rank
<1>3. n \in late
  <2>1. upto(n) = hits
    BY <1>0
  <2>. QED BY <1>1, <1>2, <2>1
<1>4. PICK x \in late : \A y \in late : ~(y < x)
  <2>1. late \subseteq Nat /\ late # {}
    BY <1>3
  <2> HIDE DEF late
  <2>2. \E x \in late : \A y \in late : <<y, x>> \notin OpToRel(<, Nat)
    BY <2>1, NatLessThanWellFounded, WFMin
  <2>. QED BY <2>1, <2>2 DEF OpToRel
<1>5. x # 0
  <2>1. upto(0) = {}
    <3>1. \A j \in hits : ~(j <= 0)
      BY <1>0
    <3>. QED BY <3>1
  <2>2. Rank(hits, 0) = 0
    <3>1. Rank(hits, 0) = Cardinality({})
      BY <2>1 DEF Rank
    <3>. QED BY <3>1, FS_EmptySet
  <2>. QED BY <2>2
<1>6. x \in Nat /\ x - 1 \in Nat /\ Rank(hits, x) \in Nat /\ Rank(hits, x - 1) \in Nat
      /\ Rank(hits, x) >= m /\ Rank(hits, x - 1) < m
  <2>1. x \in Nat /\ x - 1 \in Nat /\ Rank(hits, x) >= m
    BY <1>5
  <2>2. Rank(hits, x) \in Nat /\ Rank(hits, x - 1) \in Nat
    BY <1>2, <2>1
  <2>3. x - 1 \notin late
    BY <1>4, <2>1
  <2>. QED BY <2>1, <2>2, <2>3
<1>7. \A j \in hits : j <= x <=> j <= x - 1 \/ j = x
  BY <1>0, <1>6
<1>8. x \in hits
  <2>1. ASSUME x \notin hits PROVE Rank(hits, x) = Rank(hits, x - 1)
    <3>1. upto(x) = upto(x - 1)
      BY <1>7, <2>1
    <3>. QED BY <3>1 DEF Rank
  <2>2. Rank(hits, x) # Rank(hits, x - 1)
    BY <1>6
  <2>. QED BY <2>1, <2>2
<1>9. Rank(hits, x) = Rank(hits, x - 1) + 1
  <2>1. x \notin upto(x - 1)
    BY <1>6
  <2>2. IsFiniteSet(upto(x - 1))
    BY <1>2, <1>6
  <2>3. Cardinality(upto(x - 1) \cup {x}) = Cardinality(upto(x - 1)) + 1
    BY <2>1, <2>2, FS_AddElement
  <2>4. upto(x) = upto(x - 1) \cup {x}
    BY <1>6, <1>7, <1>8
  <2>. QED BY <1>2, <1>6, <2>3, <2>4
<1>10. Rank(hits, x) = m
  BY <1>6, <1>9
<1>. QED BY <1>8, <1>10

LEMMA HitsType ==
    ASSUME NEW f, f.order \in Orders, NEW st
    PROVE  /\ Len(f.order) \in Nat /\ Hits(f, st) \in SUBSET (1 .. Len(f.order))
           /\ Cardinality(Hits(f, st)) \in Nat
           /\ \A k \in Hits(f, st) : f.order[k] \in Issues
<1>1. f.order \in Seq(Issues)
  BY ViewsAssumption
<1>2. Len(f.order) \in Nat /\ Hits(f, st) \in SUBSET (1 .. Len(f.order))
      /\ \A k \in Hits(f, st) : f.order[k] \in Issues
  BY <1>1 DEF Hits
<1>3. Cardinality(Hits(f, st)) \in Nat
  <2>1. IsFiniteSet(1 .. Len(f.order))
    BY <1>2, FS_Interval
  <2>2. IsFiniteSet(Hits(f, st))
    BY <1>2, <2>1, FS_Subset
  <2>. QED BY <2>2, FS_CardinalityType
<1>. QED BY <1>2, <1>3

\* A page that begins before the last hit has a row.
LEMMA RowOnPage ==
    ASSUME NEW f, f.order \in Orders, f.limit \in Nat \ {0}, NEW st, NEW page \in Nat \ {0},
           (page - 1) * f.limit < Cardinality(Hits(f, st))
    PROVE  PageRows(f, Hits(f, st), page) # {}
<1> DEFINE limit == f.limit
           hits == Hits(f, st)
           m == (page - 1) * limit + 1
<1>1. Len(f.order) \in Nat /\ hits \in SUBSET (1 .. Len(f.order)) /\ Cardinality(hits) \in Nat
  BY HitsType
<1>2. /\ (page - 1) * limit \in Nat /\ page * limit = (page - 1) * limit + limit
      /\ limit \in Nat \ {0} /\ (page - 1) * limit < Cardinality(hits)
  BY SMTT(30)
<1> HIDE DEF hits, limit
<1>3. m \in 1 .. Cardinality(hits) /\ m \in (page - 1) * limit + 1 .. page * limit
  BY <1>1, <1>2
<1> HIDE DEF m
<1>4. PICK k \in hits : Rank(hits, k) = m
  BY <1>1, <1>3, Ranked
<1>5. k \in {j \in hits : Rank(hits, j) \in (page - 1) * limit + 1 .. page * limit}
  BY <1>3, <1>4
<1>6. f.order[k] \in PageRows(f, hits, page)
  BY <1>5 DEF PageRows, limit
<1>. QED BY <1>6 DEF hits

-----------------------------------------------------------------------------
(* The list                                                                *)

\* A load, an action and a modal know the issue they are about.
RowRule(row) ==
    /\ row \in TaskRec
    /\ row.phase = "meta" => /\ row.issue \in Issues
                             /\ row.project \in Selections /\ row.first \in Selections
    /\ row.what # "none" => row.issue \in Issues
    /\ row.phase = "act" => row.what # "none"

Ruled(tk) == tk \in [Tasks -> TaskRec] /\ \A t \in Tasks : RowRule(tk[t])

\* Until an issue is opened there is only the list.
CurRule == cur = NoIssue =>
    /\ path = "issues" /\ shown.view = "list"
    /\ \A t \in Tasks : task[t].phase # "meta"

ListRule == PageExists /\ ListFresh
IInv == TypeOK /\ Ruled(task) /\ CurRule /\ ListRule

\* The list drawn from a snapshot of the issues.
LEMMA DrawInv ==
    ASSUME TypeOK, NEW f \in FilterRec, NEW st \in Snapshot, DrawList(f, st),
           stats' = st, sel' = sel
    PROVE  filter' \in FilterRec /\ shown' \in ShownRec /\ shown'.view = "list" /\ ListRule'
<1> DEFINE hits == Hits(f, st)
           total == Cardinality(hits)
           page == Clamped(f.page, TotalPages(total, f.limit))
<1>1. /\ f.order \in Orders /\ f.limit \in Limits /\ f.limit \in Nat \ {0}
      /\ f.page \in Nat \ {0}
  BY ViewsAssumption DEF FilterRec
<1>2. total \in Nat /\ \A k \in hits : f.order[k] \in Issues
  BY <1>1, HitsType
<1>3. filter' = [f EXCEPT !.page = page]
      /\ shown' = [Fetching EXCEPT !.view = "list", !.total = total,
                                   !.rows = PageRows(f, hits, page)]
  BY DEF DrawList
<1>4. /\ page \in 1 .. TotalPages(total, f.limit)
      /\ total > 0 => (page - 1) * f.limit < total
  <2> HIDE DEF total
  <2>. QED BY <1>1, <1>2, ClampTheorem
<1>5. page \in Nat \ {0} /\ page <= TotalPages(total, f.limit)
  BY <1>4
<1>6. total > 0 => PageRows(f, hits, page) # {}
  BY <1>1, <1>4, <1>5, RowOnPage
<1>7. PageRows(f, hits, page) \subseteq Issues
  BY <1>2 DEF PageRows
<1> HIDE DEF page, hits, total
<1>8. /\ filter' \in FilterRec /\ filter'.page = page /\ filter'.order = f.order
      /\ filter'.limit = f.limit /\ filter'.search = f.search /\ filter'.status = f.status
  BY <1>3, <1>5 DEF FilterRec
<1>9. shown' \in ShownRec /\ shown'.view = "list" /\ shown'.total = total
      /\ shown'.rows = PageRows(f, hits, page)
  BY <1>2, <1>3, <1>7 DEF Fetching, ShownRec
<1>10. Hits(filter, stats)' = hits
  <2>1. Matching(filter, stats)' = Matching(f, st)
    BY <1>8 DEF Matching
  <2>. QED BY <1>8, <2>1 DEF Hits, hits
<1>11. PageRows(filter, Hits(filter, stats), filter.page)' = PageRows(f, hits, page)
  BY <1>8, <1>10 DEF PageRows
<1>12. PageExists'
  BY <1>5, <1>6, <1>8, <1>9 DEF PageExists
<1>13. ListFresh'
  BY <1>9, <1>10, <1>11 DEF ListFresh, total
<1>. QED BY <1>8, <1>9, <1>12, <1>13 DEF ListRule

\* What draws no list leaves the one there is, or none.
LEMMA ListKept ==
    ASSUME ListRule, UNCHANGED <<filter, stats, sel>>,
           \/ shown'.view # "list"
           \/ shown'.view = shown.view /\ shown'.total = shown.total /\ shown'.rows = shown.rows
    PROVE  ListRule'
<1>1. CASE shown'.view # "list"
  BY <1>1 DEF ListRule, PageExists, ListFresh
<1>2. CASE shown'.view = shown.view /\ shown'.total = shown.total /\ shown'.rows = shown.rows
  <2>1. Hits(filter, stats)' = Hits(filter, stats)
    BY DEF Hits, Matching
  <2>2. PageRows(filter, Hits(filter, stats), filter.page)'
          = PageRows(filter, Hits(filter, stats), filter.page)
    BY <2>1 DEF PageRows
  <2>. QED BY <1>2, <2>1, <2>2 DEF ListRule, PageExists, ListFresh
<1>. QED BY <1>1, <1>2

LEMMA Typed ==
    TypeOK => /\ task \in [Tasks -> TaskRec] /\ shown \in ShownRec /\ filter \in FilterRec
              /\ cur \in Issues \cup {NoIssue} /\ sel \in Selections
BY DEF TypeOK

\* One row rewritten.
LEMMA RowSet ==
    ASSUME NEW tk, Ruled(tk), NEW t \in Tasks, NEW row, RowRule(row)
    PROVE  /\ Ruled([tk EXCEPT ![t] = row]) /\ [tk EXCEPT ![t] = row][t] = row
           /\ \A u \in Tasks \ {t} : [tk EXCEPT ![t] = row][u] = tk[u]
BY DEF RowRule, Ruled

LEMMA IdleRow ==
    /\ NoTask \in TaskRec /\ RowRule(NoTask) /\ NoTask.phase = "idle" /\ NoTask.what = "none"
    /\ NoTask.issue = NoIssue
BY DEF NoTask, RowRule, TaskRec, Snapshot, Flags

LEMMA LoadRow ==
    ASSUME NEW i \in Issues, NEW p \in Selections \cup {NoProject}, sel \in Selections
    PROVE  RowRule(Load(i, p)) /\ Load(i, p).phase = "meta"
<1> DEFINE first == IF p = NoProject THEN sel ELSE p
           r1 == [NoTask EXCEPT !.phase = "meta"]
           r2 == [r1 EXCEPT !.issue = i]
           r3 == [r2 EXCEPT !.project = first]
           r4 == [r3 EXCEPT !.first = first]
           r5 == [r4 EXCEPT !.left = Projects \ {first}]
<1>1. Load(i, p) = r5 /\ first \in Selections
  BY DEF Load
<1>2. r1 \in TaskRec /\ r1.phase = "meta" /\ r1.what = "none"
  BY IdleRow DEF TaskRec
<1> HIDE DEF r1, first
<1>3. r2 \in TaskRec /\ r2.phase = "meta" /\ r2.what = "none" /\ r2.issue = i
  BY <1>2 DEF TaskRec
<1> HIDE DEF r2
<1>4. r3 \in TaskRec /\ r3.phase = "meta" /\ r3.what = "none" /\ r3.issue = i
      /\ r3.project = first
  BY <1>1, <1>3 DEF TaskRec
<1> HIDE DEF r3
<1>5. r4 \in TaskRec /\ r4.phase = "meta" /\ r4.what = "none" /\ r4.issue = i
      /\ r4.project = first /\ r4.first = first
  BY <1>1, <1>4 DEF TaskRec
<1> HIDE DEF r4
<1>6. r5 \in TaskRec /\ r5.phase = "meta" /\ r5.what = "none" /\ r5.issue = i
      /\ r5.project = first /\ r5.first = first
  BY <1>1, <1>5 DEF TaskRec
<1> HIDE DEF r5
<1>. QED BY <1>1, <1>6 DEF RowRule

-----------------------------------------------------------------------------
(* Kinds of steps                                                          *)

LEMMA KeepStep ==
    ASSUME IInv, UNCHANGED <<sel, stats, filter, opened>>,
           \/ shown' = shown
           \/ /\ cur \in Issues /\ shown' \in ShownRec
              /\ \/ shown'.view # "list"
                 \/ /\ shown'.view = shown.view /\ shown'.total = shown.total
                    /\ shown'.rows = shown.rows,
           Ruled(task'), cur = NoIssue => \A u \in Tasks : task'[u].phase # "meta",
           flags' \in Snapshot, traced' \in Issues \cup {NoIssue},
           actProject' \in Projects \cup {NoProject}, modal' \in Issues \cup {NoIssue},
           clicks' \in Nat, faults' \in Nat
    PROVE  IInv'
<1>1. TypeOK /\ CurRule /\ ListRule
  BY DEF IInv
<1>2. UNCHANGED <<path, cur, curProject>>
  BY DEF opened
<1>3. TypeOK'
  BY <1>1, <1>2 DEF TypeOK, Ruled
<1>4. CurRule'
  BY <1>1, <1>2, ViewsAssumption DEF CurRule
<1>5. ListRule'
  BY <1>1, ListKept
<1>. QED BY <1>3, <1>4, <1>5 DEF IInv

\* To the page of an issue.
LEMMA GoStep ==
    ASSUME IInv, NEW i \in Issues, NEW p \in Selections \cup {NoProject}, ToIssue(i, p),
           Ruled(task'), UNCHANGED <<flags, sel, traced, actProject>>,
           stats' \in Snapshot, modal' \in Issues \cup {NoIssue},
           clicks' \in Nat, faults' \in Nat
    PROVE  IInv'
<1>1. TypeOK
  BY DEF IInv
<1>2. /\ path' = "issue_detail" /\ cur' = i /\ curProject' = p
      /\ shown' = Fetching /\ filter' = filter
  BY DEF ToIssue
<1>3. shown' \in ShownRec /\ shown'.view # "list"
  BY <1>2 DEF Fetching, ShownRec
<1>4. TypeOK'
  BY <1>1, <1>2, <1>3 DEF TypeOK, Ruled
<1>5. CurRule'
  BY <1>2, ViewsAssumption DEF CurRule
<1>6. ListRule'
  BY <1>3 DEF ListRule, PageExists, ListFresh
<1>. QED BY <1>4, <1>5, <1>6 DEF IInv

\* The list drawn again.
LEMMA DrawStep ==
    ASSUME IInv, NEW f \in FilterRec, NEW st \in Snapshot, DrawList(f, st), stats' = st,
           UNCHANGED <<flags, sel, cur, traced, actProject, modal>>,
           path' \in {path, "issues"}, curProject' \in {curProject, NoProject},
           Ruled(task'), cur = NoIssue => \A u \in Tasks : task'[u].phase # "meta",
           clicks' \in Nat, faults' \in Nat
    PROVE  IInv'
<1>1. TypeOK /\ CurRule
  BY DEF IInv
<1>2. filter' \in FilterRec /\ shown' \in ShownRec /\ shown'.view = "list" /\ ListRule'
  BY <1>1, DrawInv
<1>3. TypeOK'
  BY <1>1, <1>2 DEF TypeOK, Ruled
<1>4. CurRule'
  BY <1>1, <1>2 DEF CurRule
<1>. QED BY <1>2, <1>3, <1>4 DEF IInv

\* The requests of a step that sends none for the issue's page.
LEMMA NoLoad ==
    ASSUME IInv, NEW t \in Tasks, NEW row, RowRule(row), row.phase # "meta",
           task' = [task EXCEPT ![t] = row]
    PROVE  Ruled(task') /\ (cur = NoIssue => \A u \in Tasks : task'[u].phase # "meta")
<1>1. Ruled(task)
  BY DEF IInv
<1>2. Ruled(task') /\ task'[t] = row /\ \A u \in Tasks \ {t} : task'[u] = task[u]
  <2>1. Ruled([task EXCEPT ![t] = row])
    BY <1>1, RowSet
  <2>2. task \in [Tasks -> TaskRec]
    BY <1>1 DEF Ruled
  <2>. QED BY <2>1, <2>2
<1>. QED BY <1>2 DEF IInv, CurRule

LEMMA SameTasks ==
    ASSUME IInv, task' = task
    PROVE  Ruled(task') /\ (cur = NoIssue => \A u \in Tasks : task'[u].phase # "meta")
BY DEF IInv, CurRule

LEMMA Counters ==
    ASSUME TypeOK, Click \/ Fault \/ Quiet
    PROVE  clicks' \in Nat /\ faults' \in Nat
BY DEF TypeOK, Click, Fault, Quiet

-----------------------------------------------------------------------------
(* The list and its filter                                                 *)

LEMMA InitIInv == Init => IInv
<1> SUFFICES ASSUME Init PROVE IInv
  OBVIOUS
<1>1. task = [t \in Tasks |-> NoTask] /\ \A t \in Tasks : task[t] = NoTask
  BY DEF Init
<1>2. Ruled(task) /\ \A t \in Tasks : task[t].phase # "meta"
  BY <1>1, IdleRow DEF Ruled
<1>3. /\ shown.view = "list" /\ shown.total = 0 /\ shown.rows = {} /\ shown \in ShownRec
      /\ filter.page = 1 /\ filter.order = Order0 /\ filter.limit = Limit0
      /\ filter \in FilterRec
  <2>1. /\ shown = [view |-> "list", rows |-> {}, total |-> 0, issue |-> NoIssue, load |-> 0,
                     suppressed |-> FALSE, tab |-> "wait", body |-> NoIssue, own |-> NoIssue]
        /\ filter = [status |-> "all", search |-> Issues, order |-> Order0, page |-> 1,
                      limit |-> Limit0]
    BY DEF Init, Fetching
  <2>2. "all" \in Statuses /\ Issues \in Searches /\ Order0 \in Orders /\ Limit0 \in Limits
    BY ViewsAssumption DEF Statuses
  <2>. QED BY <2>1, <2>2 DEF ShownRec, FilterRec
<1>4. flags \in Snapshot /\ stats \in Snapshot /\ \A i \in Issues : "gone" \in stats[i]
  BY DEF Init, Snapshot, Flags
<1>5. TypeOK
  BY <1>2, <1>3, <1>4 DEF Init, TypeOK, Ruled
<1>6. CurRule
  BY <1>2, <1>3 DEF CurRule, Init
<1>7. Hits(filter, stats) = {}
  <2>1. Matching(filter, stats) \cap Issues = {}
    BY <1>4 DEF Matching
  <2>2. \A k \in 1 .. Len(filter.order) : filter.order[k] \in Issues
    BY <1>3, ViewsAssumption
  <2>. QED BY <2>1, <2>2 DEF Hits
<1>8. ListRule
  <2>1. PageRows(filter, Hits(filter, stats), filter.page) = {}
    BY <1>7 DEF PageRows
  <2>2. Cardinality(Hits(filter, stats)) = 0
    BY <1>7, FS_EmptySet
  <2>3. filter.page <= TotalPages(shown.total, filter.limit)
    BY <1>3 DEF TotalPages
  <2>. QED BY <1>3, <2>1, <2>2, <2>3 DEF ListRule, PageExists, ListFresh
<1>. QED BY <1>2, <1>5, <1>6, <1>8 DEF IInv

LEMMA FilterStep ==
    ASSUME IInv, Filter
    PROVE  IInv'
<1>1. TypeOK
  BY DEF IInv
<1>2. PICK f \in [status: Statuses, search: Searches, order: Orders, page: {1}, limit: Limits] :
        DrawList(f, stats)
  BY DEF Filter
<1>3. f \in FilterRec /\ stats \in Snapshot
  BY <1>1 DEF FilterRec, TypeOK
<1>4. Click /\ UNCHANGED <<flags, sel, stats, path, cur, curProject, traced, actProject, modal,
                           task>>
  BY DEF Filter, opened
<1>. QED BY <1>1, <1>2, <1>3, <1>4, Counters, SameTasks, DrawStep

LEMMA ChangePageStep ==
    ASSUME IInv, ChangeIssuesPage
    PROVE  IInv'
<1>1. TypeOK
  BY DEF IInv
<1>2. PICK p \in Buttons(filter.page, TotalPages(shown.total, filter.limit)) :
        DrawList([filter EXCEPT !.page = p], stats)
  BY DEF ChangeIssuesPage
<1>3. p \in Nat \ {0}
  <2> DEFINE pages == TotalPages(shown.total, filter.limit)
  <2>1. /\ shown.total \in Nat \ {0} /\ filter.limit \in Nat \ {0}
        /\ filter.page \in Nat \ {0} /\ filter.page <= pages
    BY <1>1, Typed, ViewsAssumption
       DEF IInv, ListRule, PageExists, ChangeIssuesPage, ShownRec, FilterRec
  <2>2. pages \in Nat \ {0}
    <3>1. shown.total - 1 \in Nat
      BY <2>1
    <3>2. (shown.total - 1) \div filter.limit \in Nat
      BY <2>1, <3>1, SMTT(30)
    <3>. QED BY <2>1, <3>2 DEF TotalPages
  <2> HIDE DEF pages
  <2>3. filter.page \in 1 .. pages
    BY <2>1, <2>2
  <2>4. Buttons(filter.page, pages) \subseteq 1 .. pages
    BY <2>2, <2>3, ButtonsTheorem
  <2>. QED BY <2>2, <2>4 DEF pages
<1> DEFINE f == [filter EXCEPT !.page = p]
<1>4. f \in FilterRec /\ stats \in Snapshot
  BY <1>1, <1>3 DEF FilterRec, TypeOK
<1> HIDE DEF f
<1>5. DrawList(f, stats)
  BY <1>2 DEF f
<1>6. Click /\ UNCHANGED <<flags, sel, stats, path, cur, curProject, traced, actProject, modal,
                           task>>
  BY DEF ChangeIssuesPage, opened
<1>. QED BY <1>1, <1>4, <1>5, <1>6, Counters, SameTasks, DrawStep

LEMMA BackStep ==
    ASSUME IInv, Back
    PROVE  IInv'
<1>1. TypeOK /\ filter \in FilterRec /\ stats \in Snapshot
  BY DEF IInv, TypeOK
<1>2. /\ Click /\ path' = "issues" /\ curProject' = NoProject /\ DrawList(filter, stats)
      /\ UNCHANGED <<flags, sel, stats, cur, traced, actProject, modal, task>>
  BY DEF Back, ToList
<1>. QED BY <1>1, <1>2, Counters, SameTasks, DrawStep

-----------------------------------------------------------------------------
(* Requests                                                                *)

LEMMA PhaseRow ==
    ASSUME NEW k, RowRule(k), NEW ph \in {"events", "payload", "asked", "served"}
    PROVE  RowRule([k EXCEPT !.phase = ph]) /\ [k EXCEPT !.phase = ph].phase = ph
BY DEF RowRule, TaskRec

LEMMA RefreshRow == RowRule(Refresh) /\ Refresh.phase # "meta"
<1>1. Refresh \in TaskRec /\ Refresh.phase = "asked" /\ Refresh.what = "none"
  BY IdleRow DEF Refresh, TaskRec
<1>. QED BY <1>1 DEF RowRule

LEMMA ActRow ==
    ASSUME NEW i \in Issues, NEW p \in Selections \cup {NoProject},
           NEW what \in {"resolve", "suppress", "unsuppress", "delete"}, NEW r,
           r = [NoTask EXCEPT !.phase = "act", !.issue = i, !.project = p, !.what = what]
    PROVE  RowRule(r) /\ r.phase # "meta"
<1> DEFINE r1 == [NoTask EXCEPT !.phase = "act"]
           r2 == [r1 EXCEPT !.issue = i]
           r3 == [r2 EXCEPT !.project = p]
           r4 == [r3 EXCEPT !.what = what]
<1>1. r = r4
  OBVIOUS
<1>2. r1 \in TaskRec /\ r1.phase = "act"
  BY IdleRow DEF TaskRec
<1> HIDE DEF r1
<1>3. r2 \in TaskRec /\ r2.phase = "act" /\ r2.issue = i
  BY <1>2 DEF TaskRec
<1> HIDE DEF r2
<1>4. r3 \in TaskRec /\ r3.phase = "act" /\ r3.issue = i
  BY <1>3 DEF TaskRec
<1> HIDE DEF r3
<1>5. r4 \in TaskRec /\ r4.phase = "act" /\ r4.issue = i /\ r4.what = what
  BY <1>4 DEF TaskRec
<1> HIDE DEF r4
<1>. QED BY <1>1, <1>5 DEF RowRule

LEMMA ActRows ==
    ASSUME TypeOK, cur \in Issues, NEW what \in {"resolve", "suppress", "unsuppress", "delete"}
    PROVE  RowRule(Act(what)) /\ Act(what).phase # "meta"
<1>1. ActsIn \in Selections \cup {NoProject}
  <2>1. Home[cur] \in Projects
    BY ViewsAssumption
  <2>. QED BY <2>1 DEF ActsIn, TypeOK, Selections
<1>. QED BY <1>1, ActRow DEF Act

LEMMA UsersRow ==
    ASSUME NEW i \in Issues, NEW p \in Selections, NEW r,
           r = [NoTask EXCEPT !.phase = "users", !.issue = i, !.project = p]
    PROVE  RowRule(r) /\ r.phase # "meta"
<1> DEFINE r1 == [NoTask EXCEPT !.phase = "users"]
           r2 == [r1 EXCEPT !.issue = i]
           r3 == [r2 EXCEPT !.project = p]
<1>1. r = r3
  OBVIOUS
<1>2. r1 \in TaskRec /\ r1.phase = "users" /\ r1.what = "none"
  BY IdleRow DEF TaskRec
<1> HIDE DEF r1
<1>3. r2 \in TaskRec /\ r2.phase = "users" /\ r2.what = "none" /\ r2.issue = i
  BY <1>2 DEF TaskRec
<1> HIDE DEF r2
<1>4. r3 \in TaskRec /\ r3.phase = "users" /\ r3.what = "none" /\ r3.issue = i
  BY <1>3 DEF TaskRec
<1> HIDE DEF r3
<1>. QED BY <1>1, <1>4 DEF RowRule

\* A request sent that is not the load of a page changes nothing else.
LEMMA SendStep ==
    ASSUME IInv, NEW row, RowRule(row), row.phase # "meta", Send(row),
           UNCHANGED <<flags, sel, stats, filter, opened, shown, traced, actProject, modal>>,
           Click \/ Quiet
    PROVE  IInv'
<1>1. TypeOK
  BY DEF IInv
<1>2. PICK t \in Tasks : task' = [task EXCEPT ![t] = row]
  BY DEF Send
<1>3. Ruled(task') /\ (cur = NoIssue => \A u \in Tasks : task'[u].phase # "meta")
  BY <1>2, NoLoad
<1>4. clicks' \in Nat /\ faults' \in Nat
  BY <1>1, Counters
<1>. QED BY <1>1, <1>3, <1>4, KeepStep DEF TypeOK

LEMMA Sends ==
    ASSUME IInv, \/ Change \/ RefreshClick \/ Tick
                 \/ \E i \in Issues : ShowAffectedUsers(i)
    PROVE  IInv'
<1>1. TypeOK /\ CurRule
  BY DEF IInv
<1>2. CASE Change
  <2>1. cur \in Issues
    BY <1>1, <1>2 DEF CurRule, Change, TypeOK
  <2>2. PICK what \in {"resolve", IF shown.suppressed THEN "unsuppress" ELSE "suppress"} :
          Send(Act(what))
    BY <1>2 DEF Change
  <2>3. RowRule(Act(what)) /\ Act(what).phase # "meta"
    BY <1>1, <2>1, ActRows
  <2>. QED BY <1>2, <2>2, <2>3, SendStep DEF Change
<1>3. CASE RefreshClick \/ Tick
  BY <1>3, RefreshRow, SendStep DEF RefreshClick, Tick
<1>4. ASSUME NEW i \in Issues, ShowAffectedUsers(i) PROVE IInv'
  <2> DEFINE p == IF "gone" \notin stats[i] THEN Home[i] ELSE sel
             row == [NoTask EXCEPT !.phase = "users", !.issue = i, !.project = p]
  <2>1. p \in Selections
    BY <1>1, ViewsAssumption DEF TypeOK, Selections
  <2>2. RowRule(row) /\ row.phase # "meta"
    <3> HIDE DEF p
    <3>. QED BY <2>1, UsersRow
  <2>3. Send(row)
    BY <1>4 DEF ShowAffectedUsers
  <2> HIDE DEF row
  <2>. QED BY <1>4, <2>2, <2>3, SendStep DEF ShowAffectedUsers
<1>. QED BY <1>2, <1>3, <1>4

LEMMA CloseModalStep ==
    ASSUME IInv, CloseModal
    PROVE  IInv'
<1>1. TypeOK /\ Click /\ modal' = NoIssue
      /\ UNCHANGED <<flags, sel, stats, filter, opened, shown, traced, actProject, task>>
  BY DEF IInv, CloseModal
<1>. QED BY <1>1, Counters, SameTasks, KeepStep DEF TypeOK

LEMMA OthersStep ==
    ASSUME IInv, NEW i \in Issues, Others(i)
    PROVE  IInv'
<1>1. TypeOK /\ Fault
      /\ UNCHANGED <<sel, stats, filter, opened, shown, traced, actProject, modal, task>>
  BY DEF IInv, Others
<1>2. flags' \in Snapshot
  BY <1>1 DEF Others, TypeOK, Snapshot, Flags
<1>. QED BY <1>1, <1>2, Counters, SameTasks, KeepStep DEF TypeOK

LEMMA OpenStep ==
    ASSUME IInv, NEW i \in Issues, OpenIssue(i)
    PROVE  IInv'
<1>1. /\ Click /\ ToIssue(i, NoProject) /\ Send(Load(i, NoProject))
      /\ UNCHANGED <<flags, sel, stats, traced, actProject, modal>>
  BY DEF OpenIssue
<1>2. TypeOK /\ Ruled(task)
  BY DEF IInv
<1>3. PICK t \in Tasks : task' = [task EXCEPT ![t] = Load(i, NoProject)]
  BY <1>1 DEF Send
<1>4. Ruled(task')
  BY <1>2, <1>3, LoadRow, RowSet, Typed
<1>. QED BY <1>1, <1>2, <1>4, Counters, GoStep DEF TypeOK

LEMMA DrillDownStep ==
    ASSUME IInv, DrillDown
    PROVE  IInv'
<1>1. TypeOK /\ Ruled(task)
  BY DEF IInv
<1>2. PICK p \in {Home[modal], sel} : ToIssue(modal, p) /\ Send(Load(modal, p))
  BY DEF DrillDown
<1>3. modal \in Issues /\ p \in Selections
  BY <1>1, ViewsAssumption DEF DrillDown, TypeOK, Selections
<1>4. PICK t \in Tasks : task' = [task EXCEPT ![t] = Load(modal, p)]
  BY <1>2 DEF Send
<1>5. Ruled(task')
  BY <1>1, <1>3, <1>4, LoadRow, RowSet, Typed
<1>6. Click /\ modal' = NoIssue /\ UNCHANGED <<flags, sel, stats, traced, actProject>>
  BY DEF DrillDown
<1>. QED BY <1>1, <1>2, <1>3, <1>5, <1>6, Counters, GoStep DEF TypeOK

LEMMA DeleteIssueStep ==
    ASSUME IInv, DeleteIssue
    PROVE  IInv'
<1>1. TypeOK /\ CurRule /\ filter \in FilterRec /\ stats \in Snapshot
  BY DEF IInv, TypeOK
<1>2. /\ Click /\ path' = "issues" /\ curProject' = NoProject /\ DrawList(filter, stats)
      /\ UNCHANGED <<flags, sel, stats, cur, traced, actProject, modal>>
      /\ shown.view = "page" /\ Send(Act("delete"))
  BY DEF DeleteIssue, ToList
<1>3. cur \in Issues
  BY <1>1, <1>2 DEF CurRule, TypeOK
<1>4. RowRule(Act("delete")) /\ Act("delete").phase # "meta"
  BY <1>1, <1>3, ActRows
<1>5. PICK t \in Tasks : task' = [task EXCEPT ![t] = Act("delete")]
  BY <1>2 DEF Send
<1>6. Ruled(task') /\ (cur = NoIssue => \A u \in Tasks : task'[u].phase # "meta")
  BY <1>4, <1>5, NoLoad
<1>. QED BY <1>1, <1>2, <1>6, Counters, DrawStep

-----------------------------------------------------------------------------
(* The page of an issue                                                    *)

LEMMA PageType ==
    ASSUME NEW t \in Tasks, NEW i \in Issues, NEW fl
    PROVE  Page(t, i, fl) \in ShownRec /\ Page(t, i, fl).view # "list"
<1> DEFINE s1 == [Fetching EXCEPT !.view = "page"]
           s2 == [s1 EXCEPT !.issue = i]
           s3 == [s2 EXCEPT !.load = t]
           s4 == [s3 EXCEPT !.suppressed = "suppressed" \in fl]
<1>1. Page(t, i, fl) = s4
  BY DEF Page
<1>2. s1 \in ShownRec /\ s1.view = "page"
  BY DEF Fetching, ShownRec
<1> HIDE DEF s1
<1>3. s2 \in ShownRec /\ s2.view = "page"
  BY <1>2 DEF ShownRec
<1> HIDE DEF s2
<1>4. s3 \in ShownRec /\ s3.view = "page"
  BY <1>3 DEF ShownRec
<1> HIDE DEF s3
<1>5. s4 \in ShownRec /\ s4.view = "page"
  <2>1. ("suppressed" \in fl) \in BOOLEAN
    OBVIOUS
  <2>. QED BY <1>4, <2>1 DEF ShownRec
<1> HIDE DEF s4
<1>. QED BY <1>1, <1>5

LEMMA MetaLandsStep ==
    ASSUME IInv, NEW t \in Tasks, MetaLands(t)
    PROVE  IInv'
<1> DEFINE k == task[t]
           guess == IF k.first = All THEN CHOOSE p \in Projects : TRUE ELSE k.first
           moved == [k EXCEPT !.phase = "events"]
<1>1. TypeOK /\ CurRule /\ Ruled(task) /\ task \in [Tasks -> TaskRec]
  BY DEF IInv, Ruled
<1>2. /\ k.phase = "meta" /\ RowRule(k) /\ k \in TaskRec /\ k.issue \in Issues
      /\ k.project \in Selections /\ k.first \in Selections
  BY <1>1 DEF MetaLands, Ruled, RowRule
<1>3. cur \in Issues /\ cur # NoIssue
  BY <1>1, <1>2, ViewsAssumption DEF CurRule, TypeOK
<1>4. UNCHANGED <<flags, sel, stats, filter, opened, traced, modal>> /\ (Quiet \/ Fault)
  BY DEF MetaLands
<1>5. clicks' \in Nat /\ faults' \in Nat
  BY <1>1, <1>4, Counters
<1>6. RowRule(moved) /\ moved \in TaskRec /\ moved.phase = "events" /\ moved.what = k.what
      /\ moved.issue = k.issue
  BY <1>2, PhaseRow DEF RowRule, TaskRec
<1>7. CASE /\ shown' = Page(t, k.issue, flags[k.issue]) /\ actProject' = k.project
           /\ k.project = Home[k.issue]
           /\ task' = [task EXCEPT ![t].phase = "events"]
  <2>1. task' = [task EXCEPT ![t] = moved]
    BY <1>7
  <2>2. Ruled(task')
    BY <1>1, <1>6, <2>1, RowSet
  <2>3. shown' \in ShownRec /\ shown'.view # "list"
    BY <1>2, <1>7, PageType
  <2>4. actProject' \in Projects
    BY <1>2, <1>7, ViewsAssumption
  <2>. QED BY <1>1, <1>3, <1>4, <1>5, <2>2, <2>3, <2>4, KeepStep DEF TypeOK
<1>8. ASSUME NEW p \in k.left, task' = [task EXCEPT ![t].project = p, ![t].left = @ \ {p}],
             UNCHANGED <<shown, actProject>>
      PROVE  IInv'
  <2> DEFINE r1 == [k EXCEPT !.project = p]
             r2 == [r1 EXCEPT !.left = k.left \ {p}]
  <2>1. p \in Projects /\ k.left \in SUBSET Projects
    BY <1>2, <1>8 DEF TaskRec
  <2>2. task' = [task EXCEPT ![t] = r2]
    BY <1>1, <1>2, <1>8 DEF TaskRec
  <2>3. /\ r1 \in TaskRec /\ r1.phase = "meta" /\ r1.issue = k.issue /\ r1.project = p
        /\ r1.first = k.first
    BY <1>2, <2>1 DEF TaskRec, Selections
  <2> HIDE DEF r1
  <2>4. /\ r2 \in TaskRec /\ r2.phase = "meta" /\ r2.issue = k.issue /\ r2.project = p
        /\ r2.first = k.first
    BY <2>1, <2>3 DEF TaskRec
  <2> HIDE DEF r2
  <2>5. RowRule(r2)
    BY <1>2, <2>1, <2>4 DEF RowRule, Selections
  <2>6. Ruled(task')
    BY <1>1, <2>2, <2>5, RowSet
  <2>. QED BY <1>1, <1>3, <1>4, <1>5, <1>8, <2>6, KeepStep DEF TypeOK
<1>9. CASE /\ shown' = Page(t, k.issue, {}) /\ actProject' = guess
           /\ task' = [task EXCEPT ![t].phase = "events", ![t].project = guess]
  <2> DEFINE r2 == [moved EXCEPT !.project = guess]
  <2>1. guess \in Projects
    BY <1>2, ViewsAssumption DEF Selections
  <2> HIDE DEF guess
  <2>2. task' = [task EXCEPT ![t] = r2]
    BY <1>1, <1>9
  <2> HIDE DEF moved
  <2>3. r2 \in TaskRec /\ r2.phase = "events" /\ r2.what = k.what /\ r2.issue = k.issue
    BY <1>6, <2>1 DEF TaskRec, Selections
  <2> HIDE DEF r2
  <2>4. RowRule(r2)
    BY <1>2, <2>3 DEF RowRule
  <2>5. Ruled(task')
    BY <1>1, <2>2, <2>4, RowSet
  <2>6. shown' \in ShownRec /\ shown'.view # "list"
    BY <1>2, <1>9, PageType
  <2>. QED BY <1>1, <1>3, <1>4, <1>5, <1>9, <2>1, <2>5, <2>6, KeepStep DEF TypeOK
<1>10. \/ /\ shown' = Page(t, k.issue, flags[k.issue]) /\ actProject' = k.project
          /\ k.project = Home[k.issue]
          /\ task' = [task EXCEPT ![t].phase = "events"]
       \/ \E p \in k.left : /\ task' = [task EXCEPT ![t].project = p, ![t].left = @ \ {p}]
                            /\ UNCHANGED <<shown, actProject>>
       \/ /\ shown' = Page(t, k.issue, {}) /\ actProject' = guess
          /\ task' = [task EXCEPT ![t].phase = "events", ![t].project = guess]
  BY Zenon DEF MetaLands
<1> HIDE DEF moved, guess, k
<1>. QED BY <1>7, <1>8, <1>9, <1>10

LEMMA EventsLandStep ==
    ASSUME IInv, NEW t \in Tasks, EventsLand(t)
    PROVE  IInv'
<1>1. TypeOK /\ CurRule /\ Ruled(task) /\ task \in [Tasks -> TaskRec] /\ RowRule(task[t])
  BY DEF IInv, Ruled
<1>2. /\ UNCHANGED <<flags, sel, stats, filter, opened, traced, actProject, modal>>
      /\ Quiet \/ Fault
  BY DEF EventsLand
<1>3. clicks' \in Nat /\ faults' \in Nat
  BY <1>1, <1>2, Counters
<1>4. PICK row : RowRule(row) /\ row.phase # "meta" /\ task' = [task EXCEPT ![t] = row]
  <2> DEFINE r == [task[t] EXCEPT !.phase = "payload"]
  <2>1. RowRule(r) /\ r.phase # "meta"
    BY <1>1, PhaseRow
  <2>2. CASE task' = [task EXCEPT ![t].phase = "payload"]
    BY <2>1, <2>2
  <2>3. CASE task' = [task EXCEPT ![t] = NoTask]
    <3>1. RowRule(NoTask) /\ NoTask.phase # "meta"
      BY IdleRow
    <3>. QED BY <2>3, <3>1
  <2>. QED BY <2>2, <2>3 DEF EventsLand
<1>5. Ruled(task') /\ (cur = NoIssue => \A u \in Tasks : task'[u].phase # "meta")
  BY <1>4, NoLoad
<1>6. \/ shown' = shown
      \/ /\ cur \in Issues /\ shown' \in ShownRec /\ shown'.view # "list"
  <2>1. CASE shown.view = "page" /\ shown' = [shown EXCEPT !.tab = "none", !.body = NoIssue]
    <3> DEFINE s1 == [shown EXCEPT !.tab = "none"]
               s2 == [s1 EXCEPT !.body = NoIssue]
    <3>1. s1 \in ShownRec /\ s1.view = "page"
      BY <1>1, <2>1, Typed DEF ShownRec
    <3>2. shown' = s2
      BY <2>1
    <3> HIDE DEF s1
    <3>3. s2 \in ShownRec /\ s2.view = "page"
      BY <3>1 DEF ShownRec
    <3> HIDE DEF s2
    <3>4. cur \in Issues
      BY <1>1, <2>1 DEF CurRule, TypeOK
    <3>. QED BY <3>2, <3>3, <3>4
  <2>2. CASE shown' = shown
    BY <2>2
  <2>. QED BY <2>1, <2>2 DEF EventsLand
<1>. QED BY <1>1, <1>2, <1>3, <1>5, <1>6, KeepStep DEF TypeOK

\* A tab drawn in the page that is there.
LEMMA TabStep ==
    ASSUME IInv, shown.view = "page", NEW s \in ShownRec, s.view = "page",
           NEW i \in Issues \cup {NoIssue}, NEW tab \in Tabs, ShowTab(s, i, tab),
           Ruled(task'), cur = NoIssue => \A u \in Tasks : task'[u].phase # "meta",
           UNCHANGED <<flags, sel, stats, filter, opened, actProject, modal>>,
           clicks' \in Nat, faults' \in Nat
    PROVE  IInv'
<1>1. TypeOK /\ CurRule
  BY DEF IInv
<1>2. cur \in Issues
  BY <1>1 DEF CurRule, TypeOK
<1> DEFINE s1 == [s EXCEPT !.tab = tab]
           s2 == [s1 EXCEPT !.body = i]
<1>3. s1 \in ShownRec /\ s1.view = "page"
  BY DEF ShownRec
<1>4. shown' = s2 /\ traced' \in {i, traced}
  BY DEF ShowTab
<1> HIDE DEF s1
<1>5. s2 \in ShownRec /\ s2.view = "page"
  BY <1>3 DEF ShownRec
<1> HIDE DEF s2
<1>6. traced' \in Issues \cup {NoIssue}
  BY <1>1, <1>4 DEF TypeOK
<1>. QED BY <1>1, <1>2, <1>4, <1>5, <1>6, KeepStep DEF TypeOK

LEMMA PayloadLandsStep ==
    ASSUME IInv, NEW t \in Tasks, PayloadLands(t)
    PROVE  IInv'
<1> DEFINE k == task[t]
           owned == IF shown.load = t THEN [shown EXCEPT !.own = k.issue] ELSE shown
<1>1. TypeOK /\ Ruled(task) /\ k \in TaskRec /\ k.issue \in Issues \cup {NoIssue}
      /\ shown \in ShownRec
  BY Typed DEF IInv, Ruled, TaskRec
<1>2. /\ task' = [task EXCEPT ![t] = NoTask] /\ (Quiet \/ Fault)
      /\ UNCHANGED <<flags, sel, stats, filter, opened, actProject, modal>>
  BY DEF PayloadLands
<1>3. clicks' \in Nat /\ faults' \in Nat
  BY <1>1, <1>2, Counters
<1>4. Ruled(task') /\ (cur = NoIssue => \A u \in Tasks : task'[u].phase # "meta")
  BY <1>2, IdleRow, NoLoad
<1>5. CASE shown.view = "page" /\ ShowTab(owned, k.issue, "highlights")
  <2>1. owned \in ShownRec /\ owned.view = "page"
    BY <1>1, <1>5 DEF ShownRec
  <2> HIDE DEF owned
  <2>. QED BY <1>1, <1>2, <1>3, <1>4, <1>5, <2>1, TabStep DEF Tabs, TraceTabs
<1>6. CASE shown' = shown /\ traced' \in {k.issue, traced}
  <2>1. traced' \in Issues \cup {NoIssue}
    BY <1>1, <1>6 DEF TypeOK
  <2>. QED BY <1>1, <1>2, <1>3, <1>4, <1>6, <2>1, KeepStep DEF TypeOK
<1>. QED BY <1>5, <1>6 DEF PayloadLands

LEMMA ClickTabStep ==
    ASSUME IInv, ClickTab \/ SetStackTraceOrder
    PROVE  IInv'
<1>1. TypeOK /\ shown \in ShownRec /\ shown.own \in Issues \cup {NoIssue}
      /\ traced \in Issues \cup {NoIssue}
  BY Typed DEF IInv, ShownRec, TypeOK
<1>2. /\ Click /\ shown.view = "page"
      /\ UNCHANGED <<flags, sel, stats, filter, opened, actProject, modal, task>>
  BY DEF ClickTab, SetStackTraceOrder
<1>3. PICK i \in Issues \cup {NoIssue}, tab \in Tabs : ShowTab(shown, i, tab)
  BY <1>1 DEF ClickTab, SetStackTraceOrder, Tabs, TraceTabs
<1>4. clicks' \in Nat /\ faults' \in Nat
  BY <1>1, <1>2, Counters
<1>. QED BY <1>1, <1>2, <1>3, <1>4, SameTasks, TabStep

-----------------------------------------------------------------------------
(* Actions, refreshes and users                                            *)

LEMMA ActLandsStep ==
    ASSUME IInv, NEW t \in Tasks, ActLands(t)
    PROVE  IInv'
<1> DEFINE k == task[t]
           row == [k EXCEPT !.phase = "asked"]
<1>1. TypeOK /\ Ruled(task) /\ RowRule(k) /\ k \in TaskRec
  BY DEF IInv, Ruled, RowRule
<1>2. /\ k.phase = "act" /\ task' = [task EXCEPT ![t] = row] /\ (Quiet \/ Fault)
      /\ UNCHANGED <<sel, stats, filter, opened, shown, traced, actProject, modal>>
  BY DEF ActLands
<1>3. clicks' \in Nat /\ faults' \in Nat
  BY <1>1, <1>2, Counters
<1>4. RowRule(row) /\ row.phase # "meta"
  BY <1>1, PhaseRow
<1> HIDE DEF row
<1>5. Ruled(task') /\ (cur = NoIssue => \A u \in Tasks : task'[u].phase # "meta")
  BY <1>2, <1>4, NoLoad
<1>6. flags' \in Snapshot
  <2>1. k.issue \in Issues /\ k.what \in {"resolve", "suppress", "unsuppress", "delete"}
    BY <1>1, <1>2 DEF RowRule, TaskRec
  <2>2. flags \in [Issues -> SUBSET Flags]
    BY <1>1 DEF TypeOK, Snapshot
  <2>3. After(k.what, flags[k.issue]) \in SUBSET Flags
    <3>1. flags[k.issue] \in SUBSET Flags
      BY <2>1, <2>2
    <3>. QED BY <2>1, <3>1 DEF After, Flags
  <2>4. flags' = flags \/ flags' = [flags EXCEPT ![k.issue] = After(k.what, flags[k.issue])]
    BY DEF ActLands
  <2> HIDE DEF k
  <2>. QED BY <2>1, <2>2, <2>3, <2>4 DEF Snapshot
<1>. QED BY <1>1, <1>2, <1>3, <1>5, <1>6, KeepStep DEF TypeOK

LEMMA ServedStep ==
    ASSUME IInv, NEW t \in Tasks, Served(t)
    PROVE  IInv'
<1> DEFINE k == task[t]
           r1 == [k EXCEPT !.phase = "served"]
<1>1. TypeOK /\ Ruled(task) /\ task \in [Tasks -> TaskRec] /\ RowRule(k) /\ k \in TaskRec
  BY DEF IInv, Ruled, RowRule
<1>2. /\ UNCHANGED <<flags, sel, stats, filter, opened, shown, traced, actProject, modal>>
      /\ (Quiet \/ Fault)
  BY DEF Served
<1>3. PICK st \in Snapshot : task' = [task EXCEPT ![t].phase = "served", ![t].stats = st]
  <2> DEFINE yes == [i \in Issues |->
                        IF sel \in {All, Home[i]} THEN flags[i] \ {"empty"} ELSE {"gone"}]
             no == [i \in Issues |-> {"gone"}]
  <2>1. yes \in Snapshot /\ no \in Snapshot
    BY <1>1 DEF Snapshot, Flags, TypeOK
  <2>2. \/ task' = [task EXCEPT ![t].phase = "served", ![t].stats = yes]
        \/ task' = [task EXCEPT ![t].phase = "served", ![t].stats = no]
    BY DEF Served
  <2> HIDE DEF yes, no
  <2>. QED BY <2>1, <2>2
<1> DEFINE r2 == [r1 EXCEPT !.stats = st]
<1>4. task' = [task EXCEPT ![t] = r2]
  BY <1>1, <1>3
<1>5. r1 \in TaskRec /\ r1.phase = "served" /\ r1.what = k.what /\ r1.issue = k.issue
  BY <1>1 DEF TaskRec
<1> HIDE DEF r1
<1>6. r2 \in TaskRec /\ r2.phase = "served" /\ r2.what = k.what /\ r2.issue = k.issue
  BY <1>3, <1>5 DEF TaskRec
<1> HIDE DEF r2
<1>7. RowRule(r2) /\ r2.phase # "meta"
  BY <1>1, <1>6 DEF RowRule
<1>8. Ruled(task') /\ (cur = NoIssue => \A u \in Tasks : task'[u].phase # "meta")
  BY <1>4, <1>7, NoLoad
<1>9. clicks' \in Nat /\ faults' \in Nat
  BY <1>1, <1>2, Counters
<1>. QED BY <1>1, <1>2, <1>8, <1>9, KeepStep DEF TypeOK

LEMMA UsersLandStep ==
    ASSUME IInv, NEW t \in Tasks, UsersLand(t)
    PROVE  IInv'
<1>1. TypeOK /\ Ruled(task) /\ task[t].issue \in Issues \cup {NoIssue}
  BY DEF IInv, Ruled, TaskRec
<1>2. /\ task' = [task EXCEPT ![t] = NoTask] /\ (Quiet \/ Fault)
      /\ modal' \in {task[t].issue, modal}
      /\ UNCHANGED <<flags, sel, stats, filter, opened, shown, traced, actProject>>
  BY DEF UsersLand
<1>3. clicks' \in Nat /\ faults' \in Nat /\ modal' \in Issues \cup {NoIssue}
  BY <1>1, <1>2, Counters DEF TypeOK
<1>4. Ruled(task') /\ (cur = NoIssue => \A u \in Tasks : task'[u].phase # "meta")
  BY <1>2, IdleRow, NoLoad
<1>. QED BY <1>1, <1>2, <1>3, <1>4, KeepStep DEF TypeOK

\* The one step that changes the issues of the store: it draws the list from
\* them, or has the page of an issue displayed.
LEMMA RefreshLandsStep ==
    ASSUME IInv, NEW t \in Tasks, RefreshLands(t)
    PROVE  IInv'
<1> DEFINE k == task[t]
           again == IF path = "issue_detail" THEN Load(cur, curProject) ELSE NoTask
           freed == [task EXCEPT ![t] = again]
<1>1. /\ TypeOK /\ CurRule /\ Ruled(task) /\ RowRule(k) /\ k \in TaskRec
      /\ k.stats \in Snapshot /\ filter \in FilterRec /\ sel \in Selections
      /\ k.project \in Selections \cup {NoProject}
      /\ curProject \in Selections \cup {NoProject}
  BY DEF IInv, Ruled, RowRule, TaskRec, TypeOK
<1>2. stats' = k.stats /\ Quiet /\ UNCHANGED <<flags, sel, traced, actProject, modal>>
  BY DEF RefreshLands
<1>3. clicks' \in Nat /\ faults' \in Nat
  BY <1>1, <1>2, Counters
<1>4. path = "issue_detail" => cur \in Issues
  BY <1>1 DEF CurRule, TypeOK
<1>5. RowRule(again)
  BY <1>1, <1>4, LoadRow, IdleRow
<1>6. Ruled(freed)
  <2> HIDE DEF again
  <2>. QED BY <1>1, <1>5, RowSet
<1>7. cur = NoIssue => \A u \in Tasks : freed[u].phase # "meta"
  <2>1. ASSUME cur = NoIssue PROVE again = NoTask
    BY <1>1, <2>1 DEF CurRule
  <2>2. \A u \in Tasks : freed[u] = IF u = t THEN again ELSE task[u]
    BY <1>1 DEF Ruled
  <2>. QED BY <1>1, <2>1, <2>2, IdleRow DEF CurRule
<1>8. CASE /\ path' \in {path, "issues"} /\ curProject' \in {curProject, NoProject} /\ cur' = cur
           /\ task' = freed /\ DrawList(filter, k.stats)
  <2> HIDE DEF freed, k
  <2>. QED BY <1>1, <1>2, <1>3, <1>6, <1>7, <1>8, DrawStep
<1>9. CASE again # NoTask /\ shown' = Fetching /\ task' = freed /\ UNCHANGED <<filter, opened>>
  <2>1. path = "issue_detail" /\ cur \in Issues
    BY <1>4, <1>9
  <2>2. ToIssue(cur, curProject)
    BY <1>9, <2>1 DEF ToIssue, opened
  <2>3. modal' \in Issues \cup {NoIssue}
    BY <1>1, <1>2 DEF TypeOK
  <2> HIDE DEF freed, again, k
  <2>. QED BY <1>1, <1>2, <1>3, <1>6, <1>9, <2>1, <2>2, <2>3, GoStep
<1>10. CASE /\ k.what \in {"suppress", "unsuppress"} /\ ToIssue(k.issue, k.project)
            /\ \E u \in Tasks : task' = [freed EXCEPT ![u] = Load(k.issue, k.project)]
  <2>1. k.issue \in Issues
    BY <1>1, <1>10 DEF RowRule
  <2>2. PICK u \in Tasks : task' = [freed EXCEPT ![u] = Load(k.issue, k.project)]
    BY <1>10
  <2>3. RowRule(Load(k.issue, k.project))
    BY <1>1, <2>1, LoadRow
  <2> HIDE DEF freed, k
  <2>4. Ruled(task')
    BY <1>6, <2>2, <2>3, RowSet
  <2>5. modal' \in Issues \cup {NoIssue}
    BY <1>1, <1>2 DEF TypeOK
  <2>. QED BY <1>1, <1>2, <1>3, <1>10, <2>1, <2>4, <2>5, GoStep
<1>11. \/ /\ path' \in {path, "issues"} /\ curProject' \in {curProject, NoProject} /\ cur' = cur
          /\ task' = freed /\ DrawList(filter, k.stats)
       \/ again # NoTask /\ shown' = Fetching /\ task' = freed /\ UNCHANGED <<filter, opened>>
       \/ /\ k.what \in {"suppress", "unsuppress"} /\ ToIssue(k.issue, k.project)
          /\ \E u \in Tasks : task' = [freed EXCEPT ![u] = Load(k.issue, k.project)]
  <2>1. CASE /\ k.what \in {"none", "delete"} /\ UNCHANGED opened
             /\ IF again = NoTask THEN DrawList(filter, k.stats)
                ELSE shown' = Fetching /\ UNCHANGED filter
             /\ task' = freed
    <3> HIDE DEF k, again, freed
    <3>. QED BY <2>1 DEF opened
  <2>2. CASE /\ k.what = "resolve" /\ task' = freed
             /\ path' = "issues" /\ curProject' = NoProject /\ UNCHANGED cur
             /\ DrawList(filter, k.stats)
    <3> HIDE DEF k, again, freed
    <3>. QED BY <2>2
  <2>3. CASE /\ k.what \in {"suppress", "unsuppress"} /\ ToIssue(k.issue, k.project)
             /\ \E u \in Tasks : /\ Free(freed, u)
                                 /\ task' = [freed EXCEPT ![u] = Load(k.issue, k.project)]
    <3> HIDE DEF k, again, freed
    <3>. QED BY <2>3
  <2>. QED BY <2>1, <2>2, <2>3, Zenon DEF RefreshLands
<1> HIDE DEF freed, again, k
<1>. QED BY <1>8, <1>9, <1>10, <1>11

-----------------------------------------------------------------------------
(* The invariant                                                           *)

LEMMA StepIInv == IInv /\ [Next]_vars => IInv'
<1> SUFFICES ASSUME IInv, [Next]_vars PROVE IInv'
  OBVIOUS
<1>1. ASSUME NEW t \in Tasks, Answer(t) PROVE IInv'
  BY <1>1, MetaLandsStep, EventsLandStep, PayloadLandsStep, ActLandsStep, ServedStep,
     RefreshLandsStep, UsersLandStep DEF Answer
<1>2. ASSUME NEW i \in Issues, OpenIssue(i) \/ ShowAffectedUsers(i) \/ Others(i) PROVE IInv'
  BY <1>2, OpenStep, Sends, OthersStep
<1>3. CASE Filter \/ ChangeIssuesPage \/ Back
  BY <1>3, FilterStep, ChangePageStep, BackStep
<1>4. CASE ClickTab \/ SetStackTraceOrder
  BY <1>4, ClickTabStep
<1>5. CASE Change \/ RefreshClick \/ Tick
  BY <1>5, Sends
<1>6. CASE DeleteIssue \/ CloseModal \/ DrillDown
  BY <1>6, DeleteIssueStep, CloseModalStep, DrillDownStep
<1>7. CASE UNCHANGED vars
  <2>1. UNCHANGED <<flags, sel, stats, filter, opened, shown, traced, actProject, modal, task,
                    clicks, faults>>
    BY <1>7 DEF vars
  <2>2. TypeOK
    BY DEF IInv
  <2>. QED BY <2>1, <2>2, SameTasks, KeepStep DEF TypeOK
<1>. QED BY <1>1, <1>2, <1>3, <1>4, <1>5, <1>6, <1>7 DEF Next

-----------------------------------------------------------------------------
(* The spinner of an issue                                                 *)

\* Loads that have not found their issue yet go on, and no spinner comes.
LEMMA AwaitKept ==
    ASSUME FetchIsAwaited, UNCHANGED cur, shown'.view = "fetching" => shown.view = "fetching",
           \A u \in Tasks : task[u].phase = "meta" =>
                task'[u].phase = "meta" /\ task'[u].issue = task[u].issue
    PROVE  FetchIsAwaited'
BY DEF FetchIsAwaited

\* One request goes on, which is not such a load.
LEMMA AwaitRow ==
    ASSUME TypeOK, FetchIsAwaited, UNCHANGED cur,
           shown'.view = "fetching" => shown.view = "fetching",
           NEW t \in Tasks, task[t].phase # "meta",
           NEW k, task' = [task EXCEPT ![t] = k]
    PROVE  FetchIsAwaited'
<1>1. \A u \in Tasks : u # t => task'[u] = task[u]
  BY DEF TypeOK
<1>. QED BY <1>1, AwaitKept

\* A new request takes the place of none.
LEMMA AwaitSend ==
    ASSUME TypeOK, FetchIsAwaited, UNCHANGED <<cur, shown>>, NEW k, Send(k)
    PROVE  FetchIsAwaited'
<1>1. PICK t \in Tasks : task[t] = NoTask /\ task' = [task EXCEPT ![t] = k]
  BY DEF Send, Free
<1>2. task[t].phase # "meta"
  BY <1>1 DEF NoTask
<1>. QED BY <1>1, <1>2, AwaitRow

\* A load of the issue that is opened begins.
LEMMA AwaitLoad ==
    ASSUME NEW tk, tk \in [Tasks -> TaskRec], NEW u \in Tasks, NEW p,
           task' = [tk EXCEPT ![u] = Load(cur', p)]
    PROVE  FetchIsAwaited'
<1>1. task'[u] = Load(cur', p)
  OBVIOUS
<1>2. task'[u].phase = "meta" /\ task'[u].issue = cur'
  BY <1>1 DEF Load, NoTask
<1>. QED BY <1>2 DEF FetchIsAwaited

LEMMA StepAwaited ==
    ASSUME TypeOK, FetchIsAwaited, [Next]_vars
    PROVE  FetchIsAwaited'
<1>d. ASSUME NEW f, NEW st, DrawList(f, st) PROVE FetchIsAwaited'
  BY <1>d DEF DrawList, Fetching, FetchIsAwaited
<1>v. ASSUME shown'.view # "fetching" PROVE FetchIsAwaited'
  BY <1>v DEF FetchIsAwaited
<1>t. task \in [Tasks -> TaskRec] /\ shown \in ShownRec
  BY DEF TypeOK
<1>1. ASSUME NEW t \in Tasks, MetaLands(t) PROVE FetchIsAwaited'
  <2>1. CASE \E i, fl : shown' = Page(t, i, fl)
    BY <2>1, <1>v DEF Page, Fetching
  <2>2. CASE UNCHANGED <<shown, cur>>
             /\ \E p : task' = [task EXCEPT ![t].project = p, ![t].left = @ \ {p}]
    <3>1. PICK p : task' = [task EXCEPT ![t].project = p, ![t].left = @ \ {p}]
      BY <2>2
    <3>2. \A u \in Tasks : task'[u].phase = task[u].phase /\ task'[u].issue = task[u].issue
      BY <1>t, <3>1 DEF TaskRec
    <3>. QED BY <2>2, <3>2, AwaitKept
  <2>. QED BY <1>1, <2>1, <2>2 DEF MetaLands, opened
<1>2. ASSUME NEW t \in Tasks, EventsLand(t) PROVE FetchIsAwaited'
  <2>1. task[t].phase # "meta" /\ UNCHANGED cur
        /\ (UNCHANGED shown \/ shown'.view # "fetching")
    BY <1>2, <1>t DEF EventsLand, opened, ShownRec
  <2>2. \E k : task' = [task EXCEPT ![t] = k]
    BY <1>2 DEF EventsLand
  <2>. QED BY <2>1, <2>2, AwaitRow
<1>3. ASSUME NEW t \in Tasks, PayloadLands(t) PROVE FetchIsAwaited'
  <2>1. task[t].phase # "meta" /\ UNCHANGED cur /\ task' = [task EXCEPT ![t] = NoTask]
    BY <1>3 DEF PayloadLands, opened
  <2>2. CASE UNCHANGED shown
    BY <2>1, <2>2, AwaitRow
  <2>3. CASE shown.view = "page" /\ ShowTab(IF shown.load = t THEN [shown EXCEPT !.own = task[t].issue]
                                           ELSE shown, task[t].issue, "highlights")
    <3>1. shown'.view = "page"
      BY <1>t, <2>3 DEF ShowTab, ShownRec
    <3>. QED BY <3>1, <1>v
  <2>. QED BY <1>3, <2>2, <2>3 DEF PayloadLands
<1>4. ASSUME NEW t \in Tasks, ActLands(t) \/ Served(t) \/ UsersLand(t) PROVE FetchIsAwaited'
  <2>1. task[t].phase # "meta" /\ UNCHANGED <<cur, shown>>
    BY <1>4 DEF ActLands, Served, UsersLand, opened
  <2>2. \E k : task' = [task EXCEPT ![t] = k]
    BY <1>4 DEF ActLands, Served, UsersLand
  <2>. QED BY <2>1, <2>2, AwaitRow
<1>5. ASSUME NEW t \in Tasks, RefreshLands(t) PROVE FetchIsAwaited'
  <2> DEFINE again == IF path = "issue_detail" THEN Load(cur, curProject) ELSE NoTask
             freed == [task EXCEPT ![t] = again]
  <2>1. CASE \E f, st : DrawList(f, st)
    BY <2>1, <1>d
  <2>2. CASE again # NoTask /\ UNCHANGED opened /\ task' = freed
    <3>1. again = Load(cur', curProject)
      BY <2>2 DEF opened
    <3>. QED BY <1>t, <2>2, <3>1, AwaitLoad
  <2>3. CASE \E u \in Tasks : task' = [freed EXCEPT ![u] = Load(task[t].issue, task[t].project)]
                              /\ cur' = task[t].issue
    <3>1. PICK u \in Tasks : task' = [freed EXCEPT ![u] = Load(cur', task[t].project)]
      BY <2>3
    <3>2. PICK row : row = again
      OBVIOUS
    <3>3. task'[u] = Load(cur', task[t].project)
      BY <1>t, <3>1
    <3>4. task'[u].phase = "meta" /\ task'[u].issue = cur'
      BY <3>3 DEF Load, NoTask
    <3>. QED BY <3>4 DEF FetchIsAwaited
  <2>. QED BY <1>5, <2>1, <2>2, <2>3 DEF RefreshLands, ToIssue
<1>6. ASSUME NEW i \in Issues, OpenIssue(i) PROVE FetchIsAwaited'
  BY <1>6, <1>t, AwaitLoad DEF OpenIssue, ToIssue, Send
<1>7. CASE DrillDown
  BY <1>7, <1>t, AwaitLoad DEF DrillDown, ToIssue, Send
<1>8. CASE Filter \/ ChangeIssuesPage \/ Back \/ DeleteIssue
  BY <1>8, <1>d DEF Filter, ChangeIssuesPage, Back, DeleteIssue, ToList
<1>9. CASE Change \/ RefreshClick \/ Tick \/ \E i \in Issues : ShowAffectedUsers(i)
  <2>1. UNCHANGED <<cur, shown>> /\ \E k : Send(k)
    BY <1>9 DEF Change, RefreshClick, Tick, ShowAffectedUsers, opened
  <2>. QED BY <2>1, AwaitSend
<1>10. CASE ClickTab \/ SetStackTraceOrder
  <2>1. shown'.view = shown.view /\ UNCHANGED <<cur, task>>
    BY <1>10, <1>t DEF ClickTab, SetStackTraceOrder, ShowTab, opened, ShownRec
  <2>. QED BY <2>1, AwaitKept
<1>11. CASE CloseModal \/ UNCHANGED vars \/ \E i \in Issues : Others(i)
  <2>1. UNCHANGED <<cur, shown, task>>
    BY <1>11 DEF CloseModal, vars, Others, opened
  <2>. QED BY <2>1, AwaitKept
<1>. QED BY <1>1, <1>2, <1>3, <1>4, <1>5, <1>6, <1>7, <1>8, <1>9, <1>10, <1>11 DEF Next, Answer

-----------------------------------------------------------------------------
\* Whatever loads, actions and refreshes overlap, the list on display is the one
\* of the store's issues and filter, on a page that exists, with a row if there
\* is an issue to show (renderIssueList); and whenever the page of an issue shows
\* its spinner, a load of that issue is still looking for it, whatever other loads
\* drew, failed or were drawn over (renderIssueDetail, navigate).
THEOREM ViewsTheorem == Spec => []ViewsHold
<1>1. Init => FetchIsAwaited
  BY DEF Init, FetchIsAwaited, Fetching
<1>2. IInv => TypeOK
  BY DEF IInv
<1>3. IInv /\ FetchIsAwaited => ViewsHold
  BY DEF IInv, ListRule, ViewsHold
<1>. QED BY <1>1, <1>2, <1>3, InitIInv, StepIInv, StepAwaited, PTL DEF Spec
=============================================================================
