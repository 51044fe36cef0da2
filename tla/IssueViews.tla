----------------------------- MODULE IssueViews -----------------------------
(***************************************************************************)
(* The list of issues, the page of one issue and the actions on it         *)
(* (views/issues.js, views/detail.js, showAffectedUsers of app.js), in the *)
(* tab of an administrator.  WebShell has the rest of the page.            *)
(*                                                                         *)
(* renderIssueDetail asks for the issue, for its events and for one        *)
(* payload, and writes into the same container before and between these    *)
(* awaits: nothing cancels a load whose page was left, so the answers of   *)
(* several loads meet in one page.                                         *)
(***************************************************************************)
EXTENDS Pagination, Sequences, FiniteSets

CONSTANTS
    Issues, Projects,
    Home,               \* the project of an issue; its id starts with it
    Framed,             \* issues whose events have a stack trace
    Orders,             \* the orders the sort keys give, each of all issues
    Searches,           \* what texts of the search field match
    Limits,             \* rows per page
    Order0, Limit0,     \* the order and the page size to begin with
    MaxTasks,           \* bound: chains of requests in flight
    MaxClicks,          \* bound: what the user does
    MaxFaults,          \* bound: requests that fail, changes by others
    NoIssue, NoProject, All

Tasks == 1..MaxTasks
Selections == Projects \cup {All}
\* "gone" in a snapshot: not listed.
Flags == {"resolved", "suppressed", "empty", "gone"}
Statuses == {"all", "unhandled", "resolved", "suppressed"}
TraceTabs == {"highlights", "stacktrace"}
Tabs == TraceTabs \cup {"tags"}     \* stands for breadcrumbs, tags and context

ASSUME ViewsAssumption ==
    /\ Projects # {} /\ Home \in [Issues -> Projects] /\ Framed \subseteq Issues
    /\ Orders \subseteq Seq(Issues) /\ Order0 \in Orders /\ Searches \subseteq SUBSET Issues
    /\ Issues \in Searches /\ Limits \subseteq Nat \ {0} /\ Limit0 \in Limits
    /\ NoIssue \notin Issues /\ NoProject \notin Selections /\ All \notin Projects
    /\ MaxTasks \in Nat \ {0} /\ MaxClicks \in Nat /\ MaxFaults \in Nat

VARIABLES
    flags,      \* server: the state of each issue
    sel,        \* store.currentProjectId
    stats,      \* store.stats.issues
    filter,     \* store.filters
    path,       \* store.currentPath
    cur, curProject,    \* store.currentIssueId, store.currentIssueProjectId
    shown,      \* what #view-content displays
    traced,     \* window.currentEventDataForStackTrace
    actProject, \* window.activeIssueProjectId
    modal,      \* the issue whose users the modal lists
    task,       \* requests in flight
    clicks, faults

opened == <<path, cur, curProject>>
vars == <<flags, sel, stats, filter, opened, shown, traced, actProject, modal, task, clicks, faults>>

NoTask == [phase |-> "idle", issue |-> NoIssue, project |-> NoProject, first |-> NoProject,
           left |-> {}, what |-> "none", stats |-> [i \in Issues |-> {}]]

Fetching == [view |-> "fetching", rows |-> {}, total |-> 0, issue |-> NoIssue, load |-> 0,
             suppressed |-> FALSE, tab |-> "wait", body |-> NoIssue, own |-> NoIssue]

Click == clicks < MaxClicks /\ clicks' = clicks + 1 /\ UNCHANGED faults
Fault == faults < MaxFaults /\ faults' = faults + 1 /\ UNCHANGED clicks
Quiet == UNCHANGED <<clicks, faults>>
----------------------------------------------------------------------------
(* The list *)

HasStatus(fl, status) ==
    CASE status = "all" -> TRUE
      [] status = "resolved" -> "resolved" \in fl
      [] status = "unhandled" -> fl \cap {"resolved", "suppressed"} = {}
      [] status = "suppressed" -> "suppressed" \in fl

Matching(f, st) ==
    {i \in f.search : "gone" \notin st[i] /\ sel \in {All, Home[i]} /\ HasStatus(st[i], f.status)}

\* Where the issues that match stand in the order, and those of one page.
Hits(f, st) == {k \in 1..Len(f.order) : f.order[k] \in Matching(f, st)}
Rank(hits, k) == Cardinality({j \in hits : j <= k})
PageRows(f, hits, page) ==
    {f.order[k] : k \in {j \in hits : Rank(hits, j) \in (page - 1) * f.limit + 1..page * f.limit}}

\* Mutant: the page of the filter is used as it is.
DrawListUnclamped(f, st) ==
    LET hits == Hits(f, st)
    IN  /\ filter' = f
        /\ shown' = [Fetching EXCEPT !.view = "list", !.total = Cardinality(hits),
                                     !.rows = PageRows(f, hits, f.page)]

\* renderIssueList: filter, sort, clamp the page, slice.
DrawList(f, st) ==
    LET hits == Hits(f, st)
        page == Clamped(f.page, TotalPages(Cardinality(hits), f.limit))
    IN  /\ filter' = [f EXCEPT !.page = page]
        /\ shown' = [Fetching EXCEPT !.view = "list", !.total = Cardinality(hits),
                                     !.rows = PageRows(f, hits, page)]

Init ==
    /\ flags = [i \in Issues |-> {}] /\ stats = [i \in Issues |-> {"gone"}]
    /\ sel \in Selections
    /\ filter = [status |-> "all", search |-> Issues, order |-> Order0, page |-> 1, limit |-> Limit0]
    /\ path = "issues" /\ cur = NoIssue /\ curProject = NoProject
    /\ shown = [Fetching EXCEPT !.view = "list"]
    /\ traced = NoIssue /\ actProject = NoProject /\ modal = NoIssue
    /\ task = [t \in Tasks |-> NoTask]
    /\ clicks = 0 /\ faults = 0

\* The search field, the status tabs, the headers and the page size.
Filter ==
    /\ Click /\ modal = NoIssue /\ shown.view = "list"
    /\ \E f \in [status: Statuses, search: Searches, order: Orders, page: {1}, limit: Limits] :
        /\ Cardinality({k \in {"status", "search", "order", "limit"} : f[k] # filter[k]}) = 1
        /\ DrawList(f, stats)
    /\ UNCHANGED <<flags, sel, stats, opened, traced, actProject, modal, task>>

ChangeIssuesPage ==
    /\ Click /\ modal = NoIssue /\ shown.view = "list" /\ shown.total > 0
    /\ \E p \in Buttons(filter.page, TotalPages(shown.total, filter.limit)) :
        DrawList([filter EXCEPT !.page = p], stats)
    /\ UNCHANGED <<flags, sel, stats, opened, traced, actProject, modal, task>>
----------------------------------------------------------------------------
(* Requests *)

Free(tk, t) == tk[t] = NoTask /\ \A u \in 1..(t - 1) : tk[u] # NoTask
Send(rec) == \E t \in Tasks : Free(task, t) /\ task' = [task EXCEPT ![t] = rec]

\* The first request of renderIssueDetail.
Load(issue, project) ==
    LET first == IF project = NoProject THEN sel ELSE project
    IN  [NoTask EXCEPT !.phase = "meta", !.issue = issue, !.project = first, !.first = first,
                       !.left = Projects \ {first}]

\* navigate: to the list, which is drawn at once, or to the page of an issue.
ToList == /\ path' = "issues" /\ curProject' = NoProject /\ UNCHANGED cur
          /\ DrawList(filter, stats)
ToIssue(i, p) == /\ path' = "issue_detail" /\ cur' = i /\ curProject' = p
                 /\ shown' = Fetching /\ UNCHANGED filter

OpenIssue(i) ==
    /\ Click /\ modal = NoIssue /\ shown.view = "list"
    /\ i \in shown.rows
    /\ ToIssue(i, NoProject) /\ Send(Load(i, NoProject))
    /\ UNCHANGED <<flags, sel, stats, traced, actProject, modal>>

Back ==
    /\ Click /\ modal = NoIssue /\ shown.view # "list" /\ ToList
    /\ UNCHANGED <<flags, sel, stats, traced, actProject, modal, task>>

\* The page of one issue.  It shows the answers of the load that drew it.
Page(t, issue, fl) == [Fetching EXCEPT !.view = "page", !.issue = issue, !.load = t,
                                       !.suppressed = "suppressed" \in fl]

\* Mutant: an issue that nobody knows ends the load.
MetaLandsNowhere(t) ==
    LET k == task[t]
        found == k.project = Home[k.issue] /\ "gone" \notin flags[k.issue]
    IN  /\ k.phase = "meta" /\ Quiet
        /\ \/ /\ found /\ shown' = Page(t, k.issue, flags[k.issue]) /\ actProject' = k.project
              /\ task' = [task EXCEPT ![t].phase = "events"]
           \/ /\ ~found /\ UNCHANGED <<shown, actProject>>
              /\ \/ \E p \in k.left :
                     task' = [task EXCEPT ![t].project = p, ![t].left = @ \ {p}]
                 \/ k.left = {} /\ task' = [task EXCEPT ![t] = NoTask]
        /\ UNCHANGED <<flags, sel, stats, filter, opened, traced, modal>>

\* Found: the page.  Not found, or no answer: the next project; after the
\* last one a made-up issue, "so it can be managed".
MetaLands(t) ==
    LET k == task[t]
        found == k.project = Home[k.issue] /\ "gone" \notin flags[k.issue]
        guess == IF k.first = All THEN CHOOSE p \in Projects : TRUE ELSE k.first
    IN  /\ k.phase = "meta"
        /\ \/ /\ found /\ Quiet
              /\ shown' = Page(t, k.issue, flags[k.issue]) /\ actProject' = k.project
              /\ task' = [task EXCEPT ![t].phase = "events"]
           \/ /\ IF found THEN Fault ELSE Quiet
              /\ \/ \E p \in k.left :
                     /\ task' = [task EXCEPT ![t].project = p, ![t].left = @ \ {p}]
                     /\ UNCHANGED <<shown, actProject>>
                 \/ /\ k.left = {} /\ shown' = Page(t, k.issue, {}) /\ actProject' = guess
                    /\ task' = [task EXCEPT ![t].phase = "events", ![t].project = guess]
        /\ UNCHANGED <<flags, sel, stats, filter, opened, traced, modal>>

HasEvents(k) == k.project = Home[k.issue] /\ flags[k.issue] \cap {"empty", "gone"} = {}

\* The list of events; none, or no answer: NO_EVENTS_FOUND in whatever page
\* is there (in no page: the write fails, and so does the catch's).
EventsLand(t) ==
    /\ task[t].phase = "events"
    /\ \/ /\ HasEvents(task[t]) /\ Quiet /\ UNCHANGED shown
          /\ task' = [task EXCEPT ![t].phase = "payload"]
       \/ /\ IF HasEvents(task[t]) THEN Fault ELSE Quiet
          /\ shown' = IF shown.view = "page"
                      THEN [shown EXCEPT !.tab = "none", !.body = NoIssue] ELSE shown
          /\ task' = [task EXCEPT ![t] = NoTask]
    /\ UNCHANGED <<flags, sel, stats, filter, opened, traced, actProject, modal>>

\* Mutant: only the tab of the stack trace notes its event.
ShowTabOnly(s, issue, tab) ==
    /\ shown' = [s EXCEPT !.tab = tab, !.body = issue]
    /\ traced' = IF tab = "stacktrace" THEN issue ELSE traced

\* renderTab; renderStackTrace notes the event for its order buttons.
ShowTab(s, issue, tab) ==
    /\ shown' = [s EXCEPT !.tab = tab, !.body = issue]
    /\ traced' = IF tab \in TraceTabs THEN issue ELSE traced

\* The payload: shown in the page that is there, whose load it may not be.
PayloadLands(t) ==
    LET k == task[t]
        owned == IF shown.load = t THEN [shown EXCEPT !.own = k.issue] ELSE shown
    IN  /\ k.phase = "payload" /\ task' = [task EXCEPT ![t] = NoTask]
        /\ \/ /\ HasEvents(k) /\ Quiet
              /\ IF shown.view = "page" THEN ShowTab(owned, k.issue, "highlights")
                 ELSE traced' = k.issue /\ UNCHANGED shown
           \/ /\ IF HasEvents(k) THEN Fault ELSE Quiet
              /\ UNCHANGED <<shown, traced>>
        /\ UNCHANGED <<flags, sel, stats, filter, opened, actProject, modal>>

\* A tab of the page draws the event its own load got.
ClickTab ==
    /\ Click /\ modal = NoIssue /\ shown.view = "page" /\ shown.own # NoIssue
    /\ \E tab \in Tabs : ShowTab(shown, shown.own, tab)
    /\ UNCHANGED <<flags, sel, stats, filter, opened, actProject, modal, task>>

\* The order buttons stand beside the frames and redraw the noted event.
SetStackTraceOrder ==
    /\ Click /\ modal = NoIssue /\ shown.view = "page"
    /\ shown.tab \in TraceTabs /\ shown.body \in Framed
    /\ ShowTab(shown, traced, "stacktrace")
    /\ UNCHANGED <<flags, sel, stats, filter, opened, actProject, modal, task>>
----------------------------------------------------------------------------
(* Actions on the issue and refreshes *)

\* The project of the request: of the list, or else of the page drawn last.
ActsIn == IF "gone" \notin stats[cur] THEN Home[cur] ELSE actProject
Act(what) == [NoTask EXCEPT !.phase = "act", !.issue = cur, !.project = ActsIn, !.what = what]

\* resolveIssueWithVersion, suppressIssue.
Change ==
    /\ Click /\ modal = NoIssue /\ shown.view = "page"
    /\ \E what \in {"resolve", IF shown.suppressed THEN "unsuppress" ELSE "suppress"} :
        Send(Act(what))
    /\ UNCHANGED <<flags, sel, stats, filter, opened, shown, traced, actProject, modal>>

\* deleteIssuePermanently: first to the list, then the request.
DeleteIssue ==
    /\ Click /\ modal = NoIssue /\ shown.view = "page"
    /\ Send(Act("delete")) /\ ToList
    /\ UNCHANGED <<flags, sel, stats, traced, actProject, modal>>

After(what, fl) ==
    CASE what = "resolve" -> fl \cup {"resolved"}
      [] what = "suppress" -> fl \cup {"suppressed"}
      [] what = "unsuppress" -> fl \ {"suppressed"}
      [] what = "delete" -> fl \cup {"gone"}

\* The server's answer is not looked at: a refresh follows in any case.
ActLands(t) ==
    LET k == task[t]
        known == k.project = Home[k.issue] /\ "gone" \notin flags[k.issue]
    IN  /\ k.phase = "act" /\ task' = [task EXCEPT ![t].phase = "asked"]
        /\ \/ known /\ Quiet /\ flags' = [flags EXCEPT ![k.issue] = After(k.what, @)]
           \/ (IF known THEN Fault ELSE Quiet) /\ UNCHANGED flags
        /\ UNCHANGED <<sel, stats, filter, opened, shown, traced, actProject, modal>>

Refresh == [NoTask EXCEPT !.phase = "asked"]
RefreshClick ==
    /\ Click /\ modal = NoIssue /\ Send(Refresh)
    /\ UNCHANGED <<flags, sel, stats, filter, opened, shown, traced, actProject, modal>>
Tick ==
    /\ Quiet /\ path = "issues" /\ modal = NoIssue /\ Send(Refresh)
    /\ UNCHANGED <<flags, sel, stats, filter, opened, shown, traced, actProject, modal>>

Served(t) ==
    /\ task[t].phase = "asked"
    /\ \/ Quiet /\ task' = [task EXCEPT ![t].phase = "served", ![t].stats =
              [i \in Issues |-> IF sel \in {All, Home[i]} THEN flags[i] \ {"empty"} ELSE {"gone"}]]
       \/ Fault /\ task' = [task EXCEPT ![t].phase = "served", ![t].stats =
              [i \in Issues |-> {"gone"}]]
    /\ UNCHANGED <<flags, sel, stats, filter, opened, shown, traced, actProject, modal>>

\* updateStore: the view of the path is drawn again, which starts a load if it
\* is an issue's; then the handler goes on: to the list after a resolve, to
\* the issue, with a second load, after a (un)suppress.
RefreshLands(t) ==
    LET k == task[t]
        again == IF path = "issue_detail" THEN Load(cur, curProject) ELSE NoTask
        freed == [task EXCEPT ![t] = again]
    IN  /\ k.phase = "served" /\ stats' = k.stats
        /\ \/ /\ k.what \in {"none", "delete"} /\ UNCHANGED opened
              /\ IF again = NoTask THEN DrawList(filter, k.stats)
                 ELSE shown' = Fetching /\ UNCHANGED filter
              /\ task' = freed
           \/ /\ k.what = "resolve" /\ task' = freed
              /\ path' = "issues" /\ curProject' = NoProject /\ UNCHANGED cur
              /\ DrawList(filter, k.stats)
           \/ /\ k.what \in {"suppress", "unsuppress"} /\ ToIssue(k.issue, k.project)
              /\ \E u \in Tasks : /\ Free(freed, u)
                                  /\ task' = [freed EXCEPT ![u] = Load(k.issue, k.project)]
        /\ Quiet /\ UNCHANGED <<flags, sel, traced, actProject, modal>>
----------------------------------------------------------------------------
(* Affected users, and the rest of the world *)

ShowAffectedUsers(i) ==
    /\ Click /\ modal = NoIssue
    /\ \/ shown.view = "page" /\ i = cur
       \/ shown.view = "list" /\ i \in shown.rows
    /\ Send([NoTask EXCEPT !.phase = "users", !.issue = i,
                           !.project = IF "gone" \notin stats[i] THEN Home[i] ELSE sel])
    /\ UNCHANGED <<flags, sel, stats, filter, opened, shown, traced, actProject, modal>>

\* The modal opens over whatever is there by now; a failure is an alert.
UsersLand(t) ==
    /\ task[t].phase = "users" /\ task' = [task EXCEPT ![t] = NoTask]
    /\ \/ Quiet /\ modal' = task[t].issue
       \/ Fault /\ UNCHANGED modal
    /\ UNCHANGED <<flags, sel, stats, filter, opened, shown, traced, actProject>>

CloseModal ==
    /\ Click /\ modal # NoIssue /\ modal' = NoIssue
    /\ UNCHANGED <<flags, sel, stats, filter, opened, shown, traced, actProject, task>>

DrillDown ==
    /\ Click /\ modal # NoIssue /\ modal' = NoIssue
    /\ \E p \in {Home[modal], sel} : ToIssue(modal, p) /\ Send(Load(modal, p))
    /\ UNCHANGED <<flags, sel, stats, traced, actProject>>

\* Other users and the retention worker: resolve, delete, drop the events.
Others(i) ==
    /\ Fault /\ "gone" \notin flags[i]
    /\ \E fl \in {"resolved", "empty", "gone"} : flags' = [flags EXCEPT ![i] = @ \cup {fl}]
    /\ UNCHANGED <<sel, stats, filter, opened, shown, traced, actProject, modal, task>>
----------------------------------------------------------------------------
Answer(t) ==
    \/ MetaLands(t) \/ EventsLand(t) \/ PayloadLands(t) \/ ActLands(t)
    \/ Served(t) \/ RefreshLands(t) \/ UsersLand(t)

Next ==
    \/ \E t \in Tasks : Answer(t)
    \/ \E i \in Issues : OpenIssue(i) \/ ShowAffectedUsers(i) \/ Others(i)
    \/ Filter \/ ChangeIssuesPage \/ Back \/ ClickTab \/ SetStackTraceOrder
    \/ Change \/ DeleteIssue \/ RefreshClick \/ Tick \/ CloseModal \/ DrillDown

Spec == Init /\ [][Next]_vars

(* Every request is answered or fails, and the interval fires. *)
FairSpec == Spec /\ WF_vars(Tick) /\ \A t \in Tasks : WF_vars(Answer(t))
----------------------------------------------------------------------------
Snapshot == [Issues -> SUBSET Flags]
FilterRec == [status: Statuses, search: Searches, order: Orders, page: Nat \ {0}, limit: Limits]
ShownRec == [view: {"list", "fetching", "page"}, rows: SUBSET Issues, total: Nat,
             issue: Issues \cup {NoIssue}, load: Tasks \cup {0}, suppressed: BOOLEAN,
             tab: Tabs \cup {"wait", "none"}, body: Issues \cup {NoIssue},
             own: Issues \cup {NoIssue}]
TaskRec == [phase: {"idle", "meta", "events", "payload", "act", "asked", "served", "users"},
            issue: Issues \cup {NoIssue}, project: Selections \cup {NoProject},
            first: Selections \cup {NoProject}, left: SUBSET Projects,
            what: {"none", "resolve", "suppress", "unsuppress", "delete"}, stats: Snapshot]

TypeOK ==
    /\ flags \in Snapshot /\ stats \in Snapshot /\ sel \in Selections
    /\ filter \in FilterRec /\ path \in {"issues", "issue_detail"}
    /\ cur \in Issues \cup {NoIssue} /\ curProject \in Selections \cup {NoProject}
    /\ shown \in ShownRec /\ traced \in Issues \cup {NoIssue}
    /\ actProject \in Projects \cup {NoProject} /\ modal \in Issues \cup {NoIssue}
    /\ task \in [Tasks -> TaskRec] /\ clicks \in Nat /\ faults \in Nat

\* Turning a stack trace over never changes whose trace it is, although the
\* buttons take the event from a global that every load writes.
TraceIsBody == shown.view = "page" /\ shown.tab \in TraceTabs => traced = shown.body

\* The list is on a page that exists and has a row, however many issues left
\* since the page was chosen.
PageExists == shown.view = "list" =>
    /\ shown.total > 0 => shown.rows # {}
    /\ filter.page <= TotalPages(shown.total, filter.limit)

\* No list is left on display that the store has gone past: whoever changes
\* the issues or the filter draws it again.
ListFresh == shown.view = "list" =>
    LET hits == Hits(filter, stats)
    IN  shown.total = Cardinality(hits) /\ shown.rows = PageRows(filter, hits, filter.page)

\* Behind the spinner is a load of the issue that was opened last, although
\* other loads, actions and refreshes end in the same rows and pages.
FetchIsAwaited == shown.view = "fetching" =>
    \E t \in Tasks : task[t].phase = "meta" /\ task[t].issue = cur

\* What is on display is what the store holds or what is on its way, in
\* well-typed states, with page loads and actions crossing each other.
ViewsHold == TypeOK /\ PageExists /\ ListFresh /\ FetchIsAwaited

\* Whatever fails, and wherever the issue is, its spinner gives way.
PageComes == shown.view = "fetching" ~> shown.view # "fetching"
=============================================================================
