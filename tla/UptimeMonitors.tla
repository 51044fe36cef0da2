--------------------------- MODULE UptimeMonitors ---------------------------
(***************************************************************************)
(* The uptime page (views/uptime.js) over the monitors, the worker that    *)
(* pings them and the history of their pings (handlers/uptime.rs).         *)
(*                                                                         *)
(* Each refresh draws the whole page again, unchecks every box and asks    *)
(* again for the history of every unfolded monitor, while answers to the   *)
(* page before are under way; they find their place by the monitor's id.   *)
(*                                                                         *)
(* Pings are told apart by what the filters and the list of outages read.  *)
(* Whether a ping is younger than a period, and whether a success was      *)
(* logged in the last 15 minutes, are choices.  The page is one user's     *)
(* whose rights do not change; a refusal is a request that fails.          *)
(***************************************************************************)
EXTENDS Integers, Sequences, FiniteSets, SequencesExt

CONSTANTS
    Ids,            \* monitors that may exist
    Starts,         \* monitors there may be at the start
    Histories,      \* the histories they may have
    Checks,         \* what a ping can be
    MaxTasks,       \* bound: requests in flight
    MaxPings,       \* bound: pings by the worker
    MaxClicks,      \* bound: what the user does
    MaxFaults       \* bound: requests that fail

Pings == [up: BOOLEAN, slow: BOOLEAN]   \* slow: more than 300 ms
Tasks == 1..MaxTasks
Types == {"all", "errors", "slow"}
Ranges == {"24h", "7d", "all"}          \* "30 Days" is as "7 Days"

ASSUME UptimeAssumption ==
    /\ IsFiniteSet(Ids)
    /\ Starts \subseteq SUBSET Ids /\ Checks \subseteq Pings /\ Histories \subseteq Seq(Checks)
    /\ MaxTasks \in Nat \ {0} /\ MaxPings \in Nat /\ MaxClicks \in Nat /\ MaxFaults \in Nat

VARIABLES
    server, ever,   \* monitors in the table, and all that ever were
    logs,           \* uptime_logs of each monitor, newest first
    checking, pings,\* checks under way, and how many there were
    list,           \* store.monitors
    open,           \* the uptime page is displayed
    expanded,       \* window.expandedUptimeMonitors
    filter,         \* window.uptimeActiveFilter
    panel,          \* the unfolded row under each monitor
    checked, header, bar, \* the boxes, the one of the header, the bulk bar
    form,           \* the form for a new monitor is open
    task, clicks, faults

table == <<server, ever, logs>>
worker == <<checking, pings>>
selection == <<checked, header, bar>>
budget == <<clicks, faults>>
vars == <<table, worker, list, open, expanded, filter, panel, selection, form, task, budget>>

NoPanel == [kind |-> "none", logs |-> <<>>, range |-> "24h", shown |-> <<>>, outages |-> <<>>]
Spinner == [NoPanel EXCEPT !.kind = "spinner"]
Pending == [NoPanel EXCEPT !.kind = "pending"]
NoTask == [phase |-> "idle", ids |-> {}, bulk |-> FALSE, ok |-> TRUE, logs |-> <<>>]
NoBar == [up |-> FALSE, count |-> 0]

Init ==
    /\ server \in Starts /\ ever = server
    /\ \E f \in [server -> Histories] :
            logs = [m \in Ids |-> IF m \in server THEN f[m] ELSE <<>>]
    /\ checking = [m \in Ids |-> 0] /\ pings = 0
    /\ list = {} /\ open = FALSE /\ expanded = {} /\ filter = [m \in Ids |-> "all"]
    /\ panel = [m \in Ids |-> NoPanel] /\ checked = {} /\ header = FALSE /\ bar = NoBar
    /\ form = FALSE /\ task = [t \in Tasks |-> NoTask] /\ clicks = 0 /\ faults = 0

Click == clicks < MaxClicks /\ clicks' = clicks + 1 /\ UNCHANGED faults
Fault == faults < MaxFaults /\ faults' = faults + 1 /\ UNCHANGED clicks
Idle == {t \in Tasks : task[t] = NoTask}
First(n, S) == {t \in S : Cardinality({u \in S : u < t}) < n}
Begin(t, k) == task[t] = NoTask /\ t \in First(1, Idle) /\ task' = [task EXCEPT ![t] = k]
----------------------------------------------------------------------------
(* The history of a monitor *)

\* One scan, oldest ping first: where the outage began that the pings so far
\* end in (0: they end in none), and the outages before it, each as the first
\* and the last of its pings.
ScanStep(s, i, up) ==
    IF ~up THEN [s EXCEPT !.since = IF @ = 0 THEN i ELSE @]
    ELSE IF s.since = 0 THEN s
    ELSE [since |-> 0, list |-> Append(s.list, <<s.since, i - 1>>)]
Scan(chrono) ==
    LET scan[i \in 0..Len(chrono)] ==
            IF i = 0 THEN [since |-> 0, list |-> <<>>]
            ELSE ScanStep(scan[i - 1], i, chrono[i].up)
    IN  scan

\* Mutant: an outage that lasts until the newest ping is forgotten.
OutagesClosed(shown) == Reverse(Scan(Reverse(shown))[Len(shown)].list)

\* getOutageIncidents, its outages newest first.
Outages(shown) ==
    LET end == Scan(Reverse(shown))[Len(shown)]
    IN  Reverse(IF end.since = 0 THEN end.list ELSE Append(end.list, <<end.since, Len(shown)>>))

Passes(p, type) == (type = "errors" => ~p.up) /\ (type = "slow" => p.slow)
Filtered(young, type) ==
    LET kept[i \in 0..Len(young)] ==
            IF i = 0 THEN <<>>
            ELSE IF Passes(young[i], type) THEN Append(kept[i - 1], young[i]) ELSE kept[i - 1]
    IN  kept[Len(young)]

\* renderUptimeChart: the history within the range (n pings are young enough),
\* through the filter; the three newest outages.
Chart(history, n, type, range) ==
    LET young == IF range = "all" THEN history ELSE SubSeq(history, 1, n)
        shown == Filtered(young, type)
        outages == Outages(shown)
    IN  [kind |-> "chart", logs |-> history, range |-> range, shown |-> shown,
         outages |-> SubSeq(outages, 1, IF Len(outages) < 3 THEN Len(outages) ELSE 3)]
Draws(m, history, type, range) ==
    \E n \in 0..Len(history) : panel' = [panel EXCEPT ![m] = Chart(history, n, type, range)]
----------------------------------------------------------------------------
(* The worker *)

\* A round: every monitor that is there is pinged.  The loop sleeps, and does
\* not wait for the checks of its last round.
Round ==
    /\ server # {} /\ pings + Cardinality(server) <= MaxPings
    /\ checking' = [m \in Ids |-> checking[m] + (IF m \in server THEN 1 ELSE 0)]
    /\ pings' = pings + Cardinality(server)
    /\ UNCHANGED <<table, list, open, expanded, filter, panel, selection, form, task, budget>>

\* A failure is always logged, a success when none was in the last 15 minutes;
\* a connection or an INSERT that fails is ignored.  The monitor may be gone by
\* now; its row is written all the same.
PingLands(m) ==
    /\ checking[m] > 0 /\ checking' = [checking EXCEPT ![m] = @ - 1]
    /\ \/ /\ UNCHANGED budget
          /\ \E p \in Checks :
                \/ logs' = [logs EXCEPT ![m] = <<p>> \o @]
                \/ p.up /\ (\E i \in DOMAIN logs[m] : logs[m][i].up) /\ UNCHANGED logs
       \/ Fault /\ UNCHANGED logs
    /\ UNCHANGED <<server, ever, pings, list, open, expanded, filter, panel, selection, form, task>>
----------------------------------------------------------------------------
(* Drawing *)

\* Mutant: the answers to the page before are cancelled.
RenderUptimeAborts(ms, rows) ==
    LET again == expanded \cap ms
        kept == [t \in Tasks |-> IF rows[t].phase \in {"logs", "logged"} THEN NoTask ELSE rows[t]]
        free == {t \in Tasks : kept[t] = NoTask}
        row == CHOOSE f \in [again -> Tasks] : IsInjective(f) /\ \A m \in again : f[m] \in free
    IN  /\ Cardinality(again) <= Cardinality(free)
        /\ panel' = [m \in Ids |-> IF m \in again THEN Spinner ELSE NoPanel]
        /\ checked' = {} /\ header' = FALSE /\ bar' = NoBar
        /\ task' = [t \in Tasks |-> IF \E m \in again : row[m] = t
                       THEN [NoTask EXCEPT !.phase = "logs",
                                           !.ids = {m \in again : row[m] = t}]
                       ELSE kept[t]]

\* Mutant: the page is drawn with every monitor folded.
RenderUptimeFolds(ms, rows) ==
    /\ panel' = [m \in Ids |-> NoPanel] /\ task' = rows
    /\ checked' = {} /\ header' = FALSE /\ bar' = NoBar

\* renderUptime of the monitors ms: nothing is checked, and what was unfolded
\* is unfolded again, with a request for its history.
RenderUptime(ms, rows) ==
    LET again == expanded \cap ms
        free == {t \in Tasks : rows[t] = NoTask}
        row == CHOOSE f \in [again -> free] : IsInjective(f)
    IN  /\ Cardinality(again) <= Cardinality(free)
        /\ panel' = [m \in Ids |-> IF m \in again THEN Spinner ELSE NoPanel]
        /\ checked' = {} /\ header' = FALSE /\ bar' = NoBar
        /\ task' = [t \in Tasks |-> IF \E m \in again : row[m] = t
                       THEN [NoTask EXCEPT !.phase = "logs",
                                           !.ids = {m \in again : row[m] = t}]
                       ELSE rows[t]]

\* Navigating to the page, also from the page itself.
Enter ==
    /\ ~form /\ open' = TRUE /\ RenderUptime(list, task)
    /\ UNCHANGED <<table, worker, list, expanded, filter, form, budget>>

Leave ==
    /\ open /\ ~form /\ Click /\ open' = FALSE
    /\ panel' = [m \in Ids |-> NoPanel] /\ checked' = {} /\ header' = FALSE /\ bar' = NoBar
    /\ UNCHANGED <<table, worker, list, expanded, filter, form, task>>

\* refreshData, here the list of monitors alone; every 15 seconds on this page
\* while no modal is open (as if never two at once).
Refreshing(k) == k.phase \in {"refresh", "refreshed"}
Tick ==
    /\ open /\ ~form /\ \A t \in Tasks : ~Refreshing(task[t])
    /\ \E t \in Tasks : Begin(t, [NoTask EXCEPT !.phase = "refresh"])
    /\ UNCHANGED <<table, worker, list, open, expanded, filter, panel, selection, form, budget>>

RefreshServed(t) ==
    /\ task[t].phase = "refresh"
    /\ \/ UNCHANGED budget /\ task' = [task EXCEPT ![t].phase = "refreshed", ![t].ids = server]
       \/ Fault /\ task' = [task EXCEPT ![t].phase = "refreshed"]
    /\ UNCHANGED <<table, worker, list, open, expanded, filter, panel, selection, form>>

\* An answer without data empties the list.
RefreshLands(t) ==
    LET rows == [task EXCEPT ![t] = NoTask] IN
    /\ task[t].phase = "refreshed" /\ list' = task[t].ids
    /\ IF open THEN RenderUptime(list', rows)
       ELSE task' = rows /\ UNCHANGED <<panel, selection>>
    /\ UNCHANGED <<table, worker, open, expanded, filter, form, budget>>
----------------------------------------------------------------------------
(* Unfolding a monitor *)

OnPage == open /\ ~form /\ Click

ToggleMonitorExpand(m) ==
    /\ OnPage /\ m \in list
    /\ \/ /\ m \in expanded /\ expanded' = expanded \ {m}
          /\ panel' = [panel EXCEPT ![m] = NoPanel] /\ UNCHANGED task
       \/ /\ m \notin expanded /\ expanded' = expanded \cup {m}
          /\ panel' = [panel EXCEPT ![m] = Spinner]
          /\ \E t \in Tasks : Begin(t, [NoTask EXCEPT !.phase = "logs", !.ids = {m}])
    /\ UNCHANGED <<table, worker, list, open, filter, selection, form>>

LogsServed(t) ==
    /\ task[t].phase = "logs"
    /\ \/ /\ UNCHANGED budget
          /\ \E m \in task[t].ids :
                task' = [task EXCEPT ![t].phase = "logged", ![t].logs = logs[m]]
       \/ Fault /\ task' = [task EXCEPT ![t].phase = "logged"]
    /\ UNCHANGED <<table, worker, list, open, expanded, filter, panel, selection, form>>

\* Mutant: a request that fails leaves the row as it is.
LogsLandOrNot(t) ==
    /\ task[t].phase = "logged" /\ task' = [task EXCEPT ![t] = NoTask]
    /\ \E m \in task[t].ids :
        \/ (panel[m].kind = "none" \/ task[t].logs = <<>>) /\ UNCHANGED panel
        \/ panel[m].kind # "none" /\ task[t].logs # <<>> /\ Draws(m, task[t].logs, filter[m], "24h")
    /\ UNCHANGED <<table, worker, list, open, expanded, filter, selection, form, budget>>

\* Whatever unfolded row the monitor has now is filled: with the last 24 hours
\* through the filter chosen before, or "Pending telemetry history...".
LogsLand(t) ==
    /\ task[t].phase = "logged" /\ task' = [task EXCEPT ![t] = NoTask]
    /\ \E m \in task[t].ids :
        \/ panel[m].kind = "none" /\ UNCHANGED panel
        \/ /\ panel[m].kind # "none" /\ task[t].logs = <<>>
           /\ panel' = [panel EXCEPT ![m] = Pending]
        \/ panel[m].kind # "none" /\ task[t].logs # <<>> /\ Draws(m, task[t].logs, filter[m], "24h")
    /\ UNCHANGED <<table, worker, list, open, expanded, filter, selection, form, budget>>

\* The history is the one uptimeLogsCache got when the chart was first drawn.
ChangeUptimeChartRange(m) ==
    /\ OnPage /\ panel[m].kind = "chart"
    /\ \E range \in Ranges : Draws(m, panel[m].logs, filter[m], range)
    /\ UNCHANGED <<table, worker, list, open, expanded, filter, selection, form, task>>

\* The range is read from the label of the active button: "All Data" is none of
\* the three it knows and counts as 24 hours, and stays the active one.
ChangeUptimeTypeFilter(m) ==
    LET active == panel[m].range
        range == IF active = "all" THEN "24h" ELSE active
    IN  /\ OnPage /\ panel[m].kind = "chart"
        /\ \E type \in Types :
            /\ filter' = [filter EXCEPT ![m] = type]
            /\ \E n \in 0..Len(panel[m].logs) :
                panel' = [panel EXCEPT ![m] =
                             [Chart(panel[m].logs, n, type, range) EXCEPT !.range = active]]
        /\ UNCHANGED <<table, worker, list, open, expanded, selection, form, task>>
----------------------------------------------------------------------------
(* The boxes *)

\* The number stays written in a bar that goes down.
UpdateUptimeSelection(boxes) ==
    /\ checked' = boxes /\ header' = (boxes = list /\ list # {})
    /\ bar' = IF boxes # {} THEN [up |-> TRUE, count |-> Cardinality(boxes)]
              ELSE [bar EXCEPT !.up = FALSE]

Check ==
    /\ OnPage
    /\ \/ \E m \in list : UpdateUptimeSelection(IF m \in checked THEN checked \ {m}
                                                ELSE checked \cup {m})
       \/ list # {} /\ UpdateUptimeSelection(IF header THEN {} ELSE list)
       \/ bar.up /\ UpdateUptimeSelection({})
    /\ UNCHANGED <<table, worker, list, open, expanded, filter, panel, form, task>>
----------------------------------------------------------------------------
(* Deleting and adding *)

BulkDeleteMonitors ==
    /\ OnPage /\ bar.up /\ bar' = [bar EXCEPT !.up = FALSE]
    /\ \E t \in Tasks : Begin(t, [NoTask EXCEPT !.phase = "delete", !.ids = checked,
                                                !.bulk = TRUE])
    /\ UNCHANGED <<table, worker, list, open, expanded, filter, panel, checked, header, form>>

DeleteMonitor(m) ==
    /\ OnPage /\ m \in list
    /\ \E t \in Tasks : Begin(t, [NoTask EXCEPT !.phase = "delete", !.ids = {m}])
    /\ UNCHANGED <<table, worker, list, open, expanded, filter, panel, selection, form>>

\* One DELETE: the history first, whose failure is ignored, then the monitor;
\* the answer of a deletion that was done may be lost.
DeleteServed(t, m) ==
    /\ task[t].phase = "delete" /\ m \in task[t].ids
    /\ \/ /\ UNCHANGED budget /\ server' = server \ {m} /\ logs' = [logs EXCEPT ![m] = <<>>]
          /\ task' = [task EXCEPT ![t].ids = @ \ {m}]
       \/ \E ok \in BOOLEAN :
          /\ Fault /\ logs' \in {logs, [logs EXCEPT ![m] = <<>>]}
          /\ server' = server \ {m} \/ (server' = server /\ ~ok)
          /\ task' = [task EXCEPT ![t].ids = @ \ {m}, ![t].ok = @ /\ ok]
    /\ UNCHANGED <<ever, worker, list, open, expanded, filter, panel, selection, form>>

\* Many are refreshed after whatever became of them, one only if it is gone.
DeleteLands(t) ==
    /\ task[t].phase = "delete" /\ task[t].ids = {}
    /\ task' = [task EXCEPT ![t] = IF task[t].bulk \/ task[t].ok
                    THEN [NoTask EXCEPT !.phase = "refresh", !.bulk = task[t].bulk] ELSE NoTask]
    /\ UNCHANGED <<table, worker, list, open, expanded, filter, panel, selection, form, budget>>

OpenAddMonitorModal ==
    /\ OnPage /\ form' = TRUE
    /\ UNCHANGED <<table, worker, list, open, expanded, filter, panel, selection, task>>
CancelAdd ==
    /\ form /\ Click /\ form' = FALSE
    /\ UNCHANGED <<table, worker, list, open, expanded, filter, panel, selection, task>>

\* The form stays open, its button enabled, until the answer is there.
SubmitAdd ==
    /\ form /\ Click /\ \E t \in Tasks : Begin(t, [NoTask EXCEPT !.phase = "add"])
    /\ UNCHANGED <<table, worker, list, open, expanded, filter, panel, selection, form>>

AddServed(t) ==
    /\ task[t].phase = "add"
    /\ \/ /\ UNCHANGED budget /\ task' = [task EXCEPT ![t].phase = "added"]
          /\ \E m \in Ids \ ever : server' = server \cup {m} /\ ever' = ever \cup {m}
       \/ /\ Fault /\ UNCHANGED <<server, ever>>
          /\ task' = [task EXCEPT ![t].phase = "added", ![t].ok = FALSE]
    /\ UNCHANGED <<logs, worker, list, open, expanded, filter, panel, selection, form>>

\* close-modal closes whichever form is open.
AddLands(t) ==
    /\ task[t].phase = "added"
    /\ \/ /\ task[t].ok /\ form' = FALSE
          /\ task' = [task EXCEPT ![t] = [NoTask EXCEPT !.phase = "refresh"]]
       \/ ~task[t].ok /\ task' = [task EXCEPT ![t] = NoTask] /\ UNCHANGED form
    /\ UNCHANGED <<table, worker, list, open, expanded, filter, panel, selection, budget>>
----------------------------------------------------------------------------
Answer(t) ==
    \/ RefreshServed(t) \/ RefreshLands(t) \/ LogsServed(t) \/ LogsLand(t)
    \/ (\E m \in Ids : DeleteServed(t, m)) \/ DeleteLands(t) \/ AddServed(t) \/ AddLands(t)

Next ==
    \/ \E t \in Tasks : Answer(t)
    \/ \E m \in Ids : PingLands(m) \/ ToggleMonitorExpand(m) \/ ChangeUptimeChartRange(m)
                      \/ ChangeUptimeTypeFilter(m) \/ DeleteMonitor(m)
    \/ Round \/ Tick \/ Enter \/ Leave \/ Check \/ BulkDeleteMonitors
    \/ OpenAddMonitorModal \/ CancelAdd \/ SubmitAdd

Spec == Init /\ [][Next]_vars

(* Every request is answered or fails. *)
FairSpec == Spec /\ \A t \in Tasks : WF_vars(Answer(t))
----------------------------------------------------------------------------
PanelRec == [kind: {"none", "spinner", "pending", "chart"}, logs: Seq(Checks),
             range: Ranges, shown: Seq(Checks), outages: Seq(Nat \X Nat)]
TaskRec == [phase: {"idle", "refresh", "refreshed", "logs", "logged", "delete", "add", "added"},
            ids: SUBSET Ids, bulk: BOOLEAN, ok: BOOLEAN, logs: Seq(Checks)]

TypeOK ==
    /\ server \subseteq ever /\ ever \subseteq Ids /\ logs \in [Ids -> Seq(Checks)]
    /\ checking \in [Ids -> Nat] /\ pings \in 0..MaxPings
    /\ \A m \in Ids \ ever : checking[m] = 0
    /\ list \subseteq ever /\ open \in BOOLEAN /\ expanded \subseteq Ids
    /\ filter \in [Ids -> Types] /\ panel \in [Ids -> PanelRec]
    /\ checked \subseteq list /\ header \in BOOLEAN
    /\ bar \in [up: BOOLEAN, count: 0..Cardinality(Ids)]
    /\ form \in BOOLEAN /\ task \in [Tasks -> TaskRec]
    /\ clicks \in 0..MaxClicks /\ faults \in 0..MaxFaults

\* A monitor of the page has an unfolded row exactly if the user left it so.
DetailFollowsToggle ==
    \A m \in Ids : (panel[m].kind # "none") <=> (open /\ m \in list \cap expanded)

\* The bar counts the checked boxes and is down without any; it is down over
\* checked boxes only while the monitors of a bulk deletion go.  The header's
\* box is checked when all are.
BulkUnderWay == \E t \in Tasks : task[t].bulk
SelectionShown ==
    /\ bar.up => checked # {} /\ bar.count = Cardinality(checked)
    /\ checked # {} => bar.up \/ BulkUnderWay
    /\ header <=> open /\ checked = list /\ list # {}

\* Behind each spinner is a request for the history of its monitor and of no
\* other, although the page is drawn again under requests that are on their way.
FetchIsAwaited == \A m \in Ids : panel[m].kind = "spinner" =>
    \E t \in Tasks : task[t].phase \in {"logs", "logged"} /\ task[t].ids = {m}

\* The page agrees with what the user did to it, however many refreshes,
\* deletions and answers to earlier drawings come between.
PageFollowsUser == TypeOK /\ DetailFollowsToggle /\ SelectionShown /\ FetchIsAwaited

\* An outage of the page is a longest run of failed pings among those it shows,
\* and the newest outages are shown, the newest first.
Runs(chrono) ==
    {r \in (1..Len(chrono)) \X (1..Len(chrono)) :
        /\ r[1] <= r[2] /\ \A i \in r[1]..r[2] : ~chrono[i].up
        /\ (r[1] > 1 => chrono[r[1] - 1].up) /\ (r[2] < Len(chrono) => chrono[r[2] + 1].up)}
OutagesAreRuns == \A m \in Ids :
    LET all == Runs(Reverse(panel[m].shown))
        told == panel[m].outages
    IN  panel[m].kind = "chart" =>
        /\ \A i \in DOMAIN told : told[i] \in all
                /\ Cardinality({r \in all : r[1] > told[i][1]}) = i - 1
        /\ Len(told) = (IF Cardinality(all) < 3 THEN Cardinality(all) ELSE 3)

\* "FETCHING HISTORICAL TELEMETRY LOGS..." comes to an end, although a refresh
\* may draw the page again before each answer.
FetchingEnds == \A m \in Ids : (panel[m].kind = "spinner") ~> (panel[m].kind # "spinner")
=============================================================================
