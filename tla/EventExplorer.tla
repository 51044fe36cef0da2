---------------------------- MODULE EventExplorer ----------------------------
(***************************************************************************)
(* The event explorer (views/explore.js) over the events of the projects   *)
(* (query_events and delete_event of handlers/explorer.rs).                *)
(*                                                                         *)
(* Every query is put together from the filters of the moment; its answer  *)
(* is drawn whenever it comes, by the code of the entry it was sent from.  *)
(* A deletion goes project by project and ends with a click on the refresh *)
(* button of whatever explorer is displayed by then.                       *)
(*                                                                         *)
(* An event is a number, the newer the greater.  The event type stands for *)
(* the text and the platform as well; both are read like it.  The export   *)
(* only reads.                                                             *)
(***************************************************************************)
EXTENDS Pagination, FiniteSets

CONSTANTS
    Projects, ProjectOf,    \* the project of each event, and its type
    Types, TypeOf,
    Any,                    \* no type chosen; all projects (in neither set)
    Limits, Start,          \* page sizes; events at the start
    MaxEvents, MaxTasks,    \* bounds: events, requests in flight
    MaxClicks, MaxFaults    \* bounds: what the user does, requests that fail

Events == 1..MaxEvents
Tasks == 1..MaxTasks

VARIABLES
    present, newest,        \* server: the events, and the last one that came
    scope,                  \* store.currentProjectId
    page, limit,            \* store.filters: explorePage, exploreLimit
    type,                   \* the select of the page displayed
    open,                   \* the explorer is displayed
    rows, info,             \* its table, and the line and the pager below
    cache,                  \* exploreEventsCache
    checked, master, button,\* the boxes, the master box, "Delete Selected"
    modal,                  \* the event inspector
    task, clicks, faults

server == <<present, newest>>
asked == <<scope, page, limit, type>>
table == <<rows, info>>
selection == <<checked, master, button>>
budget == <<clicks, faults>>
vars == <<server, asked, open, table, cache, selection, modal, task, budget>>

\* The table, and (read) what matched when it was read, for the property alone.
Table(kind, set, read) == [kind |-> kind, set |-> set, read |-> read]
NoInfo == [page |-> 0, to |-> 0, total |-> 0, pages |-> {}]
Down == [up |-> FALSE, count |-> 0]
NoModal == [open |-> FALSE, title |-> 0, body |-> 0]
NoAnswer == [set |-> {}, total |-> 0, read |-> {}]
NoTask == [phase |-> "idle", here |-> FALSE, page |-> 0, limit |-> 0, type |-> Any,
           scope |-> Any, answer |-> NoAnswer, batch |-> {}, rest |-> {}, event |-> 0]

Init ==
    /\ present = 1..Start /\ newest = Start
    /\ scope = Any /\ page = 1 /\ limit \in Limits /\ type = Any /\ open = FALSE
    /\ rows = Table("none", {}, {}) /\ info = NoInfo /\ cache = {}
    /\ checked = {} /\ master = FALSE /\ button = Down /\ modal = NoModal
    /\ task = [t \in Tasks |-> NoTask] /\ clicks = 0 /\ faults = 0

Click == clicks < MaxClicks /\ clicks' = clicks + 1 /\ UNCHANGED faults
Fault == faults < MaxFaults /\ faults' = faults + 1 /\ UNCHANGED clicks
Free(t) == task[t] = NoTask /\ \A u \in 1..(t - 1) : task[u] # NoTask
OnPage == open /\ ~modal.open /\ Click
----------------------------------------------------------------------------
(* The server *)

Rank(e, S) == Cardinality({f \in S : f >= e})
Ranked(S, first, last) == {e \in S : Rank(e, S) \in first..last}

\* query_events: from each project as many events as this page and those
\* before it have, the newest first; of all of them, the page.  The total
\* counts what was fetched.
QueryEvents(k) ==
    LET offset == (k.page - 1) * k.limit
        match == {e \in present : k.scope \in {Any, ProjectOf[e]} /\ k.type \in {Any, TypeOf[e]}}
        got == UNION {Ranked({e \in match : ProjectOf[e] = p}, 1, k.limit + offset) :
                         p \in Projects}
    IN  [set |-> Ranked(got, offset + 1, offset + k.limit), total |-> Cardinality(got),
         read |-> match]

\* An event is ingested.
Arrive ==
    /\ newest < MaxEvents /\ newest' = newest + 1 /\ present' = present \cup {newest'}
    /\ UNCHANGED <<asked, open, table, cache, selection, modal, task, budget>>
----------------------------------------------------------------------------
(* Queries *)

\* load: the rows go, the line and the pager stay as they are.
Load(t, tasks) ==
    /\ rows' = Table("fetching", {}, {}) /\ checked' = {} /\ master' = FALSE
    /\ button' = [button EXCEPT !.up = FALSE]
    /\ task' = [tasks EXCEPT ![t] =
            [NoTask EXCEPT !.phase = "load", !.here = TRUE, !.page = page', !.limit = limit',
                           !.type = type', !.scope = scope']]
Query == \E t \in Tasks : Free(t) /\ Load(t, task)

\* renderExplore makes a new page, whose filters are empty or a saved view's;
\* the page number is kept.  The answers to the page before draw nothing.
Detached == [t \in Tasks |-> [task[t] EXCEPT !.here = FALSE]]
RenderExplore ==
    /\ ~modal.open /\ open' = TRUE /\ Click
    /\ type' \in Types \cup {Any} /\ scope' \in Projects \cup {Any} /\ UNCHANGED <<page, limit>>
    /\ info' = NoInfo
    /\ \E t \in Tasks : Free(t) /\ Load(t, Detached)
    /\ UNCHANGED <<server, cache, modal>>

\* Another page, from the menu or from the link of the inspector.
Leave ==
    /\ open /\ Click /\ open' = FALSE /\ modal' = NoModal /\ task' = Detached
    /\ rows' = Table("none", {}, {}) /\ info' = NoInfo
    /\ checked' = {} /\ master' = FALSE /\ button' = Down
    /\ UNCHANGED <<server, asked, cache>>

\* Query, the text, the type, the platform and the page size: from page 1.
ChangeFilters ==
    /\ OnPage /\ page' = 1 /\ UNCHANGED <<server, scope, open, info, cache, modal>>
    /\ \/ type' \in Types \cup {Any} /\ UNCHANGED limit
       \/ limit' \in Limits /\ UNCHANGED type
    /\ Query

ChangeExplorePage ==
    /\ OnPage /\ page' \in info.pages
    /\ UNCHANGED <<server, scope, limit, type, open, info, cache, modal>> /\ Query

Refresh ==
    /\ OnPage /\ UNCHANGED asked /\ Query
    /\ UNCHANGED <<server, open, info, cache, modal>>

LoadServed(t) ==
    /\ task[t].phase = "load"
    /\ \/ UNCHANGED budget /\ task' = [task EXCEPT ![t].phase = "loaded",
                                                   ![t].answer = QueryEvents(task[t])]
       \/ Fault /\ task' = [task EXCEPT ![t].phase = "loaded"]
    /\ UNCHANGED <<server, asked, open, table, cache, selection, modal>>

\* The answer is drawn with the page and the page size it was asked with, over
\* the answer to a later query as well.  The new rows are unchecked, the button
\* and the master box stay as they are.
LoadLands(t) ==
    LET k == task[t]
        offset == (k.page - 1) * k.limit
    IN  /\ k.phase = "loaded" /\ task' = [task EXCEPT ![t] = NoTask] /\ cache' = k.answer.set
        /\ \/ ~k.here /\ UNCHANGED <<table, checked>>
           \/ /\ k.here /\ checked' = {} /\ k.answer.set = {}
              /\ rows' = Table("empty", {}, {}) /\ info' = NoInfo
           \/ /\ k.here /\ checked' = {} /\ k.answer.set # {}
              /\ rows' = Table("rows", k.answer.set, k.answer.read)
              /\ info' = [page |-> k.page, to |-> Least(offset + k.limit, k.answer.total),
                          total |-> k.answer.total,
                          pages |-> Buttons(k.page, TotalPages(k.answer.total, k.limit))]
        /\ UNCHANGED <<server, asked, open, master, button, modal, budget>>
----------------------------------------------------------------------------
(* Selecting and deleting *)

UpdateBulkDeleteButtonState(boxes) ==
    /\ checked' = boxes
    /\ button' = IF boxes # {} THEN [up |-> TRUE, count |-> Cardinality(boxes)]
                 ELSE [button EXCEPT !.up = FALSE]

Check ==
    /\ OnPage /\ UNCHANGED <<server, asked, open, table, cache, modal, task>>
    /\ \/ /\ \E e \in rows.set : UpdateBulkDeleteButtonState(
                IF e \in checked THEN checked \ {e} ELSE checked \cup {e})
          /\ UNCHANGED master
       \/ master' = ~master /\ UpdateBulkDeleteButtonState(IF master' THEN rows.set ELSE {})

\* One project's selected events, and those of the other projects.
Batch(S) == {[batch |-> {e \in S : ProjectOf[e] = p}, rest |-> {e \in S : ProjectOf[e] # p}] :
                p \in {ProjectOf[e] : e \in S}}

BulkDeleteSelectedEvents ==
    /\ OnPage /\ button.up /\ checked # {}
    /\ \E t \in Tasks, b \in Batch(checked) : Free(t) /\ task' = [task EXCEPT ![t] =
            [NoTask EXCEPT !.phase = "delete", !.batch = b.batch, !.rest = b.rest]]
    /\ UNCHANGED <<server, asked, open, table, cache, selection, modal>>

\* One DELETE of the batch; one that fails may have been carried out.
DeleteServed(t, e) ==
    /\ task[t].phase = "delete" /\ e \in task[t].batch
    /\ \/ UNCHANGED budget /\ present' = present \ {e}
       \/ Fault /\ UNCHANGED present
    /\ task' = [task EXCEPT ![t].batch = @ \ {e}]
    /\ UNCHANGED <<newest, asked, open, table, cache, selection, modal>>

\* The next project, or, after the alert, the refresh button if there is one.
BatchLands(t) ==
    /\ task[t].phase = "delete" /\ task[t].batch = {} /\ UNCHANGED <<server, asked, budget>>
    /\ UNCHANGED <<open, info, cache, modal>>
    /\ \/ /\ \E b \in Batch(task[t].rest) :
                task' = [task EXCEPT ![t].batch = b.batch, ![t].rest = b.rest]
          /\ UNCHANGED <<rows, selection>>
       \/ task[t].rest = {} /\ open /\ Load(t, task)
       \/ task[t].rest = {} /\ ~open /\ task' = [task EXCEPT ![t] = NoTask]
          /\ UNCHANGED <<rows, selection>>
----------------------------------------------------------------------------
(* The inspector *)

\* A row that is not in the cache does nothing.
OpenEventDetailsModal ==
    /\ OnPage
    /\ \E t \in Tasks, e \in rows.set \cap cache :
        /\ Free(t) /\ task' = [task EXCEPT ![t] = [NoTask EXCEPT !.phase = "detail", !.event = e]]
        /\ modal' = [open |-> TRUE, title |-> e, body |-> 0]
    /\ UNCHANGED <<server, asked, open, table, cache, selection>>

CloseModal ==
    /\ modal.open /\ Click /\ modal' = NoModal
    /\ UNCHANGED <<server, asked, open, table, cache, selection, task>>

\* Fills the inspector that is open, or one opened since for another event;
\* without an answer, from the row alone.
DetailLands(t) ==
    /\ task[t].phase = "detail" /\ task' = [task EXCEPT ![t] = NoTask]
    /\ modal' = IF modal.open THEN [modal EXCEPT !.body = task[t].event] ELSE modal
    /\ UNCHANGED <<server, asked, open, table, cache, selection, budget>>
----------------------------------------------------------------------------
Answer(t) ==
    \/ LoadServed(t) \/ LoadLands(t) \/ (\E e \in Events : DeleteServed(t, e))
    \/ BatchLands(t) \/ DetailLands(t)

Next ==
    \/ \E t \in Tasks : Answer(t)
    \/ Arrive \/ RenderExplore \/ Leave \/ ChangeFilters \/ ChangeExplorePage \/ Refresh
    \/ Check \/ BulkDeleteSelectedEvents \/ OpenEventDetailsModal \/ CloseModal

Spec == Init /\ [][Next]_vars
----------------------------------------------------------------------------
\* "Search, filter, and page through raw telemetry logs in real-time."
\* (explore.js:22): below a table that does not end with the oldest of the
\* events that matched when it was read, there is a button to the next page.
NextPageOffered ==
    rows.kind = "rows" /\ info.to < Cardinality(rows.read) => info.page + 1 \in info.pages
=============================================================================
