---------------------------- MODULE WidgetBoard ----------------------------
(***************************************************************************)
(* The dashboard builder (views/dashboard_builder.js, views/dashboard/).   *)
(*                                                                         *)
(* The widgets are an array at module level; every entry into the view     *)
(* makes a new grid and new handlers over it, while the handlers of the    *)
(* entries before may still wait for an answer.  renderAllWidgets clears   *)
(* the grid and the charts, then appends a card and awaits its query,      *)
(* widget by widget: several such loops can be under way on one grid, and  *)
(* each card keeps the index it was made with.                             *)
(*                                                                         *)
(* A widget is one value: what a modal or a resize changes inside of it is *)
(* not told apart, nor are the widths a resize writes.  Two entries of the *)
(* widgets array are the same array while gen is the same.  Left out are a *)
(* setItem that fails, a drag that begins before an entry and ends after   *)
(* it, and the button of an empty board, which an older entry can bind.    *)
(***************************************************************************)
EXTENDS Naturals, Sequences, FiniteSets

CONSTANTS
    Ids,            \* dashboards on the server
    MaxTasks,       \* bound: chains of requests in flight
    MaxEntries,     \* bound: times the view is drawn
    MaxMade,        \* bound: widgets made
    MaxClicks,      \* bound: what the user does
    MaxFaults,      \* bound: requests that fail
    NoId, Hole      \* Hole: an element never assigned, null in JSON

Tasks == 1..MaxTasks
Made == 1..MaxMade
Arrays == Seq(Made \cup {Hole})
Kept == [known: BOOLEAN, list: Arrays]
Nothing == [known |-> FALSE, list |-> <<>>]
NoBoards == [i \in Ids |-> Nothing]     \* a list of dashboards on its way

ASSUME BoardAssumption ==
    /\ NoId \notin Ids /\ Hole \notin Nat
    /\ MaxTasks \in Nat \ {0} /\ MaxEntries \in Nat /\ MaxMade \in Nat
    /\ MaxClicks \in Nat /\ MaxFaults \in Nat

VARIABLES
    widgets, gen,   \* the array, and which array it is
    projects,       \* projectsList is not empty
    ready,          \* the entry whose dropdown offers the projects
    dashId,         \* currentDashboardId
    saved,          \* localStorage: fortenlog_current_widgets
    shelf,          \* server: the saved dashboards
    offered, alias, \* what the dropdown offers; whose config the array is
    entry, open,    \* the last entry into the view, and whether it is displayed
    cards,          \* the cards of its grid
    charts,         \* window.activeDashboardCharts
    run,            \* calls of renderAllWidgets so far, to tell cards apart
    modal,          \* the widget modal or the JSON modal
    task,           \* requests in flight
    made, clicks, faults

array == <<widgets, gen, alias, offered>>
grid == <<cards, charts, run, saved>>
rest == <<projects, ready, dashId, shelf>>
place == <<entry, open>>
vars == <<array, grid, rest, place, modal, task, made, clicks, faults>>

NoTask == [phase |-> "idle", entry |-> 0, then |-> "none", run |-> 0, i |-> 0,
           id |-> NoId, config |-> <<>>, list |-> NoBoards]
NoModal == [kind |-> "none", index |-> 0, gen |-> 0, entry |-> 0]
Chart(e, r, i) == [entry |-> e, run |-> r, idx |-> i]

Init ==
    /\ widgets = <<>> /\ gen = 0 /\ projects = FALSE /\ ready = 0 /\ dashId = NoId
    /\ saved = Nothing /\ shelf = [i \in {} |-> <<>>]
    /\ offered = shelf /\ alias = NoId
    /\ entry = 0 /\ open = FALSE /\ cards = {} /\ charts = {} /\ run = 0
    /\ modal = NoModal /\ task = [t \in Tasks |-> NoTask]
    /\ made = 0 /\ clicks = 0 /\ faults = 0

Click == clicks < MaxClicks /\ clicks' = clicks + 1 /\ UNCHANGED faults
Fault == faults < MaxFaults /\ faults' = faults + 1 /\ UNCHANGED clicks
Quiet == UNCHANGED <<clicks, faults>>
Free(t) == task[t] = NoTask /\ \A u \in 1..(t - 1) : task[u] # NoTask

\* A new array in place of the old one, which a dashboard's config may be.
Replace(ws, id, list) == widgets' = ws /\ gen' = gen + 1 /\ alias' = id /\ offered' = list
\* A change of the array itself; the dropdown's dashboard changes with it.
Mutate(ws) == /\ widgets' = ws /\ UNCHANGED <<gen, alias>>
              /\ offered' = IF alias = NoId THEN offered ELSE [offered EXCEPT ![alias] = ws]
----------------------------------------------------------------------------
(* Drawing *)

Attached(e) == open /\ e = entry

\* A card of widget i, made by a loop of entry e: none on a grid that is no
\* longer in the document, none for a hole; both end the loop with an error.
Drawable(e, ws, i) == Attached(e) /\ i <= Len(ws) /\ ws[i] # Hole
Card(r, ws, i) == [run |-> r, idx |-> i, w |-> ws[i]]

\* renderAllWidgets by a handler of entry e: save, clear, begin a loop in row
\* t, which goes on with then.
RenderAll(e, ws, t, then) ==
    /\ saved' = [known |-> TRUE, list |-> ws] /\ run' = run + 1 /\ charts' = {}
    /\ cards' = IF ~Attached(e) THEN cards
                ELSE IF Drawable(e, ws, 1) THEN {Card(run + 1, ws, 1)} ELSE {}
    /\ task' = [task EXCEPT ![t] =
                   IF Drawable(e, ws, 1)
                   THEN [NoTask EXCEPT !.phase = "query", !.entry = e, !.then = then,
                                       !.run = run + 1, !.i = 1]
                   ELSE NoTask]

\* The end of renderDashboardBuilder: an empty board gets two widgets.
NeedsDefaults(k) == k.then = "fetch" /\ widgets = <<>> /\ projects
SetDefaults(t, list) ==
    /\ made + 2 <= MaxMade /\ made' = made + 2
    /\ Replace(<<made + 1, made + 2>>, NoId, list)
    /\ RenderAll(task[t].entry, <<made + 1, made + 2>>, t, "none")

\* Mutant: the chart is made for a canvas that may be gone.
ChartAlways(k) == {Chart(k.entry, k.run, k.i)}

\* A chart needs its canvas in the document.
ChartOf(k) == IF open /\ \E c \in cards : c.run = k.run /\ c.idx = k.i
              THEN {Chart(k.entry, k.run, k.i)} ELSE {}

\* Mutant: a query that fails ends the loop.
QueryLandsOrFails(t) ==
    LET k == task[t]
        i == k.i + 1
    IN  /\ k.phase = "query" /\ UNCHANGED <<place, rest, modal, array, saved, run, made>>
        /\ \/ /\ Quiet /\ Drawable(k.entry, widgets, i)
              /\ cards' = cards \cup {Card(k.run, widgets, i)}
              /\ charts' = charts \cup ChartOf(k)
              /\ task' = [task EXCEPT ![t].i = i]
           \/ /\ IF Drawable(k.entry, widgets, i) THEN Fault ELSE Quiet
              /\ task' = [task EXCEPT ![t] = NoTask] /\ UNCHANGED <<cards, charts>>

\* The query of one widget is answered (a failure draws an empty chart); the
\* loop goes on with the array as it is now.
QueryLands(t) ==
    LET k == task[t]
        i == k.i + 1
    IN  /\ k.phase = "query" /\ Quiet /\ UNCHANGED <<place, rest, modal>>
        /\ \/ /\ Drawable(k.entry, widgets, i)
              /\ cards' = cards \cup {Card(k.run, widgets, i)}
              /\ charts' = charts \cup ChartOf(k)
              /\ task' = [task EXCEPT ![t].i = i]
              /\ UNCHANGED <<array, saved, run, made>>
           \/ /\ ~Drawable(k.entry, widgets, i) /\ ~NeedsDefaults(k)
              /\ charts' = charts \cup ChartOf(k) /\ task' = [task EXCEPT ![t] = NoTask]
              /\ UNCHANGED <<array, cards, saved, run, made>>
           \/ NeedsDefaults(k) /\ SetDefaults(t, offered)

----------------------------------------------------------------------------
(* Entering and leaving *)

\* renderDashboardBuilder; also each time a refresh draws the view again.
Enter ==
    /\ entry < MaxEntries /\ entry' = entry + 1 /\ open' = TRUE /\ cards' = {}
    /\ widgets' = IF saved.known THEN saved.list ELSE widgets
    /\ gen' = IF saved.known THEN gen + 1 ELSE gen
    /\ alias' = NoId /\ offered' = [i \in {} |-> <<>>]
    /\ modal' = IF modal.kind = "json" THEN NoModal ELSE modal
    /\ \E t \in Tasks : /\ Free(t)
                        /\ task' = [task EXCEPT ![t] = [NoTask EXCEPT !.phase = "projects",
                                                                      !.entry = entry + 1]]
    /\ Quiet /\ UNCHANGED <<charts, run, saved, rest, made>>

Leave ==
    /\ open /\ modal = NoModal /\ Click /\ open' = FALSE /\ cards' = {}
    /\ alias' = NoId /\ offered' = [i \in {} |-> <<>>]
    /\ UNCHANGED <<widgets, gen, charts, run, saved, rest, entry, modal, task, made>>

\* fetchProjects; without projects nothing is drawn.
ProjectsLand(t) ==
    /\ task[t].phase = "projects"
    /\ \/ /\ Quiet /\ projects' = TRUE
          /\ task' = [task EXCEPT ![t].phase = "boards", ![t].then = "fetch"]
          /\ ready' = IF task[t].entry = entry THEN entry ELSE ready
       \/ /\ Fault /\ projects' = FALSE /\ UNCHANGED ready
          /\ task' = [task EXCEPT ![t] = NoTask]
    /\ UNCHANGED <<array, grid, dashId, shelf, place, modal, made>>

ShelfNow == [i \in Ids |-> IF i \in DOMAIN shelf THEN [known |-> TRUE, list |-> shelf[i]]
                           ELSE Nothing]
Offers(list) == [i \in {j \in Ids : list[j].known} |-> list[i].list]

\* The list of dashboards as it is when the server answers; a failed request
\* counts as an empty one.
BoardsServed(t) ==
    /\ task[t].phase = "boards"
    /\ \/ Quiet /\ task' = [task EXCEPT ![t].phase = "boarded", ![t].list = ShelfNow]
       \/ Fault /\ task' = [task EXCEPT ![t].phase = "boarded"]
    /\ UNCHANGED <<array, grid, rest, place, modal, made>>

\* loadDashboards fills the dropdown, and its caller goes on.
BoardsLand(t) ==
    LET k == task[t]
        offers == IF Attached(k.entry) THEN Offers(k.list) ELSE offered
    IN  /\ k.phase = "boarded" /\ Quiet /\ UNCHANGED <<rest, place, modal>>
        /\ \/ /\ ~NeedsDefaults(k) /\ UNCHANGED <<widgets, gen, made>>
              /\ offered' = offers /\ alias' = IF Attached(k.entry) THEN NoId ELSE alias
              /\ IF k.then = "save" THEN task' = [task EXCEPT ![t] = NoTask] /\ UNCHANGED grid
                 ELSE RenderAll(k.entry, widgets, t, k.then)
           \/ NeedsDefaults(k) /\ SetDefaults(t, offers)
----------------------------------------------------------------------------
(* The user *)

OnBoard == open /\ modal = NoModal /\ Click
Redraw(ws) == \E t \in Tasks : Free(t) /\ RenderAll(entry, ws, t, "none")

SwitchProject ==
    /\ OnBoard /\ ready = entry
    /\ Replace(<<>>, NoId, offered) /\ dashId' = NoId
    /\ \E t \in Tasks : Free(t) /\ task' = [task EXCEPT ![t] =
            [NoTask EXCEPT !.phase = "boards", !.entry = entry, !.then = "switch"]]
    /\ UNCHANGED <<grid, projects, ready, shelf, place, modal, made>>

\* The dropdown: a dashboard, or none.
SelectDashboard ==
    /\ OnBoard /\ DOMAIN offered # {}
    /\ \E id \in (DOMAIN offered) \cup {NoId} :
        LET ws == IF id = NoId THEN <<>> ELSE offered[id]
        IN  dashId' = id /\ Replace(ws, id, offered) /\ Redraw(ws)
    /\ UNCHANGED <<projects, ready, shelf, place, modal, made>>

Swapped(ws, a, b) == [ws EXCEPT ![a] = ws[b], ![b] = ws[a]]
SwapWidgets ==
    /\ OnBoard
    /\ \E c, d \in cards :
        /\ c.idx # d.idx /\ {c.idx, d.idx} \subseteq 1..Len(widgets)
        /\ LET ws == Swapped(widgets, c.idx, d.idx) IN Mutate(ws) /\ Redraw(ws)
    /\ UNCHANGED <<rest, place, modal, made>>

Spliced(ws, i) == IF i > Len(ws) THEN ws ELSE SubSeq(ws, 1, i - 1) \o SubSeq(ws, i + 1, Len(ws))

\* Mutant: only the card goes, the others stay with the index they have.
DeleteWidgetCard ==
    /\ OnBoard
    /\ \E c \in cards :
        LET ws == Spliced(widgets, c.idx) IN
        /\ Mutate(ws) /\ cards' = cards \ {c} /\ saved' = [known |-> TRUE, list |-> ws]
    /\ UNCHANGED <<charts, run, task, rest, place, modal, made>>

\* Mutant: the board is drawn again but not saved.
DeleteWidgetUnsaved ==
    /\ OnBoard
    /\ \E c \in cards :
        LET ws == Spliced(widgets, c.idx) IN
        /\ Mutate(ws) /\ cards' = {} /\ charts' = {}
    /\ UNCHANGED <<saved, run, task, rest, place, modal, made>>

DeleteWidget ==
    /\ OnBoard
    /\ \E c \in cards :
        LET ws == Spliced(widgets, c.idx) IN Mutate(ws) /\ Redraw(ws)
    /\ UNCHANGED <<rest, place, modal, made>>

\* The end of a drag of the corner: the same widgets, drawn anew.
ResizeWidget ==
    /\ OnBoard /\ cards # {} /\ Redraw(widgets)
    /\ UNCHANGED <<array, rest, place, modal, made>>

\* addWidget, editWidget: the modal has the array and the handlers of now;
\* editJsonWidget, Import JSON: a modal of the view, over the current array.
OpenModal ==
    /\ OnBoard
    /\ \E i \in {0} \cup {c.idx : c \in cards}, kind \in {"form", "json"} :
        modal' = [kind |-> kind, index |-> i, gen |-> gen, entry |-> entry]
    /\ UNCHANGED <<array, grid, rest, place, task, made>>

CancelModal ==
    /\ modal # NoModal /\ Click /\ modal' = NoModal
    /\ UNCHANGED <<array, grid, rest, place, task, made>>

\* widgets[i] = w; what lies between the end and i is never assigned.
Put(ws, i, w) == [j \in 1..(IF i > Len(ws) THEN i ELSE Len(ws)) |->
                     IF j = i THEN w ELSE IF j <= Len(ws) THEN ws[j] ELSE Hole]
Entered(w) == IF modal.index = 0 THEN Append(widgets, w) ELSE Put(widgets, modal.index, w)

\* The form writes to the array it was opened with.  Is that another one by
\* now, the widget is lost.  Its renderAllWidgets is the one of its entry.
SaveModal ==
    LET ws == IF modal.kind = "json" \/ modal.gen = gen THEN Entered(made + 1) ELSE widgets
    IN  /\ modal # NoModal /\ Click /\ made < MaxMade /\ made' = made + 1 /\ modal' = NoModal
        /\ UNCHANGED <<rest, place>>
        /\ Mutate(ws)
        /\ \E t \in Tasks : Free(t) /\ RenderAll(modal.entry, ws, t, "none")

SaveDashboard ==
    /\ OnBoard /\ UNCHANGED <<array, grid, rest, place, modal, made>>
    /\ \E t \in Tasks : Free(t) /\ task' = [task EXCEPT ![t] =
            [NoTask EXCEPT !.phase = "save", !.entry = entry, !.then = "save",
                           !.id = dashId, !.config = widgets]]

\* Stored or not, the user is told so, and the list is loaded again.
SaveLands(t) ==
    LET k == task[t] IN
    /\ k.phase = "save"
    /\ \/ /\ Quiet
          /\ \E id \in IF k.id = NoId THEN Ids \ DOMAIN shelf ELSE {k.id} :
                shelf' = [j \in DOMAIN shelf \cup {id} |-> IF j = id THEN k.config ELSE shelf[j]]
       \/ Fault /\ UNCHANGED shelf
    /\ task' = [task EXCEPT ![t] = [NoTask EXCEPT !.phase = "boards", !.entry = k.entry,
                                                  !.then = "save"]]
    /\ UNCHANGED <<array, grid, projects, ready, dashId, place, modal, made>>
----------------------------------------------------------------------------
Answer(t) ==
    \/ ProjectsLand(t) \/ BoardsServed(t) \/ BoardsLand(t) \/ QueryLands(t) \/ SaveLands(t)

Next ==
    \/ \E t \in Tasks : Answer(t)
    \/ Enter \/ Leave \/ SwitchProject \/ SelectDashboard \/ SwapWidgets \/ DeleteWidget
    \/ ResizeWidget \/ OpenModal \/ CancelModal \/ SaveModal \/ SaveDashboard

Spec == Init /\ [][Next]_vars

(* Every request is answered or fails. *)
FairSpec == Spec /\ \A t \in Tasks : WF_vars(Answer(t))
----------------------------------------------------------------------------
CardRec == [run: Nat, idx: Nat \ {0}, w: Made]
TaskRec == [phase: {"idle", "projects", "boards", "boarded", "query", "save"}, entry: Nat,
            then: {"none", "fetch", "switch", "save"}, run: Nat, i: Nat,
            id: Ids \cup {NoId}, config: Arrays, list: [Ids -> Kept]]

TypeOK ==
    /\ widgets \in Arrays /\ gen \in Nat /\ projects \in BOOLEAN /\ ready \in Nat
    /\ dashId \in Ids \cup {NoId} /\ saved \in Kept
    /\ DOMAIN shelf \subseteq Ids /\ \A i \in DOMAIN shelf : shelf[i] \in Arrays
    /\ DOMAIN offered \subseteq Ids /\ \A i \in DOMAIN offered : offered[i] \in Arrays
    /\ alias \in Ids \cup {NoId} /\ entry \in Nat /\ open \in BOOLEAN
    /\ cards \subseteq CardRec /\ charts \subseteq [entry: Nat, run: Nat, idx: Nat]
    /\ run \in Nat /\ made \in 0..MaxMade /\ clicks \in Nat /\ faults \in Nat
    /\ modal \in [kind: {"none", "form", "json"}, index: Nat, gen: Nat, entry: Nat]
    /\ task \in [Tasks -> TaskRec]

\* The project was switched and its list is still awaited: the old cards are
\* there, over an array that is empty.
Switching == \E t \in Tasks : task[t].then = "switch" /\ task[t].entry = entry
                              /\ task[t].phase \in {"boards", "boarded"}

\* The buttons of a card act on the widget it shows, whatever loops, modals
\* and entries of before are still under way.
CardsMatch == Switching \/ \A c \in cards : c.idx <= Len(widgets) /\ widgets[c.idx] = c.w

\* Handlers, charts and modals of before are told from those of now by their
\* entry, and cards are only on the grid that is displayed.
EntryRule ==
    /\ \A t \in Tasks : task[t].entry <= entry
    /\ \A x \in charts : x.entry <= entry
    /\ modal.entry <= entry
    /\ ~open => cards = {}

\* A board that was never drawn was never saved.
DrawnRule ==
    /\ ~saved.known => widgets = <<>> /\ cards = {} /\ modal.index = 0
    /\ \A t \in Tasks : task[t].phase = "query" => saved.known

\* An entry into the view closes the JSON modal, and takes the array away from
\* a form that was opened for a widget of the entry before.
ModalRule ==
    /\ modal.kind = "none" => modal = NoModal
    /\ modal.kind # "none" /\ modal.entry = entry => open
    /\ modal.kind = "json" => modal.entry = entry
    /\ modal.gen <= gen
    /\ modal.kind = "form" /\ modal.entry # entry /\ modal.gen = gen => modal.index = 0

\* That, in well-typed states: no overlap of loops leaves a card behind.
BoardMatches == TypeOK /\ EntryRule /\ DrawnRule /\ ModalRule /\ CardsMatch

\* Leaving and entering again brings back the widgets the user had.
SavedIsBoard == Switching \/ widgets = (IF saved.known THEN saved.list ELSE <<>>)

\* "Leak-free Chart instances": a chart of this grid has a card of this grid.
ChartsHaveCards == open => \A x \in charts : x.entry = entry =>
                       \E c \in cards : c.run = x.run /\ c.idx = x.idx

\* Every widget before a hole has a card.
Filled == \A i \in 1..Len(widgets) :
    (\A j \in 1..i : widgets[j] # Hole) => \E c \in cards : c.idx = i
Drawing(e) == open /\ entry = e /\ \E t \in Tasks : task[t].phase = "query" /\ task[t].entry = e

\* A board that is being drawn gets all its cards, although its loops overlap,
\* queries fail and the array changes or is replaced between two cards.
BoardFills == \A e \in 1..MaxEntries : Drawing(e) ~> (Filled \/ ~open \/ entry # e)
=============================================================================
