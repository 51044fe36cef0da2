------------------------- MODULE WidgetBoard_proofs -------------------------
(***************************************************************************)
(* Proofs about WidgetBoard, for any number of dashboards, widgets, entries *)
(* into the view and drawing loops under way.                              *)
(***************************************************************************)
EXTENDS WidgetBoard, SequenceTheorems, TLAPS

IInv == BoardMatches /\ SavedIsBoard /\ ChartsHaveCards

Matching(cs, ws) == \A c \in cs : c.idx <= Len(ws) /\ ws[c.idx] = c.w
\* Row t awaits the list of dashboards after a switch of the project.
Awaits(t) == task[t].then = "switch" /\ task[t].entry = entry
             /\ task[t].phase \in {"boards", "boarded"}

-----------------------------------------------------------------------------
(* Arrays of widgets                                                       *)

Elems == Made \cup {Hole}

LEMMA Typed == TypeOK => /\ widgets \in Seq(Elems) /\ Len(widgets) \in Nat
                         /\ \A i \in 1 .. Len(widgets) : widgets[i] \in Elems
                         /\ entry \in Nat /\ run \in Nat /\ gen \in Nat
                         /\ task \in [Tasks -> TaskRec]
BY DEF TypeOK, Arrays, Elems

LEMMA SwappedType ==
    ASSUME NEW ws \in Arrays, NEW a \in 1 .. Len(ws), NEW b \in 1 .. Len(ws)
    PROVE  Swapped(ws, a, b) \in Arrays
BY DEF Swapped, Arrays

LEMMA SplicedType ==
    ASSUME NEW ws \in Arrays, NEW i \in Nat \ {0}
    PROVE  Spliced(ws, i) \in Arrays
<1>1. ws \in Seq(Elems) /\ Len(ws) \in Nat
      /\ \A j \in 1 .. Len(ws) : ws[j] \in Elems
  BY DEF Arrays, Elems
<1>2. CASE i > Len(ws)
  BY <1>2 DEF Spliced
<1>3. CASE ~(i > Len(ws))
  <2>1. SubSeq(ws, 1, i - 1) \in Seq(Elems)
    <3>1. \A j \in 1 .. i - 1 : ws[j] \in Elems
      BY <1>1, <1>3
    <3>. QED BY <3>1, SubSeqProperties
  <2>2. SubSeq(ws, i + 1, Len(ws)) \in Seq(Elems)
    <3>1. \A j \in i + 1 .. Len(ws) : ws[j] \in Elems
      BY <1>1, <1>3
    <3>. QED BY <1>1, <3>1, SubSeqProperties
  <2>3. Spliced(ws, i) = SubSeq(ws, 1, i - 1) \o SubSeq(ws, i + 1, Len(ws))
    BY <1>1, <1>3 DEF Spliced
  <2>. QED BY <2>1, <2>2, <2>3, ConcatProperties DEF Arrays, Elems
<1>. QED BY <1>1, <1>2, <1>3

LEMMA PutType ==
    ASSUME NEW ws \in Arrays, NEW i \in Nat \ {0}, NEW w \in Made
    PROVE  Put(ws, i, w) \in Arrays
<1> DEFINE n == IF i > Len(ws) THEN i ELSE Len(ws)
           val(j) == IF j = i THEN w ELSE IF j <= Len(ws) THEN ws[j] ELSE Hole
<1>1. ws \in Seq(Elems) /\ Len(ws) \in Nat /\ n \in Nat
      /\ \A j \in 1 .. Len(ws) : ws[j] \in Elems
  BY DEF Arrays, Elems
<1>2. \A j \in 1 .. n : val(j) \in Elems
  BY <1>1 DEF Elems
<1>3. Put(ws, i, w) = [j \in 1 .. n |-> val(j)]
  BY DEF Put
<1> HIDE DEF n, val
<1>4. Put(ws, i, w) \in [1 .. n -> Elems]
  BY <1>2, <1>3
<1>. QED BY <1>1, <1>4, SeqDef DEF Arrays, Elems

LEMMA EmptyArray == <<>> \in Arrays /\ Len(<<>>) = 0
BY DEF Arrays

LEMMA EmptyList == NoBoards \in [Ids -> Kept]
BY EmptyArray DEF NoBoards, Nothing, Kept

-----------------------------------------------------------------------------
(* Drawing                                                                 *)

\* What renderAllWidgets leaves behind: the board saved, no chart, the cards of
\* the grid those of the array (an old grid is left alone).
LEMMA RenderAllFacts ==
    ASSUME TypeOK, EntryRule, NEW e \in Nat, e <= entry, NEW ws \in Arrays,
           NEW t \in Tasks, NEW then \in {"none", "fetch", "switch", "save"},
           RenderAll(e, ws, t, then), UNCHANGED place
    PROVE  /\ saved' = [known |-> TRUE, list |-> ws] /\ saved' \in Kept
           /\ charts' = {} /\ run' = run + 1 /\ run' \in Nat
           /\ cards' \subseteq CardRec
           /\ ~open => cards' = {}
           /\ Attached(e) => Matching(cards', ws)
           /\ ~Attached(e) => cards' = cards
           /\ task' \in [Tasks -> TaskRec]
           /\ \A u \in Tasks : task'[u].entry <= entry
           /\ \A u \in Tasks \ {t} : task'[u] = task[u]
<1>1. /\ saved' = [known |-> TRUE, list |-> ws] /\ run' = run + 1 /\ charts' = {}
      /\ cards' = IF ~Attached(e) THEN cards
                  ELSE IF Drawable(e, ws, 1) THEN {Card(run + 1, ws, 1)} ELSE {}
      /\ \/ /\ task' = [task EXCEPT ![t] =
                  [NoTask EXCEPT !.phase = "query", !.entry = e, !.then = then,
                                 !.run = run + 1, !.i = 1]]
         \/ task' = [task EXCEPT ![t] = NoTask]
  BY DEF RenderAll
<1>2. ws \in Seq(Elems) /\ Len(ws) \in Nat
      /\ \A j \in 1 .. Len(ws) : ws[j] \in Elems
  BY DEF Arrays, Elems
<1>3. saved' \in Kept /\ run' \in Nat
  BY <1>1, Typed DEF Kept
<1>4. ASSUME Drawable(e, ws, 1)
      PROVE  /\ Card(run + 1, ws, 1) \in CardRec
             /\ Card(run + 1, ws, 1).idx <= Len(ws)
             /\ ws[Card(run + 1, ws, 1).idx] = Card(run + 1, ws, 1).w
  BY <1>2, <1>4, Typed DEF Drawable, Card, CardRec, Elems
<1>5. cards' \subseteq CardRec
  BY <1>1, <1>4 DEF TypeOK
<1>6. ~open => cards' = {}
  BY <1>1 DEF EntryRule, Attached
<1>7. Attached(e) => Matching(cards', ws)
  BY <1>1, <1>4 DEF Matching
<1>8. /\ NoTask \in TaskRec /\ NoTask.entry = 0
      /\ [NoTask EXCEPT !.phase = "query", !.entry = e, !.then = then,
                        !.run = run + 1, !.i = 1] \in TaskRec
      /\ [NoTask EXCEPT !.phase = "query", !.entry = e, !.then = then,
                        !.run = run + 1, !.i = 1].entry = e
  <2> DEFINE r1 == [NoTask EXCEPT !.phase = "query"]
             r2 == [r1 EXCEPT !.entry = e]
             r3 == [r2 EXCEPT !.then = then]
             r4 == [r3 EXCEPT !.run = run + 1]
             r5 == [r4 EXCEPT !.i = 1]
  <2>1. run + 1 \in Nat /\ <<>> \in Arrays
    BY Typed, EmptyArray
  <2>2. NoTask \in TaskRec /\ NoTask.entry = 0
    BY <2>1, EmptyList DEF NoTask, TaskRec
  <2>3. r1 \in TaskRec
    BY <2>2 DEF TaskRec
  <2> HIDE DEF r1
  <2>4. r2 \in TaskRec /\ r2.entry = e
    BY <2>3 DEF TaskRec
  <2> HIDE DEF r2
  <2>5. r3 \in TaskRec /\ r3.entry = e
    BY <2>4 DEF TaskRec
  <2> HIDE DEF r3
  <2>6. r4 \in TaskRec /\ r4.entry = e
    BY <2>1, <2>5 DEF TaskRec
  <2> HIDE DEF r4
  <2>7. r5 \in TaskRec /\ r5.entry = e
    BY <2>6 DEF TaskRec
  <2>8. r5 = [NoTask EXCEPT !.phase = "query", !.entry = e, !.then = then,
                            !.run = run + 1, !.i = 1]
    BY DEF r1, r2, r3, r4, r5
  <2>. QED BY <2>2, <2>7, <2>8
<1>9. /\ task' \in [Tasks -> TaskRec]
      /\ \A u \in Tasks \ {t} : task'[u] = task[u]
      /\ task'[t].entry <= entry
  <2>1. entry \in Nat /\ task \in [Tasks -> TaskRec]
    BY Typed
  <2>2. PICK row \in TaskRec : task' = [task EXCEPT ![t] = row] /\ row.entry <= entry
    <3>1. CASE task' = [task EXCEPT ![t] = NoTask]
      <4>1. NoTask \in TaskRec /\ NoTask.entry <= entry
        BY <1>8, <2>1
      <4>. QED BY <3>1, <4>1
    <3>2. CASE task' # [task EXCEPT ![t] = NoTask]
      BY <1>1, <1>8, <3>2
    <3>. QED BY <3>1, <3>2
  <2>. QED BY <2>1, <2>2
<1>10. \A u \in Tasks : task'[u].entry <= entry
  BY <1>9 DEF EntryRule
<1>. QED BY <1>1, <1>3, <1>5, <1>6, <1>7, <1>9, <1>10

\* Every operation that draws the board with the array it leaves keeps the
\* invariant, if it draws on the grid displayed, or what is left on that grid
\* matches the array all the same.
LEMMA RenderInv ==
    ASSUME IInv, NEW e \in Nat, e <= entry, NEW ws \in Arrays, NEW t \in Tasks,
           NEW then \in {"none", "fetch", "switch", "save"},
           RenderAll(e, ws, t, then), UNCHANGED place, widgets' = ws,
           \/ Attached(e)
           \/ \E u \in Tasks \ {t} : Awaits(u)
           \/ Matching(cards, ws),
           modal' \in {modal, NoModal}, gen' \in Nat, gen <= gen',
           alias' \in Ids \cup {NoId}, DOMAIN offered' \subseteq Ids,
           \A i \in DOMAIN offered' : offered'[i] \in Arrays,
           dashId' \in Ids \cup {NoId}, UNCHANGED <<projects, ready, shelf>>,
           made' \in 0 .. MaxMade, clicks' \in Nat, faults' \in Nat
    PROVE  IInv'
<1>1. TypeOK /\ EntryRule /\ DrawnRule /\ ModalRule /\ CardsMatch
  BY DEF IInv, BoardMatches
<1>2. /\ saved' = [known |-> TRUE, list |-> ws] /\ saved' \in Kept
      /\ charts' = {} /\ run' \in Nat
      /\ cards' \subseteq CardRec
      /\ ~open => cards' = {}
      /\ Attached(e) => Matching(cards', ws)
      /\ ~Attached(e) => cards' = cards
      /\ task' \in [Tasks -> TaskRec]
      /\ \A u \in Tasks : task'[u].entry <= entry
      /\ \A u \in Tasks \ {t} : task'[u] = task[u]
  BY <1>1, RenderAllFacts
<1>3. open' = open /\ entry' = entry
  BY DEF place
<1>4. NoModal \in [kind: {"none", "form", "json"}, index: Nat, gen: Nat, entry: Nat]
  BY DEF NoModal
<1>5. TypeOK'
  BY <1>1, <1>2, <1>3, <1>4 DEF TypeOK
<1>6. EntryRule'
  BY <1>1, <1>2, <1>3, Typed DEF EntryRule, NoModal
<1>7. DrawnRule'
  BY <1>2 DEF DrawnRule
<1>8. ModalRule'
  BY <1>1, <1>3, Typed DEF ModalRule, NoModal, TypeOK
<1>9. CardsMatch'
  <2>1. CASE Matching(cards', ws)
    BY <2>1 DEF Matching, CardsMatch
  <2>2. CASE ~Attached(e) /\ \E u \in Tasks \ {t} : Awaits(u)
    BY <1>2, <1>3, <2>2 DEF CardsMatch, Switching, Awaits
  <2>. QED BY <1>2, <2>1, <2>2
<1>10. SavedIsBoard' /\ ChartsHaveCards'
  BY <1>2 DEF SavedIsBoard, ChartsHaveCards
<1>. QED BY <1>5, <1>6, <1>7, <1>8, <1>9, <1>10 DEF IInv, BoardMatches

-----------------------------------------------------------------------------
(* Requests in flight                                                      *)

LEMMA IdleRow == NoTask \in TaskRec /\ NoTask.phase = "idle" /\ NoTask.entry = 0
BY EmptyArray, EmptyList DEF NoTask, TaskRec

LEMMA ProjectsRow ==
    ASSUME NEW e \in Nat, NEW r, r = [NoTask EXCEPT !.phase = "projects", !.entry = e]
    PROVE  r \in TaskRec /\ r.phase = "projects" /\ r.entry = e
BY IdleRow DEF TaskRec

LEMMA BoardsRow ==
    ASSUME NEW e \in Nat, NEW then \in {"switch", "save"}, NEW r,
           r = [NoTask EXCEPT !.phase = "boards", !.entry = e, !.then = then]
    PROVE  r \in TaskRec /\ r.phase = "boards" /\ r.entry = e /\ r.then = then
BY IdleRow DEF TaskRec

\* A step that rewrites one row leaves a switch another row awaits pending.
LEMMA SwitchKept ==
    ASSUME TypeOK, NEW t \in Tasks, NEW row, task' = [task EXCEPT ![t] = row],
           entry' = entry, ~Awaits(t)
    PROVE  Switching => Switching'
<1>1. task \in [Tasks -> TaskRec]
  BY Typed
<1>2. \A u \in Tasks \ {t} : task'[u] = task[u]
  BY <1>1
<1>. QED BY <1>2 DEF Switching, Awaits

\* Nothing to match is left to a row that awaits no switch.
LEMMA Elsewhere ==
    ASSUME CardsMatch, NEW t \in Tasks, ~Awaits(t)
    PROVE  (\E u \in Tasks \ {t} : Awaits(u)) \/ Matching(cards, widgets)
BY DEF CardsMatch, Switching, Awaits, Matching

LEMMA FreeRow ==
    ASSUME NEW t \in Tasks, Free(t)
    PROVE  task[t] = NoTask /\ ~Awaits(t)
BY DEF Free, Awaits, NoTask

\* What one row may do without touching the array, the grid or the modal.
LEMMA RowInv ==
    ASSUME IInv, NEW t \in Tasks, NEW row \in TaskRec,
           task' = [task EXCEPT ![t] = row], row.entry <= entry, row.phase # "query",
           ~Awaits(t), UNCHANGED <<widgets, gen, grid, place, modal, made>>,
           projects' \in BOOLEAN, ready' \in Nat, dashId' \in Ids \cup {NoId},
           DOMAIN shelf' \subseteq Ids, \A i \in DOMAIN shelf' : shelf'[i] \in Arrays,
           alias' \in Ids \cup {NoId}, DOMAIN offered' \subseteq Ids,
           \A i \in DOMAIN offered' : offered'[i] \in Arrays,
           clicks' \in Nat, faults' \in Nat
    PROVE  IInv'
<1>1. TypeOK /\ EntryRule /\ DrawnRule /\ ModalRule /\ CardsMatch
  BY DEF IInv, BoardMatches
<1>2. UNCHANGED <<cards, charts, run, saved, entry, open>>
  BY DEF grid, place
<1>3. task' \in [Tasks -> TaskRec] /\ task'[t] = row
      /\ \A u \in Tasks \ {t} : task'[u] = task[u]
  BY <1>1, Typed
<1>4. TypeOK'
  BY <1>1, <1>2, <1>3 DEF TypeOK
<1>5. EntryRule'
  BY <1>1, <1>2, <1>3 DEF EntryRule
<1>6. DrawnRule'
  BY <1>1, <1>2, <1>3 DEF DrawnRule
<1>7. ModalRule'
  BY <1>1, <1>2 DEF ModalRule
<1>8. Switching => Switching'
  BY <1>1, <1>2, SwitchKept
<1>9. CardsMatch'
  BY <1>1, <1>2, <1>8 DEF CardsMatch
<1>10. SavedIsBoard'
  BY <1>2, <1>8 DEF IInv, SavedIsBoard
<1>11. ChartsHaveCards'
  BY <1>2 DEF IInv, ChartsHaveCards
<1>. QED BY <1>4, <1>5, <1>6, <1>7, <1>9, <1>10, <1>11 DEF IInv, BoardMatches

-----------------------------------------------------------------------------
(* The initial states                                                      *)

LEMMA InitInv == Init => IInv
<1> SUFFICES ASSUME Init PROVE IInv
  OBVIOUS
<1>1. /\ widgets = <<>> /\ gen = 0 /\ projects = FALSE /\ ready = 0 /\ dashId = NoId
      /\ saved = [known |-> FALSE, list |-> <<>>] /\ DOMAIN shelf = {} /\ offered = shelf
      /\ alias = NoId /\ entry = 0 /\ open = FALSE /\ cards = {} /\ charts = {} /\ run = 0
      /\ modal = NoModal /\ task = [t \in Tasks |-> NoTask]
      /\ made = 0 /\ clicks = 0 /\ faults = 0
  BY DEF Init, Nothing
<1>2. saved \in Kept /\ widgets \in Arrays /\ ~saved.known
  BY <1>1, EmptyArray DEF Kept
<1>3. \A t \in Tasks : task[t] = NoTask
  BY <1>1
<1>4. task \in [Tasks -> TaskRec]
  BY <1>1, IdleRow
<1>5. MaxMade \in Nat
  BY BoardAssumption
<1>6. TypeOK
  <2>1. modal \in [kind: {"none", "form", "json"}, index: Nat, gen: Nat, entry: Nat]
    BY <1>1 DEF NoModal
  <2>2. alias \in Ids \cup {NoId} /\ dashId \in Ids \cup {NoId} /\ made \in 0 .. MaxMade
    BY <1>1, <1>5
  <2>. QED BY <1>1, <1>2, <1>4, <2>1, <2>2 DEF TypeOK
<1>7. EntryRule /\ DrawnRule /\ ModalRule
  <2>1. modal.kind = "none" /\ modal.entry = 0 /\ modal.index = 0 /\ modal.gen = 0
    BY <1>1 DEF NoModal
  <2>2. EntryRule
    BY <1>1, <1>3, <2>1, IdleRow DEF EntryRule
  <2>3. DrawnRule
    BY <1>1, <1>3, <2>1, IdleRow DEF DrawnRule
  <2>4. ModalRule
    BY <1>1, <2>1 DEF ModalRule
  <2>. QED BY <2>2, <2>3, <2>4
<1>8. CardsMatch /\ SavedIsBoard /\ ChartsHaveCards
  BY <1>1, <1>2 DEF CardsMatch, SavedIsBoard, ChartsHaveCards
<1>. QED BY <1>6, <1>7, <1>8 DEF IInv, BoardMatches

-----------------------------------------------------------------------------
(* Answers                                                                 *)

LEMMA SetDefaultsInv ==
    ASSUME IInv, NEW t \in Tasks, NeedsDefaults(task[t]), NEW list,
           DOMAIN list \subseteq Ids, \A i \in DOMAIN list : list[i] \in Arrays,
           SetDefaults(t, list), UNCHANGED <<place, rest, modal>>,
           clicks' \in Nat, faults' \in Nat
    PROVE  IInv'
<1> DEFINE ws == <<made + 1, made + 2>>
<1>1. TypeOK /\ EntryRule /\ CardsMatch
  BY DEF IInv, BoardMatches
<1>2. ws \in Arrays /\ made' \in 0 .. MaxMade
  <2>1. made + 1 \in Made /\ made + 2 \in Made /\ made + 2 \in 0 .. MaxMade
    BY <1>1, BoardAssumption DEF TypeOK, SetDefaults, Made
  <2>. QED BY <2>1 DEF SetDefaults, Arrays
<1>3. /\ widgets' = ws /\ gen' = gen + 1 /\ alias' = NoId /\ offered' = list
      /\ RenderAll(task[t].entry, ws, t, "none")
  BY DEF SetDefaults, Replace
<1>4. task[t] \in TaskRec /\ task[t].entry \in Nat /\ task[t].entry <= entry
      /\ task[t].then = "fetch"
  BY <1>1, Typed DEF EntryRule, NeedsDefaults, TaskRec
<1>5. (\E u \in Tasks \ {t} : Awaits(u)) \/ Matching(cards, ws)
  <2>1. (\E u \in Tasks \ {t} : Awaits(u)) \/ Matching(cards, widgets)
    BY <1>1, <1>4, Elsewhere DEF Awaits
  <2>2. ASSUME Matching(cards, widgets) PROVE cards = {}
    BY <1>1, <2>2, EmptyArray DEF Matching, NeedsDefaults, TypeOK, CardRec
  <2>. QED BY <2>1, <2>2 DEF Matching
<1>6. gen' \in Nat /\ gen <= gen' /\ dashId' \in Ids \cup {NoId}
      /\ UNCHANGED <<projects, ready, shelf>>
  BY <1>1, <1>3 DEF TypeOK, rest
<1> HIDE DEF ws
<1>. QED BY <1>2, <1>3, <1>4, <1>5, <1>6, RenderInv

LEMMA QueryLandsInv ==
    ASSUME IInv, NEW t \in Tasks, QueryLands(t)
    PROVE  IInv'
<1> DEFINE k == task[t]
           i == k.i + 1
<1>1. TypeOK /\ EntryRule /\ DrawnRule /\ ModalRule /\ CardsMatch
  BY DEF IInv, BoardMatches
<1>2. /\ k.phase = "query" /\ ~Awaits(t) /\ UNCHANGED <<place, rest, modal>>
      /\ UNCHANGED <<clicks, faults, entry, open, projects, ready, dashId, shelf>>
      /\ clicks' \in Nat /\ faults' \in Nat
  BY <1>1 DEF QueryLands, Quiet, Awaits, place, rest, TypeOK
<1>3. k \in TaskRec /\ i \in Nat \ {0} /\ k.run \in Nat /\ k.entry \in Nat /\ k.entry <= entry
      /\ saved.known
  BY <1>1, <1>2, Typed DEF TaskRec, EntryRule, DrawnRule
<1>4. ChartOf(k) \subseteq [entry: Nat, run: Nat, idx: Nat]
      /\ \A x \in ChartOf(k) : x.entry <= entry
                               /\ open /\ \E c \in cards : c.run = x.run /\ c.idx = x.idx
  BY <1>3 DEF ChartOf, Chart, TaskRec
<1>5. CASE /\ Drawable(k.entry, widgets, i)
           /\ cards' = cards \cup {Card(k.run, widgets, i)}
           /\ charts' = charts \cup ChartOf(k)
           /\ task' = [task EXCEPT ![t].i = i]
           /\ UNCHANGED <<array, saved, run, made>>
  <2> DEFINE row == [k EXCEPT !.i = i]
  <2>1. row \in TaskRec /\ row.entry = k.entry /\ row.phase = k.phase
    BY <1>3 DEF TaskRec
  <2>2. task' = [task EXCEPT ![t] = row]
    BY <1>1, <1>5, Typed
  <2> HIDE DEF row
  <2>3. UNCHANGED <<widgets, gen, alias, offered, saved, run, made>>
    BY <1>5 DEF array
  <2>4. /\ Card(k.run, widgets, i) \in CardRec
        /\ Card(k.run, widgets, i).idx <= Len(widgets)
        /\ widgets[Card(k.run, widgets, i).idx] = Card(k.run, widgets, i).w
    BY <1>1, <1>3, <1>5, Typed DEF Drawable, Card, CardRec, Elems
  <2>5. /\ task' \in [Tasks -> TaskRec] /\ task'[t] = row
        /\ \A u \in Tasks \ {t} : task'[u] = task[u]
    BY <1>1, <2>1, <2>2, Typed
  <2>6. TypeOK'
    BY <1>1, <1>2, <1>4, <1>5, <2>3, <2>4, <2>5 DEF TypeOK
  <2>7. EntryRule'
    BY <1>1, <1>2, <1>4, <1>5, <2>1, <2>5 DEF EntryRule, Drawable, Attached
  <2>8. DrawnRule'
    BY <1>1, <1>3, <2>3 DEF DrawnRule
  <2>9. ModalRule'
    BY <1>1, <1>2, <2>3 DEF ModalRule
  <2>10. Switching => Switching'
    BY <1>1, <1>2, <2>2, SwitchKept
  <2>11. CardsMatch'
    BY <1>1, <1>5, <2>3, <2>4, <2>10 DEF CardsMatch
  <2>12. SavedIsBoard'
    BY <2>3, <2>10 DEF IInv, SavedIsBoard
  <2>13. ChartsHaveCards'
    BY <1>2, <1>4, <1>5 DEF IInv, ChartsHaveCards
  <2>. QED BY <2>6, <2>7, <2>8, <2>9, <2>11, <2>12, <2>13 DEF IInv, BoardMatches
<1>6. CASE /\ charts' = charts \cup ChartOf(k) /\ task' = [task EXCEPT ![t] = NoTask]
           /\ UNCHANGED <<array, cards, saved, run, made>>
  <2>1. UNCHANGED <<widgets, gen, alias, offered>>
    BY <1>6 DEF array
  <2>2. /\ task' \in [Tasks -> TaskRec] /\ task'[t] = NoTask
        /\ \A u \in Tasks \ {t} : task'[u] = task[u]
    BY <1>1, <1>6, Typed, IdleRow
  <2>3. TypeOK'
    BY <1>1, <1>2, <1>4, <1>6, <2>1, <2>2 DEF TypeOK
  <2>4. EntryRule'
    <3>1. NoTask.entry <= entry
      BY <1>1, IdleRow DEF TypeOK
    <3>. QED BY <1>1, <1>2, <1>4, <1>6, <2>2, <3>1 DEF EntryRule
  <2>5. DrawnRule'
    BY <1>1, <1>3, <1>6 DEF DrawnRule
  <2>6. ModalRule'
    BY <1>1, <1>2, <2>1 DEF ModalRule
  <2>7. Switching => Switching'
    BY <1>1, <1>2, <1>6, SwitchKept
  <2>8. CardsMatch'
    BY <1>1, <1>6, <2>1, <2>7 DEF CardsMatch
  <2>9. SavedIsBoard'
    BY <1>6, <2>1, <2>7 DEF IInv, SavedIsBoard
  <2>10. ChartsHaveCards'
    BY <1>2, <1>4, <1>6 DEF IInv, ChartsHaveCards
  <2>. QED BY <2>3, <2>4, <2>5, <2>6, <2>8, <2>9, <2>10 DEF IInv, BoardMatches
<1>7. CASE NeedsDefaults(k) /\ SetDefaults(t, offered)
  BY <1>1, <1>2, <1>7, SetDefaultsInv DEF TypeOK
<1>. QED BY <1>5, <1>6, <1>7 DEF QueryLands

LEMMA ProjectsLandInv ==
    ASSUME IInv, NEW t \in Tasks, ProjectsLand(t)
    PROVE  IInv'
<1>1. TypeOK /\ EntryRule
  BY DEF IInv, BoardMatches
<1>2. /\ task[t].phase = "projects" /\ ~Awaits(t)
      /\ UNCHANGED <<array, grid, dashId, shelf, place, modal, made>>
      /\ UNCHANGED <<widgets, gen, alias, offered>>
      /\ clicks' \in Nat /\ faults' \in Nat /\ projects' \in BOOLEAN /\ ready' \in Nat
  <2>1. /\ task[t].phase = "projects"
        /\ UNCHANGED <<array, grid, dashId, shelf, place, modal, made>>
        /\ (Quiet /\ projects' = TRUE) \/ (Fault /\ projects' = FALSE)
        /\ ready' \in {entry, ready}
    BY DEF ProjectsLand
  <2>2. clicks' \in Nat /\ faults' \in Nat
    BY <1>1, <2>1 DEF Quiet, Fault, TypeOK
  <2>3. ~Awaits(t) /\ UNCHANGED <<widgets, gen, alias, offered>>
    BY <2>1 DEF Awaits, array
  <2>. QED BY <1>1, <2>1, <2>2, <2>3 DEF TypeOK
<1>3. task[t] \in TaskRec /\ task[t].entry <= entry /\ task \in [Tasks -> TaskRec]
      /\ entry \in Nat
  BY <1>1, Typed DEF EntryRule
<1>4. PICK row \in TaskRec : /\ task' = [task EXCEPT ![t] = row] /\ row.entry <= entry
                             /\ row.phase # "query"
  <2> DEFINE r1 == [task[t] EXCEPT !.phase = "boards"]
             r2 == [r1 EXCEPT !.then = "fetch"]
  <2>1. r1 \in TaskRec /\ r1.entry = task[t].entry /\ r1.phase = "boards"
    BY <1>3 DEF TaskRec
  <2>2. CASE task' = [task EXCEPT ![t].phase = "boards", ![t].then = "fetch"]
    <3>1. task' = [task EXCEPT ![t] = r2]
      BY <1>3, <2>2
    <3> HIDE DEF r1
    <3>2. r2 \in TaskRec /\ r2.entry = task[t].entry /\ r2.phase = "boards"
      BY <2>1 DEF TaskRec
    <3> HIDE DEF r2
    <3>. QED BY <1>3, <3>1, <3>2
  <2>3. CASE task' = [task EXCEPT ![t] = NoTask]
    <3>1. NoTask.entry <= entry
      BY <1>3, IdleRow
    <3>2. NoTask \in TaskRec /\ NoTask.phase # "query"
      BY IdleRow
    <3>. QED BY <2>3, <3>1, <3>2
  <2>. QED BY <2>2, <2>3 DEF ProjectsLand
<1>. QED BY <1>1, <1>2, <1>4, RowInv DEF TypeOK

LEMMA BoardsServedInv ==
    ASSUME IInv, NEW t \in Tasks, BoardsServed(t)
    PROVE  IInv'
<1> DEFINE got == [task[t] EXCEPT !.phase = "boarded", !.list = ShelfNow]
           not == [task[t] EXCEPT !.phase = "boarded"]
<1>1. TypeOK /\ EntryRule /\ DrawnRule /\ ModalRule /\ CardsMatch
  BY DEF IInv, BoardMatches
<1>2. /\ task[t] \in TaskRec /\ task[t].phase = "boards" /\ task \in [Tasks -> TaskRec]
      /\ UNCHANGED <<widgets, gen, alias, offered, cards, charts, run, saved, projects, ready,
                     dashId, shelf, entry, open, modal, made>>
      /\ clicks' \in Nat /\ faults' \in Nat
  BY <1>1, Typed DEF BoardsServed, Quiet, Fault, TypeOK, array, grid, rest, place
<1>3. ShelfNow \in [Ids -> Kept]
  BY <1>1, EmptyArray DEF ShelfNow, Nothing, Kept, TypeOK
<1>4. \A row \in {got, not} : /\ row \in TaskRec /\ row.phase = "boarded"
                              /\ row.then = task[t].then /\ row.entry = task[t].entry
  BY <1>2, <1>3 DEF TaskRec
<1>5. task' = [task EXCEPT ![t] = got] \/ task' = [task EXCEPT ![t] = not]
  BY <1>2 DEF BoardsServed
<1> HIDE DEF got, not
<1>6. /\ task' \in [Tasks -> TaskRec]
      /\ \A u \in Tasks \ {t} : task'[u] = task[u]
      /\ task'[t].phase = "boarded" /\ task'[t].then = task[t].then
      /\ task'[t].entry = task[t].entry
  BY <1>2, <1>4, <1>5
<1>7. TypeOK'
  BY <1>1, <1>2, <1>6 DEF TypeOK
<1>8. EntryRule' /\ DrawnRule' /\ ModalRule'
  BY <1>1, <1>2, <1>6 DEF EntryRule, DrawnRule, ModalRule
<1>9. Switching => Switching'
  BY <1>2, <1>6 DEF Switching
<1>10. CardsMatch' /\ SavedIsBoard' /\ ChartsHaveCards'
  BY <1>1, <1>2, <1>9 DEF IInv, CardsMatch, SavedIsBoard, ChartsHaveCards
<1>. QED BY <1>7, <1>8, <1>10 DEF IInv, BoardMatches

LEMMA BoardsLandInv ==
    ASSUME IInv, NEW t \in Tasks, BoardsLand(t)
    PROVE  IInv'
<1> DEFINE k == task[t]
           offers == IF Attached(k.entry) THEN Offers(k.list) ELSE offered
<1>1. TypeOK /\ EntryRule /\ CardsMatch
  BY DEF IInv, BoardMatches
<1>2. \/ /\ ~NeedsDefaults(k) /\ UNCHANGED <<widgets, gen, made>>
         /\ offered' = offers /\ alias' = IF Attached(k.entry) THEN NoId ELSE alias
         /\ IF k.then = "save" THEN task' = [task EXCEPT ![t] = NoTask] /\ UNCHANGED grid
            ELSE RenderAll(k.entry, widgets, t, k.then)
      \/ NeedsDefaults(k) /\ SetDefaults(t, offers)
  BY DEF BoardsLand
<1>3. /\ k.phase = "boarded" /\ UNCHANGED <<rest, place, modal>>
      /\ UNCHANGED <<projects, ready, dashId, shelf, entry, open>>
  BY DEF BoardsLand, rest, place
<1>4. clicks' \in Nat /\ faults' \in Nat
  BY <1>1 DEF BoardsLand, Quiet, TypeOK
<1>5. DOMAIN offers \subseteq Ids /\ \A i \in DOMAIN offers : offers[i] \in Arrays
  <2>1. k.list \in [Ids -> Kept]
    BY <1>1, Typed DEF TaskRec
  <2>2. DOMAIN Offers(k.list) \subseteq Ids
        /\ \A i \in DOMAIN Offers(k.list) : Offers(k.list)[i] \in Arrays
    BY <2>1 DEF Offers, Kept
  <2>. QED BY <1>1, <2>2 DEF TypeOK
<1>6. k \in TaskRec /\ k.entry \in Nat /\ k.entry <= entry
      /\ k.then \in {"none", "fetch", "switch", "save"}
  BY <1>1, Typed DEF EntryRule, TaskRec
<1>7. CASE NeedsDefaults(k) /\ SetDefaults(t, offers)
  BY <1>3, <1>4, <1>5, <1>7, SetDefaultsInv
<1>8. CASE /\ UNCHANGED <<widgets, gen, made>> /\ offered' = offers
           /\ alias' = IF Attached(k.entry) THEN NoId ELSE alias
           /\ k.then = "save" /\ task' = [task EXCEPT ![t] = NoTask] /\ UNCHANGED grid
  <2>1. ~Awaits(t) /\ alias' \in Ids \cup {NoId}
    BY <1>1, <1>8 DEF Awaits, TypeOK
  <2>2. NoTask \in TaskRec /\ NoTask.entry <= entry /\ NoTask.phase # "query"
    BY <1>1, IdleRow DEF TypeOK
  <2> HIDE DEF offers
  <2>. QED BY <1>1, <1>3, <1>4, <1>5, <1>8, <2>1, <2>2, RowInv DEF TypeOK
<1>9. CASE /\ UNCHANGED <<widgets, gen, made>> /\ offered' = offers
           /\ alias' = IF Attached(k.entry) THEN NoId ELSE alias
           /\ RenderAll(k.entry, widgets, t, k.then)
  <2>1. \/ Attached(k.entry)
        \/ \E u \in Tasks \ {t} : Awaits(u)
        \/ Matching(cards, widgets)
    <3>1. CASE ~Awaits(t)
      BY <1>1, <3>1, Elsewhere
    <3>2. CASE Awaits(t) /\ open
      BY <3>2 DEF Awaits, Attached
    <3>3. CASE ~open
      BY <1>1, <3>3 DEF EntryRule, Matching
    <3>. QED BY <1>1, <3>1, <3>2, <3>3 DEF TypeOK
  <2>2. /\ alias' \in Ids \cup {NoId} /\ dashId' \in Ids \cup {NoId}
        /\ widgets \in Arrays /\ widgets' = widgets /\ gen' \in Nat /\ gen <= gen'
        /\ made' \in 0 .. MaxMade
    BY <1>1, <1>3, <1>9 DEF TypeOK
  <2> HIDE DEF offers
  <2>. QED BY <1>3, <1>4, <1>5, <1>6, <1>9, <2>1, <2>2, RenderInv
<1>. QED BY <1>2, <1>7, <1>8, <1>9

LEMMA SaveLandsInv ==
    ASSUME IInv, NEW t \in Tasks, SaveLands(t)
    PROVE  IInv'
<1> DEFINE k == task[t]
           row == [NoTask EXCEPT !.phase = "boards", !.entry = k.entry, !.then = "save"]
<1>1. TypeOK /\ EntryRule
  BY DEF IInv, BoardMatches
<1>2. /\ k.phase = "save" /\ ~Awaits(t) /\ task' = [task EXCEPT ![t] = row]
      /\ UNCHANGED <<array, grid, projects, ready, dashId, place, modal, made>>
      /\ UNCHANGED <<widgets, gen, alias, offered>>
  BY DEF SaveLands, Awaits, array
<1>3. k \in TaskRec /\ k.entry \in Nat /\ k.entry <= entry /\ k.config \in Arrays
      /\ k.id \in Ids \cup {NoId}
  BY <1>1, Typed DEF EntryRule, TaskRec
<1>4. row \in TaskRec /\ row.entry <= entry /\ row.phase # "query"
  BY <1>3, BoardsRow
<1>5. clicks' \in Nat /\ faults' \in Nat
  <2>1. Quiet \/ Fault
    BY DEF SaveLands
  <2>. QED BY <1>1, <2>1 DEF Quiet, Fault, TypeOK
<1>6. DOMAIN shelf' \subseteq Ids /\ \A i \in DOMAIN shelf' : shelf'[i] \in Arrays
  <2>1. CASE UNCHANGED shelf
    BY <1>1, <2>1 DEF TypeOK
  <2>2. CASE ~UNCHANGED shelf
    <3>1. PICK id \in Ids :
            shelf' = [j \in DOMAIN shelf \cup {id} |-> IF j = id THEN k.config ELSE shelf[j]]
      <4>1. PICK id \in IF k.id = NoId THEN Ids \ DOMAIN shelf ELSE {k.id} :
              shelf' = [j \in DOMAIN shelf \cup {id} |-> IF j = id THEN k.config ELSE shelf[j]]
        BY <2>2 DEF SaveLands
      <4>. QED BY <1>3, <4>1
    <3>. QED BY <1>1, <1>3, <3>1 DEF TypeOK
  <2>. QED BY <2>1, <2>2
<1> HIDE DEF row
<1>. QED BY <1>1, <1>2, <1>4, <1>5, <1>6, RowInv DEF TypeOK

-----------------------------------------------------------------------------
(* Entering and leaving                                                    *)

LEMMA EnterInv ==
    ASSUME IInv, Enter
    PROVE  IInv'
<1>1. TypeOK /\ EntryRule /\ DrawnRule /\ ModalRule
  BY DEF IInv, BoardMatches
<1>2. /\ entry' = entry + 1 /\ open' = TRUE /\ cards' = {}
      /\ widgets' = (IF saved.known THEN saved.list ELSE widgets)
      /\ gen' = (IF saved.known THEN gen + 1 ELSE gen)
      /\ alias' = NoId /\ DOMAIN offered' = {}
      /\ modal' = (IF modal.kind = "json" THEN NoModal ELSE modal)
      /\ UNCHANGED <<clicks, faults, charts, run, saved, projects, ready, dashId, shelf, made>>
  BY DEF Enter, Quiet, rest
<1>3. PICK t \in Tasks : task' = [task EXCEPT ![t] = [NoTask EXCEPT !.phase = "projects",
                                                                    !.entry = entry + 1]]
  BY DEF Enter
<1>4. entry \in Nat /\ entry + 1 \in Nat /\ entry < entry + 1
  BY <1>1, Typed
<1>5. /\ task' \in [Tasks -> TaskRec] /\ task'[t].entry = entry + 1
      /\ task'[t].phase = "projects"
      /\ \A u \in Tasks \ {t} : task'[u] = task[u]
  <2> DEFINE row == [NoTask EXCEPT !.phase = "projects", !.entry = entry + 1]
  <2>1. row \in TaskRec /\ row.phase = "projects" /\ row.entry = entry + 1
    BY <1>4, ProjectsRow
  <2>2. task' = [task EXCEPT ![t] = row]
    BY <1>3
  <2> HIDE DEF row
  <2>. QED BY <1>1, <2>1, <2>2, Typed
<1>6. TypeOK'
  <2>1. widgets' \in Arrays /\ gen' \in Nat
    BY <1>1, <1>2 DEF TypeOK, Kept
  <2>2. modal' \in [kind: {"none", "form", "json"}, index: Nat, gen: Nat, entry: Nat]
    BY <1>1, <1>2 DEF TypeOK, NoModal
  <2>. QED BY <1>1, <1>2, <1>4, <1>5, <2>1, <2>2 DEF TypeOK
<1>7. EntryRule'
  <2>1. \A u \in Tasks : task'[u].entry <= entry'
    <3>1. \A u \in Tasks : task[u].entry \in Nat /\ task[u].entry <= entry
      BY <1>1, Typed DEF EntryRule, TaskRec
    <3>2. \A u \in Tasks \ {t} : task'[u].entry <= entry + 1
      BY <1>4, <1>5, <3>1
    <3>3. task'[t].entry <= entry + 1
      BY <1>4, <1>5
    <3>. QED BY <1>2, <3>2, <3>3
  <2>2. modal'.entry <= entry'
    BY <1>1, <1>2, <1>4 DEF EntryRule, TypeOK, NoModal
  <2>3. \A x \in charts' : x.entry <= entry'
    BY <1>1, <1>2 DEF EntryRule, TypeOK
  <2>. QED BY <1>2, <2>1, <2>2, <2>3 DEF EntryRule
<1>8. DrawnRule'
  BY <1>1, <1>2, <1>5 DEF DrawnRule, NoModal
<1>9. ModalRule'
  <2>1. CASE modal.kind = "json"
    <3>1. modal' = NoModal /\ gen' \in Nat
      BY <1>1, <1>2, <2>1 DEF TypeOK
    <3>. QED BY <3>1 DEF ModalRule, NoModal
  <2>2. CASE modal.kind # "json"
    <3>1. modal' = modal /\ modal.entry \in Nat /\ modal.gen \in Nat /\ gen \in Nat
          /\ modal.gen <= gen
      BY <1>1, <1>2, <2>2 DEF TypeOK, ModalRule
    <3>2. modal.kind = "form" /\ modal.gen = gen' => modal.index = 0
      BY <1>1, <1>2, <3>1 DEF DrawnRule
    <3>. QED BY <1>1, <1>2, <2>2, <3>1, <3>2 DEF ModalRule
  <2>. QED BY <2>1, <2>2
<1>10. CardsMatch'
  BY <1>2 DEF CardsMatch
<1>11. SavedIsBoard'
  BY <1>1, <1>2 DEF SavedIsBoard, DrawnRule
<1>12. ChartsHaveCards'
  <2>1. \A x \in charts : x.entry \in Nat /\ x.entry <= entry
    BY <1>1 DEF EntryRule, TypeOK
  <2>. QED BY <1>2, <1>4, <2>1, Typed, <1>1 DEF ChartsHaveCards
<1>. QED BY <1>6, <1>7, <1>8, <1>9, <1>10, <1>11, <1>12 DEF IInv, BoardMatches

LEMMA LeaveInv ==
    ASSUME IInv, Leave
    PROVE  IInv'
<1>1. TypeOK /\ EntryRule /\ DrawnRule /\ ModalRule
  BY DEF IInv, BoardMatches
<1>2. /\ open' = FALSE /\ cards' = {} /\ alias' = NoId /\ DOMAIN offered' = {}
      /\ modal = NoModal
      /\ UNCHANGED <<widgets, gen, charts, run, saved, projects, ready, dashId, shelf, entry,
                     modal, task, made>>
  BY DEF Leave, rest
<1>3. clicks' \in Nat /\ faults' \in Nat
  BY <1>1 DEF Leave, Click, TypeOK
<1>4. TypeOK'
  BY <1>1, <1>2, <1>3 DEF TypeOK
<1>5. EntryRule' /\ DrawnRule'
  BY <1>1, <1>2 DEF EntryRule, DrawnRule
<1>6. ModalRule'
  BY <1>1, <1>2 DEF ModalRule, NoModal
<1>7. CardsMatch' /\ ChartsHaveCards'
  BY <1>2 DEF CardsMatch, ChartsHaveCards
<1>8. SavedIsBoard'
  BY <1>2 DEF IInv, SavedIsBoard, Switching
<1>. QED BY <1>4, <1>5, <1>6, <1>7, <1>8 DEF IInv, BoardMatches

-----------------------------------------------------------------------------
(* The user                                                                *)

\* A change of the array itself: the dropdown's dashboard changes with it.
LEMMA MutateType ==
    ASSUME TypeOK, NEW ws \in Arrays, Mutate(ws)
    PROVE  /\ widgets' = ws /\ gen' = gen /\ gen' \in Nat /\ gen <= gen'
           /\ alias' \in Ids \cup {NoId}
           /\ DOMAIN offered' \subseteq Ids
           /\ \A i \in DOMAIN offered' : offered'[i] \in Arrays
BY DEF Mutate, TypeOK

\* The board drawn anew by a handler of the entry that is displayed.
LEMMA RedrawInv ==
    ASSUME IInv, OnBoard, NEW ws \in Arrays, Redraw(ws), UNCHANGED <<place, modal, made>>,
           widgets' = ws, gen' \in Nat, gen <= gen',
           alias' \in Ids \cup {NoId}, DOMAIN offered' \subseteq Ids,
           \A i \in DOMAIN offered' : offered'[i] \in Arrays,
           dashId' \in Ids \cup {NoId}, UNCHANGED <<projects, ready, shelf>>
    PROVE  IInv'
<1>1. TypeOK
  BY DEF IInv, BoardMatches
<1>2. PICK t \in Tasks : RenderAll(entry, ws, t, "none")
  BY DEF Redraw
<1>3. entry \in Nat /\ entry <= entry /\ Attached(entry)
  BY <1>1 DEF OnBoard, Attached, TypeOK
<1>4. modal' \in {modal, NoModal} /\ made' \in 0 .. MaxMade
      /\ clicks' \in Nat /\ faults' \in Nat
  BY <1>1 DEF OnBoard, Click, TypeOK
<1>. QED BY <1>2, <1>3, <1>4, RenderInv

LEMMA SelectDashboardInv ==
    ASSUME IInv, SelectDashboard
    PROVE  IInv'
<1>1. TypeOK
  BY DEF IInv, BoardMatches
<1>2. OnBoard /\ UNCHANGED <<projects, ready, shelf, place, modal, made>>
  BY DEF SelectDashboard
<1>3. PICK id \in (DOMAIN offered) \cup {NoId} :
        LET ws == IF id = NoId THEN <<>> ELSE offered[id]
        IN  dashId' = id /\ Replace(ws, id, offered) /\ Redraw(ws)
  BY DEF SelectDashboard
<1> DEFINE ws == IF id = NoId THEN <<>> ELSE offered[id]
<1>4. ws \in Arrays /\ id \in Ids \cup {NoId}
  BY <1>1, EmptyArray DEF TypeOK
<1>5. Redraw(ws) /\ dashId' = id /\ widgets' = ws /\ gen' = gen + 1 /\ alias' = id
      /\ offered' = offered
  BY <1>3 DEF Replace
<1>6. gen' \in Nat /\ gen <= gen'
  BY <1>1, <1>5 DEF TypeOK
<1> HIDE DEF ws
<1>. QED BY <1>1, <1>2, <1>4, <1>5, <1>6, RedrawInv DEF TypeOK

LEMMA SwapWidgetsInv ==
    ASSUME IInv, SwapWidgets
    PROVE  IInv'
<1>1. TypeOK
  BY DEF IInv, BoardMatches
<1>2. PICK c, d \in cards :
        /\ c.idx # d.idx /\ {c.idx, d.idx} \subseteq 1..Len(widgets)
        /\ LET ws == Swapped(widgets, c.idx, d.idx) IN Mutate(ws) /\ Redraw(ws)
  BY DEF SwapWidgets
<1> DEFINE ws == Swapped(widgets, c.idx, d.idx)
<1>3. ws \in Arrays
  BY <1>1, <1>2, SwappedType DEF TypeOK
<1>4. OnBoard /\ UNCHANGED <<rest, place, modal, made>> /\ Mutate(ws) /\ Redraw(ws)
  BY <1>2 DEF SwapWidgets
<1>5. dashId' \in Ids \cup {NoId} /\ UNCHANGED <<projects, ready, shelf>>
  BY <1>1, <1>4 DEF rest, TypeOK
<1> HIDE DEF ws
<1>. QED BY <1>1, <1>3, <1>4, <1>5, MutateType, RedrawInv

LEMMA DeleteWidgetInv ==
    ASSUME IInv, DeleteWidget
    PROVE  IInv'
<1>1. TypeOK
  BY DEF IInv, BoardMatches
<1>2. PICK c \in cards :
        LET ws == Spliced(widgets, c.idx) IN Mutate(ws) /\ Redraw(ws)
  BY DEF DeleteWidget
<1> DEFINE ws == Spliced(widgets, c.idx)
<1>3. ws \in Arrays
  <2>1. widgets \in Arrays /\ c.idx \in Nat \ {0}
    BY <1>1 DEF TypeOK, CardRec
  <2>. QED BY <2>1, SplicedType
<1>4. OnBoard /\ UNCHANGED <<rest, place, modal, made>> /\ Mutate(ws) /\ Redraw(ws)
  BY <1>2 DEF DeleteWidget
<1>5. dashId' \in Ids \cup {NoId} /\ UNCHANGED <<projects, ready, shelf>>
  BY <1>1, <1>4 DEF rest, TypeOK
<1> HIDE DEF ws
<1>. QED BY <1>1, <1>3, <1>4, <1>5, MutateType, RedrawInv

LEMMA ResizeWidgetInv ==
    ASSUME IInv, ResizeWidget
    PROVE  IInv'
<1>1. TypeOK
  BY DEF IInv, BoardMatches
<1>2. /\ OnBoard /\ Redraw(widgets) /\ UNCHANGED <<place, modal, made>>
      /\ UNCHANGED <<widgets, gen, alias, offered, projects, ready, dashId, shelf>>
  BY DEF ResizeWidget, array, rest
<1>3. widgets \in Arrays /\ gen' \in Nat /\ gen <= gen'
  BY <1>1, <1>2 DEF TypeOK
<1>4. /\ alias' \in Ids \cup {NoId} /\ dashId' \in Ids \cup {NoId}
      /\ DOMAIN offered' \subseteq Ids
      /\ \A i \in DOMAIN offered' : offered'[i] \in Arrays
  BY <1>1, <1>2 DEF TypeOK
<1>. QED BY <1>2, <1>3, <1>4, RedrawInv

\* A switch empties the array under the cards that are displayed, and leaves a
\* row that awaits the list of dashboards.
LEMMA SwitchProjectInv ==
    ASSUME IInv, SwitchProject
    PROVE  IInv'
<1>1. TypeOK /\ EntryRule /\ DrawnRule /\ ModalRule
  BY DEF IInv, BoardMatches
<1>2. /\ OnBoard /\ widgets' = <<>> /\ gen' = gen + 1 /\ alias' = NoId /\ offered' = offered
      /\ dashId' = NoId
      /\ UNCHANGED <<cards, charts, run, saved, projects, ready, shelf, entry, open, modal, made>>
  BY DEF SwitchProject, Replace, grid, place
<1>3. modal = NoModal /\ clicks' \in Nat /\ faults' \in Nat
  BY <1>1, <1>2 DEF OnBoard, Click, TypeOK
<1>4. PICK t \in Tasks : /\ Free(t)
                         /\ task' = [task EXCEPT ![t] =
                               [NoTask EXCEPT !.phase = "boards", !.entry = entry,
                                              !.then = "switch"]]
  BY DEF SwitchProject
<1> DEFINE row == [NoTask EXCEPT !.phase = "boards", !.entry = entry, !.then = "switch"]
<1>5. row = [NoTask EXCEPT !.phase = "boards", !.entry = entry, !.then = "switch"]
      /\ task' = [task EXCEPT ![t] = row]
  BY <1>4
<1> HIDE DEF row
<1>6. row \in TaskRec /\ row.phase = "boards" /\ row.entry = entry /\ row.then = "switch"
  <2>1. entry \in Nat
    BY <1>1, Typed
  <2>. QED BY <1>5, <2>1, IdleRow DEF TaskRec
<1>7. /\ task' \in [Tasks -> TaskRec] /\ task'[t] = row
      /\ \A u \in Tasks \ {t} : task'[u] = task[u]
  BY <1>1, <1>5, <1>6, Typed
<1>8. TypeOK'
  BY <1>1, <1>2, <1>3, <1>7, EmptyArray DEF TypeOK
<1>9. EntryRule'
  BY <1>1, <1>2, <1>6, <1>7, Typed DEF EntryRule
<1>10. DrawnRule'
  BY <1>1, <1>2, <1>6, <1>7 DEF DrawnRule
<1>11. ModalRule'
  <2>1. modal' = NoModal /\ gen' \in Nat
    BY <1>1, <1>2, <1>3 DEF TypeOK
  <2>. QED BY <2>1 DEF ModalRule, NoModal
<1>12. Switching'
  BY <1>2, <1>6, <1>7 DEF Switching
<1>13. CardsMatch' /\ SavedIsBoard'
  BY <1>12 DEF CardsMatch, SavedIsBoard
<1>14. ChartsHaveCards'
  BY <1>2 DEF IInv, ChartsHaveCards
<1>. QED BY <1>8, <1>9, <1>10, <1>11, <1>13, <1>14 DEF IInv, BoardMatches

\* What is left when only the modal changes.
LEMMA ModalInv ==
    ASSUME IInv, UNCHANGED <<array, grid, rest, place, task, made>>,
           modal' \in [kind: {"none", "form", "json"}, index: Nat, gen: Nat, entry: Nat],
           modal'.entry <= entry, ~saved.known => modal'.index = 0, ModalRule',
           clicks' \in Nat, faults' \in Nat
    PROVE  IInv'
<1>1. TypeOK /\ EntryRule /\ DrawnRule /\ CardsMatch
  BY DEF IInv, BoardMatches
<1>2. UNCHANGED <<widgets, gen, alias, offered, cards, charts, run, saved, projects, ready,
                  dashId, shelf, entry, open, task, made>>
  BY DEF array, grid, rest, place
<1>3. TypeOK' /\ EntryRule' /\ DrawnRule'
  BY <1>1, <1>2 DEF TypeOK, EntryRule, DrawnRule
<1>4. CardsMatch' /\ SavedIsBoard' /\ ChartsHaveCards'
  BY <1>1, <1>2 DEF IInv, CardsMatch, SavedIsBoard, ChartsHaveCards, Switching
<1>. QED BY <1>3, <1>4 DEF IInv, BoardMatches

LEMMA OpenModalInv ==
    ASSUME IInv, OpenModal
    PROVE  IInv'
<1>1. TypeOK /\ DrawnRule
  BY DEF IInv, BoardMatches
<1>2. open /\ clicks' \in Nat /\ faults' \in Nat
      /\ UNCHANGED <<array, grid, rest, place, task, made, gen, entry, open>>
  BY <1>1 DEF OpenModal, OnBoard, Click, TypeOK, array, place
<1>3. PICK i \in {0} \cup {c.idx : c \in cards}, kind \in {"form", "json"} :
        modal' = [kind |-> kind, index |-> i, gen |-> gen, entry |-> entry]
  BY DEF OpenModal
<1>4. i \in Nat /\ (cards = {} => i = 0)
  BY <1>1 DEF TypeOK, CardRec
<1>5. /\ modal'.kind = kind /\ modal'.index = i /\ modal'.gen = gen /\ modal'.entry = entry
      /\ gen \in Nat /\ entry \in Nat
  BY <1>1, <1>3 DEF TypeOK
<1>6. modal' \in [kind: {"none", "form", "json"}, index: Nat, gen: Nat, entry: Nat]
  BY <1>3, <1>4, <1>5
<1>7. ModalRule'
  BY <1>2, <1>5 DEF ModalRule
<1>8. ~saved.known => modal'.index = 0
  BY <1>1, <1>4, <1>5 DEF DrawnRule
<1>. QED BY <1>2, <1>5, <1>6, <1>7, <1>8, ModalInv

LEMMA CancelModalInv ==
    ASSUME IInv, CancelModal
    PROVE  IInv'
<1>1. TypeOK
  BY DEF IInv, BoardMatches
<1>2. modal' = NoModal /\ clicks' \in Nat /\ faults' \in Nat
      /\ UNCHANGED <<array, grid, rest, place, task, made, gen>>
  BY <1>1 DEF CancelModal, Click, TypeOK, array
<1>3. /\ modal' \in [kind: {"none", "form", "json"}, index: Nat, gen: Nat, entry: Nat]
      /\ modal'.index = 0 /\ modal'.entry <= entry
  BY <1>1, <1>2 DEF NoModal, TypeOK
<1>4. ModalRule'
  BY <1>1, <1>2 DEF ModalRule, NoModal, TypeOK
<1>. QED BY <1>2, <1>3, <1>4, ModalInv

\* A form whose entry is over draws on a grid that is gone, so what it does to
\* the array has to leave the cards of the grid displayed right: it can only
\* append.
LEMMA SaveModalInv ==
    ASSUME IInv, SaveModal
    PROVE  IInv'
<1> DEFINE ws == IF modal.kind = "json" \/ modal.gen = gen
                 THEN Entered(made + 1) ELSE widgets
<1>1. TypeOK /\ EntryRule /\ ModalRule /\ CardsMatch
  BY DEF IInv, BoardMatches
<1>2. /\ modal # NoModal /\ Click /\ made < MaxMade /\ made' = made + 1 /\ modal' = NoModal
      /\ UNCHANGED <<rest, place>> /\ Mutate(ws)
  BY DEF SaveModal
<1>3. PICK t \in Tasks : Free(t) /\ RenderAll(modal.entry, ws, t, "none")
  BY DEF SaveModal
<1>4. /\ made + 1 \in Made /\ made' \in 0 .. MaxMade /\ clicks' \in Nat /\ faults' \in Nat
      /\ UNCHANGED <<projects, ready, shelf>> /\ dashId' \in Ids \cup {NoId}
  BY <1>1, <1>2, BoardAssumption DEF TypeOK, Click, Made, rest
<1>5. /\ modal.entry \in Nat /\ modal.entry <= entry /\ modal.index \in Nat
      /\ modal.kind \in {"form", "json"}
  BY <1>1, <1>2 DEF TypeOK, EntryRule, ModalRule
<1>6. /\ widgets \in Arrays /\ Append(widgets, made + 1) \in Arrays
      /\ Len(Append(widgets, made + 1)) = Len(widgets) + 1
      /\ \A j \in 1 .. Len(widgets) : Append(widgets, made + 1)[j] = widgets[j]
  BY <1>1, <1>4, AppendProperties DEF TypeOK, Arrays
<1>7. ws \in Arrays
  BY <1>4, <1>5, <1>6, PutType DEF Entered
<1>8. \/ Attached(modal.entry)
      \/ \E u \in Tasks \ {t} : Awaits(u)
      \/ Matching(cards, ws)
  <2>1. CASE modal.entry = entry
    BY <1>1, <1>5, <2>1 DEF ModalRule, Attached
  <2>2. CASE modal.entry # entry
    <3>1. ws = widgets \/ ws = Append(widgets, made + 1)
      BY <1>1, <1>5, <2>2 DEF ModalRule, Entered
    <3>2. (\E u \in Tasks \ {t} : Awaits(u)) \/ Matching(cards, widgets)
      BY <1>1, <1>3, Elsewhere, FreeRow
    <3>3. ASSUME Matching(cards, widgets) PROVE Matching(cards, Append(widgets, made + 1))
      <4>1. \A c \in cards : c.idx \in 1 .. Len(widgets) /\ widgets[c.idx] = c.w
        BY <1>1, <3>3, Typed DEF Matching, TypeOK, CardRec
      <4>. QED BY <1>1, <1>6, <4>1, Typed DEF Matching
    <3>. QED BY <3>1, <3>2, <3>3
  <2>. QED BY <2>1, <2>2
<1> HIDE DEF ws
<1>. QED BY <1>1, <1>2, <1>3, <1>4, <1>5, <1>7, <1>8, MutateType, RenderInv

LEMMA SaveDashboardInv ==
    ASSUME IInv, SaveDashboard
    PROVE  IInv'
<1>1. TypeOK
  BY DEF IInv, BoardMatches
<1>2. /\ UNCHANGED <<grid, place, modal, made>>
      /\ UNCHANGED <<widgets, gen, alias, offered, projects, ready, dashId, shelf>>
      /\ clicks' \in Nat /\ faults' \in Nat
  BY <1>1 DEF SaveDashboard, OnBoard, Click, TypeOK, array, rest
<1>3. PICK t \in Tasks : /\ Free(t)
                         /\ task' = [task EXCEPT ![t] =
                               [NoTask EXCEPT !.phase = "save", !.entry = entry, !.then = "save",
                                              !.id = dashId, !.config = widgets]]
  BY DEF SaveDashboard
<1> DEFINE r1 == [NoTask EXCEPT !.phase = "save"]
           r2 == [r1 EXCEPT !.entry = entry]
           r3 == [r2 EXCEPT !.then = "save"]
           r4 == [r3 EXCEPT !.id = dashId]
           r5 == [r4 EXCEPT !.config = widgets]
<1>4. task' = [task EXCEPT ![t] = r5]
  BY <1>3
<1>5. r1 \in TaskRec /\ r1.phase = "save"
  BY IdleRow DEF TaskRec
<1> HIDE DEF r1
<1>6. r2 \in TaskRec /\ r2.phase = "save" /\ r2.entry = entry
  BY <1>1, <1>5, Typed DEF TaskRec
<1> HIDE DEF r2
<1>7. r3 \in TaskRec /\ r3.phase = "save" /\ r3.entry = entry
  BY <1>6 DEF TaskRec
<1> HIDE DEF r3
<1>8. r4 \in TaskRec /\ r4.phase = "save" /\ r4.entry = entry
  BY <1>1, <1>7 DEF TaskRec, TypeOK
<1> HIDE DEF r4
<1>9. r5 \in TaskRec /\ r5.phase = "save" /\ r5.entry = entry
  BY <1>1, <1>8 DEF TaskRec, TypeOK
<1> HIDE DEF r5
<1>10. ~Awaits(t) /\ entry <= entry
  BY <1>1, <1>3, FreeRow, Typed
<1>. QED BY <1>1, <1>2, <1>4, <1>9, <1>10, RowInv DEF TypeOK

-----------------------------------------------------------------------------
(* The invariant                                                           *)

LEMMA StepInv == IInv /\ [Next]_vars => IInv'
<1> SUFFICES ASSUME IInv, [Next]_vars PROVE IInv'
  OBVIOUS
<1>1. ASSUME NEW t \in Tasks, Answer(t) PROVE IInv'
  BY <1>1, ProjectsLandInv, BoardsServedInv, BoardsLandInv, QueryLandsInv, SaveLandsInv DEF Answer
<1>2. CASE Enter
  BY <1>2, EnterInv
<1>3. CASE Leave
  BY <1>3, LeaveInv
<1>4. CASE SwitchProject
  BY <1>4, SwitchProjectInv
<1>5. CASE SelectDashboard
  BY <1>5, SelectDashboardInv
<1>6. CASE SwapWidgets
  BY <1>6, SwapWidgetsInv
<1>7. CASE DeleteWidget
  BY <1>7, DeleteWidgetInv
<1>8. CASE ResizeWidget
  BY <1>8, ResizeWidgetInv
<1>9. CASE OpenModal
  BY <1>9, OpenModalInv
<1>10. CASE CancelModal
  BY <1>10, CancelModalInv
<1>11. CASE SaveModal
  BY <1>11, SaveModalInv
<1>12. CASE SaveDashboard
  BY <1>12, SaveDashboardInv
<1>13. CASE UNCHANGED vars
  <2>1. UNCHANGED <<array, grid, rest, place, modal, task, made, clicks, faults>>
        /\ UNCHANGED <<gen, entry, open>>
    BY <1>13 DEF vars, array, place
  <2>2. TypeOK /\ EntryRule /\ DrawnRule /\ ModalRule
    BY DEF IInv, BoardMatches
  <2>3. ModalRule'
    BY <2>1, <2>2 DEF ModalRule
  <2>. QED BY <2>1, <2>2, <2>3, ModalInv DEF TypeOK, EntryRule, DrawnRule
<1>. QED BY <1>1, <1>2, <1>3, <1>4, <1>5, <1>6, <1>7, <1>8, <1>9, <1>10, <1>11, <1>12,
            <1>13 DEF Next

LEMMA InvHolds == Spec => []IInv
BY InitInv, StepInv, PTL DEF Spec

\* Whatever loops, modals, entries and answers of before overlap, the buttons of
\* every displayed card act on the widget the card shows (renderAllWidgets), but
\* for the time a switch of the project awaits its list of dashboards.
THEOREM BoardTheorem == Spec => []BoardMatches
<1>1. IInv => BoardMatches
  BY DEF IInv
<1>. QED BY <1>1, InvHolds, PTL

\* Every change of the board is in localStorage as soon as it is made, with the
\* same exception: leaving the view and entering it again loses no widget.
THEOREM SavedTheorem == Spec => []SavedIsBoard
<1>1. IInv => SavedIsBoard
  BY DEF IInv
<1>. QED BY <1>1, InvHolds, PTL

\* No chart of the displayed grid outlives its card: clearing the grid destroys
\* them, and a late answer finds no canvas to draw on.
THEOREM ChartsTheorem == Spec => []ChartsHaveCards
<1>1. IInv => ChartsHaveCards
  BY DEF IInv
<1>. QED BY <1>1, InvHolds, PTL
=============================================================================
