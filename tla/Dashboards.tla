----------------------------- MODULE Dashboards -----------------------------
(***************************************************************************)
(* Dashboards and the caches they are kept in, while the projects they     *)
(* show are written to, created, resized and deleted.                      *)
(*                                                                         *)
(* get_dashboard_stats looks into a cache, computes on a miss, and inserts *)
(* what it computed; the writers commit first and invalidate afterwards.   *)
(* The caches themselves come and go: project_caches maps a project to a   *)
(* moka cache, which the first user installs, an update replaces, and a    *)
(* deletion removes, while others still hold a clone of the old one.       *)
(*                                                                         *)
(* What a dashboard says of a project is abstracted to the version of the  *)
(* data it was computed from: the number of commits so far.                *)
(***************************************************************************)
EXTENDS Integers, FiniteSets

CONSTANTS
    Projects,
    All,            \* the dashboard of all projects, project_id "all"
    Viewers,        \* calls of get_dashboard_stats
    Workers,        \* ingestion_worker, session_worker
    Admins,         \* calls of the triage handlers and of delete_event
    None,
    Ttl,            \* time_to_live, in ticks
    MaxCommits      \* bound on the commits to a project

ASSUME DashboardAssumption ==
    /\ All \notin Projects
    /\ None \notin Projects
    /\ Workers \cap Admins = {}
    /\ Ttl \in Nat \ {0}
    /\ MaxCommits \in Nat

VARIABLES
    registered,     \* projects with a row in system.db
    data,           \* version of each project's database
    cached,         \* projects with a cache in project_caches
    entry,          \* the dashboard of each key, in the cache of its project
                    \* or in the global one
    viewer,         \* the state of each call of get_dashboard_stats
    writer,         \* the state of each writer
    removing,       \* projects whose row is deleted and whose cache is not yet
    settled         \* history: versions whose invalidation of a key is done

vars == <<registered, data, cached, entry, viewer, writer, removing, settled>>
shared == <<registered, data, removing, settled>>

Keys == Projects \cup {All}
Scope(k) == IF k = All THEN Projects ELSE {k}

\* What a dashboard says of a project: a version, or nothing.
Unseen == -1
Views == [Projects -> Nat \cup {Unseen}]
Blank == [p \in Projects |-> Unseen]

\* left is what remains of the time to live; 0 is no dashboard at all.
Entries == [view : Views, left : 0 .. Ttl]
NoEntry == [view |-> Blank, left |-> 0]

ViewerStages == {"idle", "lookup", "install", "get", "list", "read",
                 "again", "reinstall", "insert"}
WriterStages == {"idle", "cache", "install", "project", "all"}

\* clone tells if the cache a viewer got is still the one in the map, has been
\* replaced or removed there, or if it has none.
Clones == {"none", "current", "old"}
IdleViewer == [stage |-> "idle", key |-> All, clone |-> "none",
               todo |-> {}, view |-> Blank]
IdleWriter == [stage |-> "idle", project |-> None, version |-> 0]

TypeOK ==
    /\ registered \in SUBSET Projects
    /\ data \in [Projects -> Nat]
    /\ cached \in SUBSET Projects
    /\ entry \in [Keys -> Entries]
    /\ viewer \in [Viewers -> [stage : ViewerStages, key : Keys,
                               clone : Clones,
                               todo : SUBSET Projects, view : Views]]
    /\ writer \in [Workers \cup Admins ->
                      [stage : WriterStages, project : Projects \cup {None},
                       version : Nat]]
    /\ removing \in SUBSET Projects
    /\ settled \in [Keys -> [Projects -> Nat]]

Init ==
    /\ registered \in SUBSET Projects
    /\ data = [p \in Projects |-> 0]
    /\ cached = {}
    /\ entry = [k \in Keys |-> NoEntry]
    /\ viewer = [v \in Viewers |-> IdleViewer]
    /\ writer = [w \in Workers \cup Admins |-> IdleWriter]
    /\ removing = {}
    /\ settled = [k \in Keys |-> [p \in Projects |-> 0]]

-----------------------------------------------------------------------------
(* The caches                                                              *)

\* p's cache is replaced or removed: clones of it live on.
Detached(p) ==
    [v \in Viewers |-> IF viewer[v].key = p /\ viewer[v].clone = "current"
                       THEN [viewer[v] EXCEPT !.clone = "old"]
                       ELSE viewer[v]]

\* project_caches.insert of an empty cache, by get_project_cache, which may
\* replace what another caller inserted since it looked, and by a resize.
Install(p) ==
    /\ cached' = cached \cup {p}
    /\ entry' = [entry EXCEPT ![p] = NoEntry]
    /\ viewer' = Detached(p)

\* The global cache always exists.
HasCache(k) == k \in cached \cup {All}

\* The key is removed from the cache in the map, if there is one.
Invalidate(k) == entry' = [entry EXCEPT ![k] = NoEntry]

\* Mutant: what has expired stays.
TickExpiresNothing ==
    /\ \E k \in Keys : entry[k].left > 0
    /\ entry' = [k \in Keys |-> [entry[k] EXCEPT !.left = @ - 1]]
    /\ UNCHANGED <<shared, cached, viewer, writer>>

\* Time passes.
Tick ==
    /\ \E k \in Keys : entry[k].left > 0
    /\ entry' = [k \in Keys |->
                    IF entry[k].left <= 1 THEN NoEntry
                    ELSE [entry[k] EXCEPT !.left = @ - 1]]
    /\ UNCHANGED <<shared, cached, viewer, writer>>

\* time_to_idle, and eviction by size.
Evict(k) ==
    /\ entry[k].left > 0
    /\ entry' = [entry EXCEPT ![k] = NoEntry]
    /\ UNCHANGED <<shared, cached, viewer, writer>>

-----------------------------------------------------------------------------
(* get_dashboard_stats                                                     *)

ViewerStep(v, from, to) ==
    /\ viewer[v].stage = from
    /\ viewer' = [viewer EXCEPT ![v] = to]

View(v, k) ==
    /\ ViewerStep(v, "idle", [IdleViewer EXCEPT !.stage = "lookup", !.key = k])
    /\ UNCHANGED <<shared, cached, entry, writer>>

\* get_project_cache: a clone of what is in the map, or a cache to install.
FindCache(v, from, missing, found) ==
    /\ ViewerStep(v, from,
         IF HasCache(viewer[v].key)
         THEN [viewer[v] EXCEPT !.stage = found, !.clone = "current"]
         ELSE [viewer[v] EXCEPT !.stage = missing])
    /\ UNCHANGED <<shared, cached, entry, writer>>

Lookup(v) == FindCache(v, "lookup", "install", "get")
LookupAgain(v) == FindCache(v, "again", "reinstall", "insert")

InstallFor(v, from, to) ==
    /\ viewer[v].stage = from
    /\ LET p == viewer[v].key IN
         /\ cached' = cached \cup {p}
         /\ entry' = [entry EXCEPT ![p] = NoEntry]
         /\ viewer' = [Detached(p) EXCEPT ![v].stage = to,
                                          ![v].clone = "current"]
    /\ UNCHANGED <<shared, writer>>

LookupInstall(v) == InstallFor(v, "install", "get")
AgainInstall(v) == InstallFor(v, "reinstall", "insert")

\* Mutant: a hit keeps the dashboard alive.
GetRenews(v) ==
    /\ \E hit \in BOOLEAN :
         /\ viewer[v].clone = "current" => hit = (entry[viewer[v].key].left > 0)
         /\ ViewerStep(v, "get",
              IF hit THEN IdleViewer
              ELSE [viewer[v] EXCEPT !.stage = "list", !.clone = "none"])
         /\ entry' = [entry EXCEPT ![viewer[v].key].left =
                         IF @ > 0 THEN Ttl ELSE 0]
    /\ UNCHANGED <<shared, cached, writer>>

\* A hit is the answer.  What an old clone holds is not followed.
Get(v) ==
    /\ \E hit \in BOOLEAN :
         /\ viewer[v].clone = "current" => hit = (entry[viewer[v].key].left > 0)
         /\ ViewerStep(v, "get",
              IF hit THEN IdleViewer
              ELSE [viewer[v] EXCEPT !.stage = "list", !.clone = "none"])
    /\ UNCHANGED <<shared, cached, entry, writer>>

\* The projects to show.
List(v) ==
    /\ ViewerStep(v, "list",
         [viewer[v] EXCEPT !.stage = "read",
                           !.todo = registered \cap Scope(viewer[v].key)])
    /\ UNCHANGED <<shared, cached, entry, writer>>

\* A project is read, or left out if it has no pool or connection to give.
Read(v, p) ==
    /\ p \in viewer[v].todo
    /\ \E seen \in {Unseen, data[p]} :
         ViewerStep(v, "read", [viewer[v] EXCEPT !.todo = @ \ {p},
                                                 !.view[p] = seen])
    /\ UNCHANGED <<shared, cached, entry, writer>>

\* A statement that cannot be prepared ends the computation, and an empty
\* dashboard takes its place; so does system.db out of reach.
Fail(v) ==
    /\ \E at \in {"list", "read"} :
         ViewerStep(v, at, [viewer[v] EXCEPT !.stage = "again", !.todo = {},
                                             !.view = Blank])
    /\ UNCHANGED <<shared, cached, entry, writer>>

\* What was computed is inserted in a cache that is looked up once more.
Computed(v) ==
    /\ viewer[v].todo = {}
    /\ ViewerStep(v, "read", [viewer[v] EXCEPT !.stage = "again"])
    /\ UNCHANGED <<shared, cached, entry, writer>>

Insert(v) ==
    /\ ViewerStep(v, "insert", IdleViewer)
    /\ IF viewer[v].clone = "current"
       THEN entry' = [entry EXCEPT ![viewer[v].key] =
                         [view |-> viewer[v].view, left |-> Ttl]]
       ELSE UNCHANGED entry
    /\ UNCHANGED <<shared, cached, writer>>

\* The client hangs up while the handler waits for the access check or for the
\* blocking task, whose result is then dropped.
Leave(v) ==
    /\ viewer[v].stage \in {"lookup", "list", "read", "again"}
    /\ viewer' = [viewer EXCEPT ![v] = IdleViewer]
    /\ UNCHANGED <<shared, cached, entry, writer>>

-----------------------------------------------------------------------------
(* Writers                                                                 *)

WriterStep(w, from, to) ==
    /\ writer[w].stage = from
    /\ writer' = [writer EXCEPT ![w] = to]

Commit(p) ==
    /\ data[p] < MaxCommits
    /\ data' = [data EXCEPT ![p] = @ + 1]

\* A flush, which may fail and invalidates all the same.  The event worker
\* looks its project cache up before that, the session worker does not.
Flush(w, p) ==
    /\ Commit(p) \/ UNCHANGED data
    /\ \E next \in {"cache", "project"} :
         WriterStep(w, "idle",
                    [stage |-> next, project |-> p, version |-> data'[p]])
    /\ UNCHANGED <<registered, removing, settled, cached, entry, viewer>>

WorkerLookup(w) ==
    /\ WriterStep(w, "cache",
         [writer[w] EXCEPT !.stage = IF HasCache(writer[w].project)
                                     THEN "project" ELSE "install"])
    /\ UNCHANGED <<shared, cached, entry, viewer>>

WorkerInstall(w) ==
    /\ WriterStep(w, "install", [writer[w] EXCEPT !.stage = "project"])
    /\ Install(writer[w].project)
    /\ UNCHANGED shared

\* A triage or deletion that changed a row.
AdminWrite(a, p) ==
    /\ Commit(p)
    /\ WriterStep(a, "idle",
                  [stage |-> "project", project |-> p, version |-> data'[p]])
    /\ UNCHANGED <<registered, removing, settled, cached, entry, viewer>>

\* The admin's client hangs up while the blocking task runs: the commit stays,
\* the invalidation is never run.
AdminLeaves(a) ==
    /\ WriterStep(a, "project", IdleWriter)
    /\ UNCHANGED <<shared, cached, entry, viewer>>

Settles(w, k) ==
    LET p == writer[w].project
        n == writer[w].version
    IN  settled' = [settled EXCEPT ![k][p] = IF @ < n THEN n ELSE @]

\* invalidate_dashboard_cache: the project's own dashboard, ...
InvalidateProject(w) ==
    /\ WriterStep(w, "project", [writer[w] EXCEPT !.stage = "all"])
    /\ Invalidate(writer[w].project)
    /\ Settles(w, writer[w].project)
    /\ UNCHANGED <<registered, data, removing, cached, viewer>>

\* Mutant: only if the project has a cache, the dashboard of all projects goes.
InvalidateAllIfCached(w) ==
    /\ WriterStep(w, "all", IdleWriter)
    /\ IF HasCache(writer[w].project) THEN Invalidate(All) ELSE UNCHANGED entry
    /\ Settles(w, All)
    /\ UNCHANGED <<registered, data, removing, cached, viewer>>

\* ... and the one of all projects.
InvalidateAll(w) ==
    /\ WriterStep(w, "all", IdleWriter)
    /\ Invalidate(All)
    /\ Settles(w, All)
    /\ UNCHANGED <<registered, data, removing, cached, viewer>>

\* The cleaner's statements, which invalidate nothing.
Clean(p) ==
    /\ Commit(p)
    /\ UNCHANGED <<registered, removing, settled, cached, entry, viewer,
                   writer>>

-----------------------------------------------------------------------------
(* Projects                                                                *)

\* A row with that id and there would be a conflict.  The database of an
\* earlier project of that id is still there.
CreateProject(p) ==
    /\ p \notin registered
    /\ registered' = registered \cup {p}
    /\ UNCHANGED <<data, removing, settled, cached, entry, viewer, writer>>

\* update_project with a cache_size_mb, whether the project exists or not.
ResizeCache(p) ==
    /\ Install(p)
    /\ UNCHANGED <<shared, writer>>

DeleteProject(p) ==
    /\ p \notin removing
    /\ registered' = registered \ {p}
    /\ removing' = removing \cup {p}
    /\ UNCHANGED <<data, settled, cached, entry, viewer, writer>>

RemoveResources(p) ==
    /\ p \in removing
    /\ removing' = removing \ {p}
    /\ cached' = cached \ {p}
    /\ entry' = [entry EXCEPT ![p] = NoEntry]
    /\ viewer' = Detached(p)
    /\ UNCHANGED <<registered, data, settled, writer>>

-----------------------------------------------------------------------------
Next ==
    \/ Tick
    \/ \E k \in Keys : Evict(k)
    \/ \E v \in Viewers :
          \/ \E k \in Keys : View(v, k)
          \/ Lookup(v) \/ LookupInstall(v) \/ Get(v)
          \/ List(v) \/ Fail(v) \/ Computed(v)
          \/ \E p \in Projects : Read(v, p)
          \/ LookupAgain(v) \/ AgainInstall(v) \/ Insert(v)
          \/ Leave(v)
    \/ \E w \in Workers :
          \/ \E p \in Projects : Flush(w, p)
          \/ WorkerLookup(w) \/ WorkerInstall(w)
    \/ \E a \in Admins : AdminLeaves(a) \/ \E p \in Projects : AdminWrite(a, p)
    \/ \E w \in Workers \cup Admins : InvalidateProject(w) \/ InvalidateAll(w)
    \/ \E p \in Projects :
          \/ Clean(p) \/ CreateProject(p) \/ ResizeCache(p)
          \/ DeleteProject(p) \/ RemoveResources(p)

Spec == Init /\ [][Next]_vars

\* Time passes, whatever the callers do.
FairSpec == Spec /\ WF_vars(Tick)

-----------------------------------------------------------------------------
(* Properties                                                              *)

\* The dashboard under k misses a commit whose invalidation of k is done.
Behind(k) ==
    \E p \in Projects :
        entry[k].view[p] # Unseen /\ entry[k].view[p] < settled[k][p]

\* v inserts, in the cache that is in the map, what it computed too early.
InsertsLate(v) ==
    LET k == viewer[v].key IN
    /\ viewer[v].stage = "insert" /\ viewer'[v].stage = "idle"
    /\ viewer[v].clone = "current"
    /\ \E p \in Projects : viewer[v].view[p] # Unseen
                             /\ viewer[v].view[p] < settled[k][p]

\* However caches are installed, replaced and removed under them, invalidations
\* reach every dashboard that can be found: one that misses a settled commit
\* got there by the insert of a call that had computed before the commit.
OnlyInsertsAreLate ==
    [][\A k \in Keys : ~Behind(k) /\ Behind(k)'
          => \E v \in Viewers : viewer[v].key = k /\ InsertsLate(v)]_vars

\* The dashboard under k differs from what would be computed now.
Stale(k) ==
    /\ entry[k].left > 0
    /\ entry[k].view # [p \in Projects |->
                           IF p \in registered \cap Scope(k) THEN data[p]
                           ELSE Unseen]

\* A dashboard that missed its invalidation, that shows a deleted project or
\* that a failure left empty, does not stay, however often it is looked at.
StaleEnds == \A k \in Keys : Stale(k) ~> ~Stale(k)
=============================================================================
