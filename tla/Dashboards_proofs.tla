-------------------------- MODULE Dashboards_proofs --------------------------
(***************************************************************************)
(* What the caches with a time to live keep: invalidations reach every     *)
(* dashboard that can be found, for any number of projects, callers and    *)
(* writers; and, at the end, the entries of the rate limiters, which live  *)
(* in caches of the same kind, cover what they let through.                *)
(***************************************************************************)
EXTENDS Dashboards, RateLimits, NaturalsInduction, WellFoundedInduction, TLAPS

\* Who is about to install a cache does so for a project, and a writer that is
\* at work has one.
HasProject ==
    /\ \A v \in Viewers :
          viewer[v].stage \in {"install", "reinstall"} => viewer[v].key \in Projects
    /\ \A w \in Workers \cup Admins :
          writer[w].stage # "idle" => writer[w].project \in Projects

IInv == TypeOK /\ HasProject

LEMMA Constant == /\ Blank \in Views
                  /\ NoEntry \in Entries
                  /\ \A e \in Entries : e.view \in Views /\ e.left \in 0 .. Ttl
                  /\ Ttl \in Nat /\ Ttl > 0
  BY DashboardAssumption DEF Blank, Views, NoEntry, Entries, Unseen

LEMMA InitIInv == Init => IInv
  BY Constant, DashboardAssumption
  DEF Init, IInv, TypeOK, HasProject, IdleViewer, IdleWriter, Keys,
      ViewerStages, WriterStages, Clones

-----------------------------------------------------------------------------
ViewerType == [stage : ViewerStages, key : Keys, clone : Clones,
               todo : SUBSET Projects, view : Views]
WriterType == [stage : WriterStages, project : Projects \cup {None},
               version : Nat]

\* The record a viewer goes on with decides whether IInv holds of the viewers.
LEMMA ViewerStepType ==
  ASSUME IInv, NEW v \in Viewers, NEW from, NEW to \in ViewerType,
         to.stage \in {"install", "reinstall"} => to.key \in Projects,
         ViewerStep(v, from, to)
  PROVE  /\ viewer' \in [Viewers -> ViewerType]
         /\ \A u \in Viewers : viewer'[u].stage \in {"install", "reinstall"}
                                 => viewer'[u].key \in Projects
  BY DEF IInv, TypeOK, HasProject, ViewerStep, ViewerType

LEMMA WriterStepType ==
  ASSUME IInv, NEW w \in Workers \cup Admins, NEW from, NEW to \in WriterType,
         to.stage # "idle" => to.project \in Projects,
         WriterStep(w, from, to)
  PROVE  /\ writer' \in [Workers \cup Admins -> WriterType]
         /\ \A u \in Workers \cup Admins : writer'[u].stage # "idle"
                                             => writer'[u].project \in Projects
  BY DEF IInv, TypeOK, HasProject, WriterStep, WriterType

\* A step of a viewer that touches nothing but its own record.
LEMMA ViewerOnly ==
  ASSUME IInv, NEW v \in Viewers, NEW from, NEW to \in ViewerType,
         to.stage \in {"install", "reinstall"} => to.key \in Projects,
         ViewerStep(v, from, to),
         UNCHANGED <<shared, cached, entry, writer>>
  PROVE  IInv'
<1>1. /\ viewer' \in [Viewers -> ViewerType]
      /\ \A u \in Viewers : viewer'[u].stage \in {"install", "reinstall"}
                              => viewer'[u].key \in Projects
  BY ViewerStepType
<1>2. QED
  BY <1>1 DEF IInv, TypeOK, HasProject, shared, ViewerType

LEMMA DetachedType ==
  ASSUME IInv, NEW p
  PROVE  /\ Detached(p) \in [Viewers -> ViewerType]
         /\ \A u \in Viewers : /\ Detached(p)[u].stage = viewer[u].stage
                               /\ Detached(p)[u].key = viewer[u].key
<1>1. viewer \in [Viewers -> ViewerType]
  BY DEF IInv, TypeOK, ViewerType
<1>2. \A u \in Viewers : [viewer[u] EXCEPT !.clone = "old"] \in ViewerType
  BY <1>1 DEF ViewerType, Clones
<1>3. QED
  BY <1>1, <1>2 DEF Detached, ViewerType

LEMMA InstallType ==
  ASSUME IInv, NEW p \in Projects, Install(p)
  PROVE  /\ cached' \in SUBSET Projects
         /\ entry' \in [Keys -> Entries]
         /\ viewer' \in [Viewers -> ViewerType]
         /\ \A u \in Viewers : viewer'[u].stage \in {"install", "reinstall"}
                                 => viewer'[u].key \in Projects
  BY Constant, DetachedType DEF Install, IInv, TypeOK, HasProject, ViewerType

LEMMA FindCacheInv ==
  ASSUME IInv, NEW v \in Viewers, NEW from,
         NEW missing \in {"install", "reinstall"}, NEW found \in {"get", "insert"},
         FindCache(v, from, missing, found)
  PROVE  IInv'
<1>1. viewer[v] \in ViewerType
  BY DEF IInv, TypeOK, ViewerType
<1>2. CASE HasCache(viewer[v].key)
  <2>1. [viewer[v] EXCEPT !.stage = found, !.clone = "current"] \in ViewerType
    BY <1>1 DEF ViewerType, ViewerStages, Clones
  <2>2. [viewer[v] EXCEPT !.stage = found, !.clone = "current"].stage = found
    BY <1>1 DEF ViewerType
  <2>3. QED
    BY <1>2, <2>1, <2>2, ViewerOnly DEF FindCache
<1>3. CASE ~HasCache(viewer[v].key)
  <2>1. [viewer[v] EXCEPT !.stage = missing] \in ViewerType
    BY <1>1 DEF ViewerType, ViewerStages
  <2>2. [viewer[v] EXCEPT !.stage = missing].key \in Projects
    BY <1>1, <1>3 DEF ViewerType, HasCache, Keys
  <2>3. QED
    BY <1>3, <2>1, <2>2, ViewerOnly DEF FindCache
<1>4. QED
  BY <1>2, <1>3

LEMMA InstallForInv ==
  ASSUME IInv, NEW v \in Viewers, NEW from \in {"install", "reinstall"},
         NEW to \in {"get", "insert"}, InstallFor(v, from, to)
  PROVE  IInv'
<1> DEFINE p == viewer[v].key
           mine == [Detached(p)[v] EXCEPT !.stage = to, !.clone = "current"]
<1>1. p \in Projects
  BY DEF InstallFor, IInv, HasProject
<1>2. /\ Detached(p) \in [Viewers -> ViewerType]
      /\ \A u \in Viewers : /\ Detached(p)[u].stage = viewer[u].stage
                            /\ Detached(p)[u].key = viewer[u].key
  BY DetachedType
<1>3. mine \in ViewerType /\ mine.stage = to
  BY <1>2 DEF ViewerType, ViewerStages, Clones
<1>4. viewer' = [Detached(p) EXCEPT ![v] = mine]
  BY <1>2 DEF InstallFor, ViewerType
<1>5. /\ viewer' \in [Viewers -> ViewerType]
      /\ \A u \in Viewers : viewer'[u].stage \in {"install", "reinstall"}
                              => viewer'[u].key \in Projects
  BY <1>2, <1>3, <1>4 DEF IInv, HasProject
<1>6. cached' \in SUBSET Projects /\ entry' \in [Keys -> Entries]
  BY <1>1, Constant DEF InstallFor, IInv, TypeOK
<1>7. QED
  BY <1>5, <1>6 DEF InstallFor, IInv, TypeOK, HasProject, shared, ViewerType

\* Each action of a viewer.
LEMMA ViewerInv ==
  ASSUME IInv, NEW v \in Viewers,
         \/ \E k \in Keys : View(v, k)
         \/ Lookup(v) \/ LookupInstall(v) \/ Get(v)
         \/ List(v) \/ Fail(v) \/ Computed(v)
         \/ \E p \in Projects : Read(v, p)
         \/ LookupAgain(v) \/ AgainInstall(v) \/ Insert(v)
         \/ Leave(v)
  PROVE  IInv'
<1> DEFINE r == viewer[v]
<1>r. r \in ViewerType
  BY DEF IInv, TypeOK, ViewerType
<1>i. IdleViewer \in ViewerType /\ IdleViewer.stage = "idle"
  BY Constant DEF IdleViewer, ViewerType, ViewerStages, Clones, Keys
<1>1. ASSUME NEW k \in Keys, View(v, k) PROVE IInv'
  <2>1. [IdleViewer EXCEPT !.stage = "lookup", !.key = k] \in ViewerType
    BY <1>i DEF ViewerType, ViewerStages
  <2>2. [IdleViewer EXCEPT !.stage = "lookup", !.key = k].stage = "lookup"
    BY DEF IdleViewer
  <2>3. QED
    BY <1>1, <2>1, <2>2, ViewerOnly DEF View
<1>2. CASE Lookup(v)
  BY <1>2, FindCacheInv DEF Lookup
<1>3. CASE LookupInstall(v)
  BY <1>3, InstallForInv DEF LookupInstall
<1>4. CASE Get(v)
  <2>1. [r EXCEPT !.stage = "list", !.clone = "none"] \in ViewerType
    BY <1>r DEF ViewerType, ViewerStages, Clones
  <2>2. [r EXCEPT !.stage = "list", !.clone = "none"].stage = "list"
    BY <1>r DEF ViewerType
  <2>3. PICK hit \in BOOLEAN :
           ViewerStep(v, "get", IF hit THEN IdleViewer
                    ELSE [r EXCEPT !.stage = "list", !.clone = "none"])
    BY <1>4 DEF Get
  <2>4. QED
    BY <1>4, <1>i, <2>1, <2>2, <2>3, ViewerOnly DEF Get
<1>5. CASE List(v)
  <2> DEFINE to == [r EXCEPT !.stage = "read", !.todo = registered \cap Scope(r.key)]
  <2>1. to \in ViewerType /\ to.stage = "read"
    BY <1>r DEF ViewerType, ViewerStages, IInv, TypeOK
  <2>2. QED
    BY <1>5, <2>1, ViewerOnly DEF List
<1>6. CASE Fail(v)
  <2> DEFINE to == [r EXCEPT !.stage = "again", !.todo = {}, !.view = Blank]
  <2>1. to \in ViewerType /\ to.stage = "again"
    BY <1>r, Constant DEF ViewerType, ViewerStages
  <2>2. QED
    BY <1>6, <2>1, ViewerOnly DEF Fail
<1>7. CASE Computed(v)
  <2>1. [r EXCEPT !.stage = "again"] \in ViewerType
    BY <1>r DEF ViewerType, ViewerStages
  <2>2. [r EXCEPT !.stage = "again"].stage = "again"
    BY <1>r DEF ViewerType
  <2>3. QED
    BY <1>7, <2>1, <2>2, ViewerOnly DEF Computed
<1>8. ASSUME NEW p \in Projects, Read(v, p) PROVE IInv'
  <2>1. PICK known \in {Unseen, data[p]} :
           ViewerStep(v, "read", [r EXCEPT !.todo = @ \ {p}, !.view[p] = known])
    BY <1>8 DEF Read
  <2> DEFINE to == [r EXCEPT !.todo = @ \ {p}, !.view[p] = known]
  <2>2. known \in Nat \cup {Unseen}
    BY DEF IInv, TypeOK
  <2>3. to \in ViewerType /\ to.stage = r.stage
    BY <1>r, <2>2 DEF ViewerType, Views
  <2>4. r.stage = "read"
    BY <2>1 DEF ViewerStep
  <2>5. QED
    BY <1>8, <2>1, <2>3, <2>4, ViewerOnly DEF Read
<1>9. CASE LookupAgain(v)
  BY <1>9, FindCacheInv DEF LookupAgain
<1>10. CASE AgainInstall(v)
  BY <1>10, InstallForInv DEF AgainInstall
<1>11. CASE Insert(v)
  <2>1. /\ viewer' \in [Viewers -> ViewerType]
        /\ \A u \in Viewers : viewer'[u].stage \in {"install", "reinstall"}
                                => viewer'[u].key \in Projects
    BY <1>11, <1>i, ViewerStepType DEF Insert
  <2>2. [view |-> r.view, left |-> Ttl] \in Entries
    BY <1>r, Constant DEF ViewerType, Entries
  <2>3. entry' \in [Keys -> Entries]
    BY <1>11, <2>2 DEF Insert, IInv, TypeOK
  <2>4. QED
    BY <1>11, <2>1, <2>3 DEF Insert, IInv, TypeOK, HasProject, shared, ViewerType
<1>12. CASE Leave(v)
  <2>1. ViewerStep(v, r.stage, IdleViewer)
    BY <1>12 DEF Leave, ViewerStep
  <2>2. QED
    BY <1>12, <1>i, <2>1, ViewerOnly DEF Leave
<1>13. QED
  BY <1>1, <1>2, <1>3, <1>4, <1>5, <1>6, <1>7, <1>8, <1>9, <1>10, <1>11, <1>12

LEMMA CommitType ==
  ASSUME IInv, NEW p \in Projects, Commit(p) \/ UNCHANGED data
  PROVE  data' \in [Projects -> Nat]
  BY DEF IInv, TypeOK, Commit

LEMMA SettlesType ==
  ASSUME IInv, NEW w \in Workers \cup Admins, NEW k \in Keys,
         writer[w].project \in Projects, Settles(w, k)
  PROVE  settled' \in [Keys -> [Projects -> Nat]]
<1>1. writer[w].version \in Nat
  BY DEF IInv, TypeOK
<1>2. QED
  BY <1>1 DEF Settles, IInv, TypeOK

\* A step of a writer to a record w2, with what else it changes well typed.
LEMMA WriterInv ==
  ASSUME IInv, NEW w \in Workers \cup Admins,
         \/ w \in Workers /\ \E p \in Projects : Flush(w, p)
         \/ w \in Admins /\ \E p \in Projects : AdminWrite(w, p)
         \/ WorkerLookup(w) \/ WorkerInstall(w) \/ AdminLeaves(w)
         \/ InvalidateProject(w) \/ InvalidateAll(w)
  PROVE  IInv'
<1> DEFINE r == writer[w]
           OK(s) == /\ s \in WriterType
                    /\ s.stage # "idle" => s.project \in Projects
<1>r. OK(r)
  BY DEF IInv, TypeOK, HasProject, WriterType
<1>i. OK(IdleWriter) /\ IdleWriter.stage = "idle"
  BY DEF IdleWriter, WriterType, WriterStages
<1>p. Projects \subseteq Keys /\ All \in Keys
  BY DEF Keys
<1>1. ASSUME NEW p \in Projects, Flush(w, p) PROVE IInv'
  <2>1. data' \in [Projects -> Nat]
    BY <1>1, CommitType DEF Flush
  <2>2. PICK next \in {"cache", "project"} :
           WriterStep(w, "idle",
                      [stage |-> next, project |-> p, version |-> data'[p]])
    BY <1>1 DEF Flush
  <2>3. OK([stage |-> next, project |-> p, version |-> data'[p]])
    BY <2>1 DEF WriterType, WriterStages
  <2>4. QED
    BY <1>1, <2>1, <2>2, <2>3, WriterStepType
    DEF Flush, IInv, TypeOK, HasProject, WriterType
<1>2. ASSUME NEW p \in Projects, AdminWrite(w, p) PROVE IInv'
  <2>1. data' \in [Projects -> Nat]
    BY <1>2, CommitType DEF AdminWrite
  <2>2. OK([stage |-> "project", project |-> p, version |-> data'[p]])
    BY <2>1 DEF WriterType, WriterStages
  <2>3. QED
    BY <1>2, <2>1, <2>2, WriterStepType
    DEF AdminWrite, IInv, TypeOK, HasProject, WriterType
<1>3. CASE WorkerLookup(w)
  <2> DEFINE to == [r EXCEPT !.stage = IF HasCache(r.project)
                                       THEN "project" ELSE "install"]
  <2>1. r.project \in Projects
    BY <1>3, <1>r DEF WorkerLookup, WriterStep
  <2>2. OK(to)
    BY <1>r, <2>1 DEF WriterType, WriterStages
  <2>3. QED
    BY <1>3, <2>2, WriterStepType
    DEF WorkerLookup, IInv, TypeOK, HasProject, WriterType, shared
<1>4. CASE WorkerInstall(w)
  <2>1. r.project \in Projects
    BY <1>4, <1>r DEF WorkerInstall, WriterStep
  <2>2. OK([r EXCEPT !.stage = "project"])
    BY <1>r, <2>1 DEF WriterType, WriterStages
  <2>3. /\ writer' \in [Workers \cup Admins -> WriterType]
        /\ \A u \in Workers \cup Admins : writer'[u].stage # "idle"
                                            => writer'[u].project \in Projects
    BY <1>4, <2>2, WriterStepType DEF WorkerInstall
  <2>4. Install(r.project)
    BY <1>4 DEF WorkerInstall
  <2>5. QED
    BY <1>4, <2>1, <2>3, <2>4, InstallType
    DEF WorkerInstall, IInv, TypeOK, HasProject, WriterType, ViewerType, shared
<1>5. CASE AdminLeaves(w)
  BY <1>5, <1>i, WriterStepType
  DEF AdminLeaves, IInv, TypeOK, HasProject, WriterType, shared
<1>6. CASE InvalidateProject(w)
  <2>1. r.project \in Projects
    BY <1>6, <1>r DEF InvalidateProject, WriterStep
  <2>2. OK([r EXCEPT !.stage = "all"])
    BY <1>r, <2>1 DEF WriterType, WriterStages
  <2>3. settled' \in [Keys -> [Projects -> Nat]]
    BY <1>6, <1>p, <2>1, SettlesType DEF InvalidateProject
  <2>4. entry' \in [Keys -> Entries]
    BY <1>6, Constant DEF InvalidateProject, Invalidate, IInv, TypeOK
  <2>5. QED
    BY <1>6, <2>2, <2>3, <2>4, WriterStepType
    DEF InvalidateProject, IInv, TypeOK, HasProject, WriterType
<1>7. CASE InvalidateAll(w)
  <2>1. r.project \in Projects
    BY <1>7, <1>r DEF InvalidateAll, WriterStep
  <2>2. settled' \in [Keys -> [Projects -> Nat]]
    BY <1>7, <1>p, <2>1, SettlesType DEF InvalidateAll
  <2>3. entry' \in [Keys -> Entries]
    BY <1>7, Constant DEF InvalidateAll, Invalidate, IInv, TypeOK
  <2>4. QED
    BY <1>7, <1>i, <2>2, <2>3, WriterStepType
    DEF InvalidateAll, IInv, TypeOK, HasProject, WriterType
<1>8. QED
  BY <1>1, <1>2, <1>3, <1>4, <1>5, <1>6, <1>7

\* Time, evictions and the operations on projects.
LEMMA OthersInv ==
  ASSUME IInv,
         \/ Tick
         \/ \E k \in Keys : Evict(k)
         \/ \E p \in Projects :
               \/ Clean(p) \/ CreateProject(p) \/ ResizeCache(p)
               \/ DeleteProject(p) \/ RemoveResources(p)
  PROVE  IInv'
<1>1. CASE Tick
  <2>1. \A k \in Keys : entry[k].left > 1
                          => [entry[k] EXCEPT !.left = @ - 1] \in Entries
    BY Constant DEF IInv, TypeOK, Entries
  <2>2. \A k \in Keys : entry[k].left \in 0 .. Ttl
    BY Constant DEF IInv, TypeOK
  <2>3. entry' \in [Keys -> Entries]
    BY <1>1, <2>1, <2>2, Constant DEF Tick
  <2>4. QED
    BY <1>1, <2>3 DEF Tick, IInv, TypeOK, HasProject, shared
<1>2. ASSUME NEW k \in Keys, Evict(k) PROVE IInv'
  BY <1>2, Constant DEF Evict, IInv, TypeOK, HasProject, shared
<1>3. ASSUME NEW p \in Projects, Clean(p) PROVE IInv'
  BY <1>3, CommitType DEF Clean, IInv, TypeOK, HasProject
<1>4. ASSUME NEW p \in Projects, CreateProject(p) PROVE IInv'
  BY <1>4 DEF CreateProject, IInv, TypeOK, HasProject
<1>5. ASSUME NEW p \in Projects, ResizeCache(p) PROVE IInv'
  BY <1>5, InstallType
  DEF ResizeCache, IInv, TypeOK, HasProject, ViewerType, shared
<1>6. ASSUME NEW p \in Projects, DeleteProject(p) PROVE IInv'
  BY <1>6 DEF DeleteProject, IInv, TypeOK, HasProject
<1>7. ASSUME NEW p \in Projects, RemoveResources(p) PROVE IInv'
  <2>1. entry' \in [Keys -> Entries]
    BY <1>7, Constant DEF RemoveResources, IInv, TypeOK
  <2>2. QED
    BY <1>7, <2>1, DetachedType
    DEF RemoveResources, IInv, TypeOK, HasProject, ViewerType
<1>8. QED
  BY <1>1, <1>2, <1>3, <1>4, <1>5, <1>6, <1>7

LEMMA NextIInv == IInv /\ [Next]_vars => IInv'
<1> SUFFICES ASSUME IInv, [Next]_vars PROVE IInv'
  OBVIOUS
<1>1. CASE UNCHANGED vars
  BY <1>1 DEF IInv, TypeOK, HasProject, vars
<1>2. CASE Next
  BY <1>2, ViewerInv, WriterInv, OthersInv DEF Next
<1>3. QED
  BY <1>1, <1>2

\* Every variable keeps its type, whatever the number of callers and projects.
THEOREM TypeCorrect == Spec => []TypeOK
<1>1. IInv => TypeOK
  BY DEF IInv
<1>2. QED
  BY InitIInv, NextIInv, <1>1, PTL DEF Spec

-----------------------------------------------------------------------------
(* A dashboard can only fall behind if it changes to something else than   *)
(* nothing, or if what is settled about its key changes.                   *)

LEMMA Forgotten ==
  ASSUME NEW k \in Keys, entry'[k] = NoEntry
  PROVE  ~Behind(k)'
  BY DEF Behind, NoEntry, Blank

LEMMA Kept ==
  ASSUME NEW k \in Keys, ~Behind(k),
         entry'[k].view = entry[k].view, settled'[k] = settled[k]
  PROVE  ~Behind(k)'
  BY DEF Behind

\* What a step does that installs a cache for p.
LEMMA InstallForgets ==
  ASSUME IInv, NEW k \in Keys, NEW p, ~Behind(k), settled' = settled,
         entry' = [entry EXCEPT ![p] = NoEntry]
  PROVE  ~Behind(k)'
<1>1. CASE p = k
  BY <1>1, Forgotten DEF IInv, TypeOK
<1>2. CASE p # k
  BY <1>2, Kept DEF IInv, TypeOK
<1>3. QED
  BY <1>1, <1>2

\* An invalidation of j settles something about j only, and removes j.
LEMMA InvalidationSettles ==
  ASSUME IInv, NEW k \in Keys, NEW j \in Keys, NEW w, ~Behind(k),
         Invalidate(j), Settles(w, j)
  PROVE  ~Behind(k)'
<1>1. CASE j = k
  BY <1>1, Forgotten DEF IInv, TypeOK, Invalidate
<1>2. CASE j # k
  BY <1>2, Kept DEF IInv, TypeOK, Invalidate, Settles
<1>3. QED
  BY <1>1, <1>2

LEMMA InsertIsLate ==
  ASSUME IInv, NEW k \in Keys, NEW v \in Viewers, ~Behind(k), Behind(k)',
         Insert(v)
  PROVE  viewer[v].key = k /\ InsertsLate(v)
<1>1. settled' = settled
  BY DEF Insert, shared
<1>2. viewer[v].clone = "current" /\ viewer[v].key = k
  BY <1>1, Kept DEF Insert, IInv, TypeOK
<1>3. entry'[k].view = viewer[v].view
  BY <1>2 DEF Insert, IInv, TypeOK
<1>4. viewer[v].stage = "insert" /\ viewer'[v].stage = "idle"
  BY DEF Insert, ViewerStep, IdleViewer, IInv, TypeOK
<1>5. QED
  BY <1>1, <1>2, <1>3, <1>4 DEF InsertsLate, Behind

LEMMA StepIsLate ==
  ASSUME IInv, [Next]_vars, NEW k \in Keys, ~Behind(k), Behind(k)'
  PROVE  \E v \in Viewers : viewer[v].key = k /\ InsertsLate(v)
<1>1. CASE UNCHANGED <<entry, settled>>
  BY <1>1, Kept
<1>2. CASE Tick
  <2>1. \/ entry'[k] = NoEntry
        \/ entry'[k].view = entry[k].view
    <3>1. entry[k] \in Entries
      BY DEF IInv, TypeOK
    <3>2. [entry[k] EXCEPT !.left = @ - 1].view = entry[k].view
      BY <3>1 DEF Entries
    <3>3. QED
      BY <1>2, <3>2 DEF Tick
  <2>2. QED
    BY <1>2, <2>1, Forgotten, Kept DEF Tick, shared
<1>3. ASSUME NEW j \in Keys, Evict(j) PROVE FALSE
  BY <1>3, InstallForgets DEF Evict, shared
<1>4. ASSUME NEW v \in Viewers, LookupInstall(v) \/ AgainInstall(v) PROVE FALSE
  BY <1>4, InstallForgets DEF LookupInstall, AgainInstall, InstallFor, shared
<1>5. ASSUME NEW w \in Workers, WorkerInstall(w) PROVE FALSE
  BY <1>5, InstallForgets DEF WorkerInstall, Install, shared
<1>6. ASSUME NEW p \in Projects, ResizeCache(p) \/ RemoveResources(p) PROVE FALSE
  BY <1>6, InstallForgets DEF ResizeCache, RemoveResources, Install, shared
<1>7. ASSUME NEW w \in Workers \cup Admins, InvalidateProject(w) PROVE FALSE
  <2>1. writer[w].project \in Keys
    BY <1>7 DEF InvalidateProject, WriterStep, IInv, HasProject, Keys
  <2>2. QED
    BY <1>7, <2>1, InvalidationSettles DEF InvalidateProject
<1>8. ASSUME NEW w \in Workers \cup Admins, InvalidateAll(w) PROVE FALSE
  BY <1>8, InvalidationSettles DEF InvalidateAll, Keys
<1>9. ASSUME NEW v \in Viewers, Insert(v)
      PROVE  \E u \in Viewers : viewer[u].key = k /\ InsertsLate(u)
  BY <1>9, InsertIsLate
<1>10. ASSUME NEW v \in Viewers,
              \/ \E j \in Keys : View(v, j)
              \/ Lookup(v) \/ Get(v) \/ List(v) \/ Fail(v) \/ Computed(v)
              \/ \E p \in Projects : Read(v, p)
              \/ LookupAgain(v) \/ Leave(v)
       PROVE  UNCHANGED <<entry, settled>>
  BY <1>10 DEF View, Lookup, Get, List, Fail, Computed, Read, LookupAgain,
               Leave, FindCache, shared
<1>11. ASSUME \/ \E w \in Workers, p \in Projects : Flush(w, p)
              \/ \E w \in Workers : WorkerLookup(w)
              \/ \E a \in Admins : AdminLeaves(a)
              \/ \E a \in Admins, p \in Projects : AdminWrite(a, p)
              \/ \E p \in Projects : Clean(p) \/ CreateProject(p)
                                       \/ DeleteProject(p)
       PROVE  UNCHANGED <<entry, settled>>
  BY <1>11 DEF Flush, WorkerLookup, AdminLeaves, AdminWrite, Clean,
               CreateProject, DeleteProject, shared
<1>12. CASE UNCHANGED vars
  BY <1>1, <1>12 DEF vars
<1>13. CASE Next
  BY <1>1, <1>2, <1>3, <1>4, <1>5, <1>6, <1>7, <1>8, <1>9, <1>10, <1>11, <1>13
  DEF Next
<1>14. QED
  BY <1>12, <1>13

\* For any number of projects, callers, writers and replaced caches: a
\* dashboard that misses a commit whose invalidation is done was inserted after
\* that by a call that had computed before.
THEOREM InvalidationsReachAll == Spec => OnlyInsertsAreLate
<1>1. IInv /\ [Next]_vars =>
        [\A k \in Keys : ~Behind(k) /\ Behind(k)'
            => \E v \in Viewers : viewer[v].key = k /\ InsertsLate(v)]_vars
  BY StepIsLate
<1>2. QED
  BY InitIInv, NextIInv, <1>1, PTL DEF Spec, OnlyInsertsAreLate

-----------------------------------------------------------------------------
(* The rate limiters                                                       *)

-----------------------------------------------------------------------------
(* Sums over ages                                                          *)

\* Induction for the members of a set.
LEMMA SetInduction ==
    ASSUME NEW S, 0 \in S, \A n \in Nat : n \in S => n + 1 \in S
    PROVE  Nat \subseteq S
<1> DEFINE bad == Nat \ S
<1> SUFFICES ASSUME bad # {} PROVE FALSE
  OBVIOUS
<1>1. PICK x \in bad : \A y \in bad : ~(y < x)
  <2>1. bad \subseteq Nat
    OBVIOUS
  <2> HIDE DEF bad
  <2>2. \E x \in bad : \A y \in bad : <<y, x>> \notin OpToRel(<, Nat)
    BY <2>1, NatLessThanWellFounded, WFMin
  <2>. QED BY <2>1, <2>2 DEF OpToRel
<1>2. x \in Nat /\ x # 0 /\ x - 1 \in Nat /\ (x - 1) + 1 = x
  OBVIOUS
<1>. QED BY <1>1, <1>2

\* Histories of width w, and the sums of one.
Ages(w) == [0 .. w - 1 -> Nat]
IsYounger(f, h, w) ==
    f = [n \in 0 .. w |-> IF n = 0 THEN 0 ELSE f[n - 1] + h[n - 1]]

LEMMA YoungerExists ==
    ASSUME NEW h, NEW w \in Nat
    PROVE  \E f : IsYounger(f, h, w)
<1> DEFINE S == {n \in Nat : \E f : IsYounger(f, h, n)}
<1>1. 0 \in S
  <2>1. IsYounger([n \in 0 .. 0 |-> 0], h, 0)
    BY DEF IsYounger
  <2>. QED BY <2>1
<1>2. ASSUME NEW n \in Nat, n \in S PROVE n + 1 \in S
  <2>1. PICK f : IsYounger(f, h, n)
    BY <1>2
  <2> DEFINE g == [i \in 0 .. n + 1 |-> IF i = n + 1 THEN f[n] + h[n] ELSE f[i]]
  <2>2. \A i \in 0 .. n : g[i] = f[i]
    OBVIOUS
  <2>3. \A i \in 0 .. n : f[i] = IF i = 0 THEN 0 ELSE f[i - 1] + h[i - 1]
    BY <2>1 DEF IsYounger
  <2>4. ASSUME NEW i \in 0 .. n + 1
        PROVE  g[i] = IF i = 0 THEN 0 ELSE g[i - 1] + h[i - 1]
    <3>1. CASE i = n + 1
      <4>1. i - 1 = n /\ n \in 0 .. n /\ i # 0
        BY <3>1
      <4>. QED BY <3>1, <4>1, <2>2
    <3>2. CASE i # n + 1
      <4>1. i \in 0 .. n /\ (i # 0 => i - 1 \in 0 .. n)
        BY <3>2
      <4>. QED BY <4>1, <2>2, <2>3
    <3>. QED BY <3>1, <3>2
  <2>5. g = [i \in 0 .. n + 1 |-> g[i]]
    OBVIOUS
  <2> HIDE DEF g
  <2>6. IsYounger(g, h, n + 1)
    BY <2>4, <2>5 DEF IsYounger
  <2>. QED BY <2>6
<1> HIDE DEF S
<1>3. Nat \subseteq S
  BY <1>1, <1>2, SetInduction
<1>. QED BY <1>3 DEF S

\* The sums are what their definition says.
LEMMA YoungerSteps ==
    ASSUME NEW w \in Nat, NEW h \in Ages(w)
    PROVE  /\ Younger(h, w)[0] = 0
           /\ \A n \in 1 .. w : Younger(h, w)[n] = Younger(h, w)[n - 1] + h[n - 1]
           /\ \A n \in 0 .. w : Younger(h, w)[n] \in Nat
<1> DEFINE f == Younger(h, w)
<1>1. IsYounger(f, h, w)
  BY YoungerExists DEF Younger, IsYounger
<1> HIDE DEF f
<1>2. \A n \in 0 .. w : f[n] = IF n = 0 THEN 0 ELSE f[n - 1] + h[n - 1]
  BY <1>1 DEF IsYounger
<1> DEFINE S == {n \in Nat : n <= w => f[n] \in Nat}
<1>3. 0 \in S
  BY <1>2
<1>4. ASSUME NEW n \in Nat, n \in S PROVE n + 1 \in S
  <2> SUFFICES ASSUME n + 1 <= w PROVE f[n + 1] \in Nat
    OBVIOUS
  <2>1. f[n] \in Nat /\ n \in 0 .. w - 1 /\ n + 1 \in 0 .. w /\ h[n] \in Nat
    BY <1>4 DEF Ages
  <2>2. f[n + 1] = f[n] + h[n]
    BY <1>2, <2>1
  <2>. QED BY <2>1, <2>2
<1>5. Nat \subseteq S
  <2> HIDE DEF S
  <2>. QED BY <1>3, <1>4, SetInduction
<1>. QED BY <1>2, <1>5 DEF f

\* Older ages only add, ...
LEMMA YoungerGrows ==
    ASSUME NEW w \in Nat, NEW h \in Ages(w),
           NEW m \in 0 .. w, NEW n \in 0 .. w, m <= n
    PROVE  Younger(h, w)[m] <= Younger(h, w)[n]
<1> DEFINE f == Younger(h, w)
           S == {k \in Nat : m <= k /\ k <= w => f[m] <= f[k]}
<1>1. /\ \A k \in 1 .. w : f[k] = f[k - 1] + h[k - 1]
      /\ \A k \in 0 .. w : f[k] \in Nat
  BY YoungerSteps
<1> HIDE DEF f
<1>2. 0 \in S
  BY <1>1
<1>3. ASSUME NEW k \in Nat, k \in S PROVE k + 1 \in S
  <2> SUFFICES ASSUME m <= k + 1, k + 1 <= w PROVE f[m] <= f[k + 1]
    OBVIOUS
  <2>1. k \in 0 .. w - 1 /\ k \in 0 .. w /\ k + 1 \in 1 .. w /\ h[k] \in Nat
    BY DEF Ages
  <2>2. f[k + 1] = f[k] + h[k] /\ f[k] \in Nat /\ f[m] \in Nat
    BY <1>1, <2>1
  <2>3. m = k + 1 \/ f[m] <= f[k]
    BY <1>3
  <2>. QED BY <2>1, <2>2, <2>3
<1>4. Nat \subseteq S
  <2> HIDE DEF S
  <2>. QED BY <1>2, <1>3, SetInduction
<1>. QED BY <1>4 DEF f

\* ... and nothing adds up to nothing.
LEMMA YoungerZero ==
    ASSUME NEW w \in Nat, NEW h \in Ages(w), \A a \in 0 .. w - 1 : h[a] = 0
    PROVE  Younger(h, w)[w] = 0
<1> DEFINE f == Younger(h, w)
           S == {k \in Nat : k <= w => f[k] = 0}
<1>1. f[0] = 0 /\ \A k \in 1 .. w : f[k] = f[k - 1] + h[k - 1]
  BY YoungerSteps
<1> HIDE DEF f
<1>2. 0 \in S
  BY <1>1
<1>3. ASSUME NEW k \in Nat, k \in S PROVE k + 1 \in S
  <2> SUFFICES ASSUME k + 1 <= w PROVE f[k + 1] = 0
    OBVIOUS
  <2>1. k \in 0 .. w - 1 /\ k + 1 \in 1 .. w
    OBVIOUS
  <2>2. f[k + 1] = f[k] + h[k] /\ f[k] = 0
    BY <1>1, <2>1, <1>3
  <2>. QED BY <2>1, <2>2
<1>4. Nat \subseteq S
  <2> HIDE DEF S
  <2>. QED BY <1>2, <1>3, SetInduction
<1>. QED BY <1>4 DEF f

\* A tick moves each sum one age up.
LEMMA YoungerAged ==
    ASSUME NEW w \in Nat \ {0}, NEW h \in Ages(w)
    PROVE  /\ Aged(h) \in Ages(w)
           /\ Aged(h)[0] = 0
           /\ \A a \in 1 .. w - 1 : Aged(h)[a] = h[a - 1]
           /\ \A n \in 1 .. w : Younger(Aged(h), w)[n] = Younger(h, w)[n - 1]
<1> DEFINE g == Aged(h)
           f == Younger(h, w)
           e == Younger(g, w)
<1>1. g \in Ages(w) /\ g[0] = 0 /\ \A a \in 1 .. w - 1 : g[a] = h[a - 1]
  <2>1. \A a \in 0 .. w - 1 : a # 0 => a - 1 \in 0 .. w - 1
    OBVIOUS
  <2>. QED BY <2>1 DEF Aged, Ages
<1> HIDE DEF g
<1>2. f[0] = 0 /\ \A k \in 1 .. w : f[k] = f[k - 1] + h[k - 1]
  BY YoungerSteps
<1>3. e[0] = 0 /\ \A k \in 1 .. w : e[k] = e[k - 1] + g[k - 1]
  BY <1>1, YoungerSteps
<1> HIDE DEF f, e
<1> DEFINE S == {k \in Nat : 1 <= k /\ k <= w => e[k] = f[k - 1]}
<1>4. 0 \in S
  OBVIOUS
<1>5. ASSUME NEW k \in Nat, k \in S PROVE k + 1 \in S
  <2> SUFFICES ASSUME k + 1 <= w PROVE e[k + 1] = f[k]
    OBVIOUS
  <2>1. e[k + 1] = e[k] + g[k]
    BY <1>3
  <2>2. CASE k = 0
    BY <1>1, <1>2, <1>3, <2>1, <2>2 DEF Ages
  <2>3. CASE k # 0
    <3>1. k \in 1 .. w /\ k \in 1 .. w - 1
      BY <2>3
    <3>2. e[k] = f[k - 1] /\ g[k] = h[k - 1] /\ f[k] = f[k - 1] + h[k - 1]
      BY <1>1, <1>2, <1>5, <3>1
    <3>. QED BY <2>1, <3>2
  <2>. QED BY <2>2, <2>3
<1>6. Nat \subseteq S
  <2> HIDE DEF S
  <2>. QED BY <1>4, <1>5, SetInduction
<1>7. \A n \in 1 .. w : e[n] = f[n - 1]
  BY <1>6
<1>. QED BY <1>1, <1>7 DEF e, f, g

\* One more of age 0 is one more below every age.
LEMMA YoungerAdd ==
    ASSUME NEW w \in Nat \ {0}, NEW h \in Ages(w)
    PROVE  /\ [h EXCEPT ![0] = @ + 1] \in Ages(w)
           /\ \A n \in 1 .. w :
                 Younger([h EXCEPT ![0] = @ + 1], w)[n] = Younger(h, w)[n] + 1
<1> DEFINE g == [h EXCEPT ![0] = @ + 1]
           f == Younger(h, w)
           e == Younger(g, w)
<1>1. g \in Ages(w) /\ g[0] = h[0] + 1 /\ \A a \in 1 .. w - 1 : g[a] = h[a]
  BY DEF Ages
<1> HIDE DEF g
<1>2. /\ f[0] = 0 /\ \A k \in 1 .. w : f[k] = f[k - 1] + h[k - 1]
      /\ \A k \in 0 .. w : f[k] \in Nat
  BY YoungerSteps
<1>3. e[0] = 0 /\ \A k \in 1 .. w : e[k] = e[k - 1] + g[k - 1]
  BY <1>1, YoungerSteps
<1> HIDE DEF f, e
<1> DEFINE S == {k \in Nat : 1 <= k /\ k <= w => e[k] = f[k] + 1}
<1>4. 0 \in S
  OBVIOUS
<1>5. ASSUME NEW k \in Nat, k \in S PROVE k + 1 \in S
  <2> SUFFICES ASSUME k + 1 <= w PROVE e[k + 1] = f[k + 1] + 1
    OBVIOUS
  <2>1. e[k + 1] = e[k] + g[k] /\ f[k + 1] = f[k] + h[k] /\ h[k] \in Nat /\ f[k] \in Nat
    BY <1>2, <1>3 DEF Ages
  <2>2. CASE k = 0
    BY <1>1, <1>2, <1>3, <2>1, <2>2
  <2>3. CASE k # 0
    <3>1. k \in 1 .. w /\ k \in 1 .. w - 1
      BY <2>3
    <3>2. e[k] = f[k] + 1 /\ g[k] = h[k]
      BY <1>1, <1>5, <3>1
    <3>. QED BY <2>1, <3>2
  <2>. QED BY <2>2, <2>3
<1>6. Nat \subseteq S
  <2> HIDE DEF S
  <2>. QED BY <1>4, <1>5, SetInduction
<1>7. \A n \in 1 .. w : e[n] = f[n] + 1
  BY <1>6
<1>. QED BY <1>1, <1>7 DEF e, f, g

-----------------------------------------------------------------------------
(* What each entry knows of what it let through                            *)

\* An entry with this time left to live counts all of h in a window of w, and
\* nothing in h is younger than it.
Covers(count, left, h, w) ==
    /\ \A a \in 0 .. w - 1 : a < w - left => h[a] = 0
    /\ InLast(w, h) <= count

\* The 10 minute limiter's entry does, and what a call has read of it.
TenRule ==
    /\ Covers(ten.count, ten.left, granted, TenWindow)
    /\ \A c \in Calls : stage[c] = "tenPut" =>
          InLast(TenWindow, granted) <= seen[c].count

\* So it is with the daily one.
DayRule ==
    /\ Covers(day.count, day.left, admitted, DayWindow)
    /\ \A c \in Calls : stage[c] = "dayPut" =>
          InLast(DayWindow, admitted) <= seen[c].count

\* What passed since the window began is in the count; what passed before it is
\* of one window, and when a window is over nothing passed in it just now.
SinceIn(h, age) == Younger(h, IpWindow)[Least(age + 1, IpWindow)]
Ruled(h, count, age) ==
    /\ age <= IpWindow => /\ SinceIn(h, age) <= Least(count, IpLimit)
                          /\ InLast(IpWindow, h) - SinceIn(h, age) <= IpLimit
    /\ age = Over => InLast(IpWindow, h) <= IpLimit /\ h[0] = 0
IpRule ==
    /\ Ruled(passed, ip.count, ip.age)
    /\ \A c \in Calls : stage[c] = "ipPut" =>
         seen[c].count = ip.count /\ seen[c].age = ip.age

RateIInv == LimitTypeOK /\ TenRule /\ DayRule /\ IpRule

\* The client waits for each answer: it has one call in flight.
Alone == \E c : Calls = {c}

LEMMA LimitConstants ==
    /\ IpLimit \in Nat \ {0} /\ TenLimit \in Nat \ {0} /\ DayLimit \in Nat \ {0}
    /\ IpWindow \in Nat \ {0} /\ TenWindow \in Nat \ {0} /\ DayWindow \in Nat \ {0}
    /\ TenBytes \in Nat /\ \A len \in Sizes : len \in Nat
    /\ Over = IpWindow + 1
BY LimitAssumption DEF Over

-----------------------------------------------------------------------------
(* Types, for any number of calls                                          *)


IpEntry == [count : 0 .. IpLimit + 1, age : 0 .. Over]
TenEntry == [count : 0 .. TenLimit, bytes : 0 .. TenBytes, left : 0 .. TenWindow]
DayEntry == [count : 0 .. DayLimit, left : 0 .. DayWindow]
Copy == [count : Nat, bytes : Nat, age : 0 .. Over]

LEMMA LimitTypes ==
    LimitTypeOK <=> /\ ip \in IpEntry /\ ten \in TenEntry /\ day \in DayEntry
                    /\ stage \in [Calls -> Stages] /\ seen \in [Calls -> Copy]
                    /\ allow \in [Calls -> BOOLEAN]
                    /\ passed \in Ages(IpWindow) /\ granted \in Ages(TenWindow)
                    /\ admitted \in Ages(DayWindow)
BY DEF LimitTypeOK, IpEntry, TenEntry, DayEntry, Copy, Ages

LEMMA LimitTypesNext ==
    LimitTypeOK' <=> /\ ip' \in IpEntry /\ ten' \in TenEntry /\ day' \in DayEntry
                     /\ stage' \in [Calls -> Stages] /\ seen' \in [Calls -> Copy]
                     /\ allow' \in [Calls -> BOOLEAN]
                     /\ passed' \in Ages(IpWindow) /\ granted' \in Ages(TenWindow)
                     /\ admitted' \in Ages(DayWindow)
BY DEF LimitTypeOK, IpEntry, TenEntry, DayEntry, Copy, Ages

\* What a call reads is a copy, and so is the one it has forgotten.
LEMMA CopyTypes ==
    /\ Nothing \in Copy
    /\ ip \in IpEntry =>
          [Nothing EXCEPT !.count = ip.count, !.age = ip.age] \in Copy
    /\ ten \in TenEntry =>
          [Nothing EXCEPT !.count = ten.count, !.bytes = ten.bytes] \in Copy
    /\ day \in DayEntry => [Nothing EXCEPT !.count = day.count] \in Copy
<1>1. 0 \in 0 .. Over /\ Nothing \in Copy
  BY LimitConstants DEF Nothing, Copy
<1>2. ASSUME ip \in IpEntry
      PROVE  [Nothing EXCEPT !.count = ip.count, !.age = ip.age] \in Copy
  <2>1. ip.count \in Nat /\ ip.age \in 0 .. Over
    BY <1>2, LimitConstants DEF IpEntry
  <2>. QED BY <2>1 DEF Nothing, Copy
<1>3. ASSUME ten \in TenEntry
      PROVE  [Nothing EXCEPT !.count = ten.count, !.bytes = ten.bytes] \in Copy
  <2>1. ten.count \in Nat /\ ten.bytes \in Nat
    BY <1>3, LimitConstants DEF TenEntry
  <2>. QED BY <1>1, <2>1 DEF Nothing, Copy
<1>4. ASSUME day \in DayEntry
      PROVE  [Nothing EXCEPT !.count = day.count] \in Copy
  <2>1. day.count \in Nat
    BY <1>4, LimitConstants DEF DayEntry
  <2>. QED BY <1>1, <2>1 DEF Nothing, Copy
<1>. QED BY <1>1, <1>2, <1>3, <1>4

LEMMA TickType ==
    ASSUME LimitTypeOK, TickLimits
    PROVE  LimitTypeOK'
<1>1. ip' \in IpEntry
  <2>1. ip \in IpEntry /\ ip' = [ip EXCEPT !.age = Least(@ + 1, Over)]
    BY LimitTypes DEF TickLimits
  <2>2. Least(ip.age + 1, Over) \in 0 .. Over
    BY <2>1, LimitConstants DEF IpEntry, Least
  <2>. QED BY <2>1, <2>2 DEF IpEntry
<1>2. ten' \in TenEntry
  <2>1. ten \in TenEntry
    BY LimitTypes
  <2>2. ten' = IF ten.left <= 1 THEN [count |-> 0, bytes |-> 0, left |-> 0]
               ELSE [ten EXCEPT !.left = @ - 1]
    BY DEF TickLimits
  <2>. QED BY <2>1, <2>2, LimitConstants DEF TenEntry
<1>3. day' \in DayEntry
  <2>1. day \in DayEntry
    BY LimitTypes
  <2>2. day' = IF day.left <= 1 THEN [count |-> 0, left |-> 0]
               ELSE [day EXCEPT !.left = @ - 1]
    BY DEF TickLimits
  <2>. QED BY <2>1, <2>2, LimitConstants DEF DayEntry
<1>4. seen' \in [Calls -> Copy]
  <2>1. seen \in [Calls -> Copy]
    BY LimitTypes
  <2>2. seen' = [c \in Calls |->
                   IF stage[c] = "ipPut" THEN [seen[c] EXCEPT !.age = Least(@ + 1, Over)]
                   ELSE seen[c]]
    BY DEF TickLimits
  <2>3. ASSUME NEW c \in Calls
        PROVE  [seen[c] EXCEPT !.age = Least(@ + 1, Over)] \in Copy
    <3>1. seen[c] \in Copy
      BY <2>1
    <3>2. Least(seen[c].age + 1, Over) \in 0 .. Over
      BY <3>1, LimitConstants DEF Copy, Least
    <3>. QED BY <3>1, <3>2 DEF Copy
  <2>. QED BY <2>1, <2>2, <2>3
<1>5. /\ passed' \in Ages(IpWindow) /\ granted' \in Ages(TenWindow)
      /\ admitted' \in Ages(DayWindow)
  BY LimitTypes, LimitConstants, YoungerAged DEF TickLimits
<1>6. stage' \in [Calls -> Stages] /\ allow' \in [Calls -> BOOLEAN]
  BY LimitTypes DEF TickLimits
<1>. QED BY <1>1, <1>2, <1>3, <1>4, <1>5, <1>6, LimitTypesNext

LEMMA ReadType ==
    ASSUME LimitTypeOK, NEW c \in Calls,
           Arrive(c) \/ IpGet(c) \/ TenGet(c) \/ DayGet(c)
    PROVE  LimitTypeOK'
<1>1. /\ ip \in IpEntry /\ ten \in TenEntry /\ day \in DayEntry
      /\ stage \in [Calls -> Stages] /\ seen \in [Calls -> Copy]
      /\ allow \in [Calls -> BOOLEAN]
  BY LimitTypes
<1>2. UNCHANGED <<limiters, history>>
  BY DEF Arrive, IpGet, TenGet, DayGet
<1>3. stage' \in [Calls -> Stages]
  <2>1. \E s \in {"ip", "ipPut", "tenPut", "dayPut"} : stage' = [stage EXCEPT ![c] = s]
    BY DEF Arrive, IpGet, TenGet, DayGet, Goto
  <2>. QED BY <1>1, <2>1 DEF Stages
<1>4. allow' \in [Calls -> BOOLEAN]
  BY <1>1 DEF Arrive, IpGet, TenGet, DayGet
<1>5. seen' \in [Calls -> Copy]
  <2>1. \/ seen' = seen
        \/ \E e \in Copy : seen' = [seen EXCEPT ![c] = e]
    <3>1. CASE Arrive(c)
      BY <3>1 DEF Arrive
    <3>2. CASE IpGet(c)
      BY <3>2, <1>1, CopyTypes DEF IpGet, Recall
    <3>3. CASE TenGet(c)
      BY <3>3, <1>1, CopyTypes DEF TenGet, Recall
    <3>4. CASE DayGet(c)
      BY <3>4, <1>1, CopyTypes DEF DayGet, Recall
    <3>. QED BY <3>1, <3>2, <3>3, <3>4
  <2>. QED BY <1>1, <2>1
<1>. QED BY <1>2, <1>3, <1>4, <1>5, LimitTypes, LimitTypesNext
         DEF limiters, history

LEMMA PutType ==
    ASSUME LimitTypeOK, NEW c \in Calls,
           IpPut(c) \/ TenPut(c) \/ DayPut(c)
    PROVE  LimitTypeOK'
<1>1. /\ ip \in IpEntry /\ ten \in TenEntry /\ day \in DayEntry
      /\ stage \in [Calls -> Stages] /\ seen \in [Calls -> Copy]
      /\ allow \in [Calls -> BOOLEAN]
      /\ passed \in Ages(IpWindow) /\ granted \in Ages(TenWindow)
      /\ admitted \in Ages(DayWindow)
  BY LimitTypes
<1>2. seen[c] \in Copy /\ seen[c].count \in Nat /\ seen[c].bytes \in Nat
      /\ seen[c].age \in 0 .. Over
  BY <1>1 DEF Copy
<1>3. seen' \in [Calls -> Copy]
  <2>1. seen' = [seen EXCEPT ![c] = Nothing]
    BY DEF IpPut, TenPut, DayPut, Forget
  <2>. QED BY <1>1, <2>1, CopyTypes
<1>4. stage' \in [Calls -> Stages]
  <2>1. \E s \in {"idle", "ten", "day"} : stage' = [stage EXCEPT ![c] = s]
    BY DEF IpPut, TenPut, DayPut, Goto
  <2>. QED BY <1>1, <2>1 DEF Stages
<1>5. allow' \in [Calls -> BOOLEAN]
  BY <1>1 DEF IpPut, TenPut, DayPut
<1>6. ip' \in IpEntry
  <2>1. \/ ip' = ip \/ ip' = [count |-> 1, age |-> 0]
        \/ ip' = [count |-> Least(seen[c].count, IpLimit) + 1, age |-> seen[c].age]
    BY DEF IpPut, TenPut, DayPut
  <2>2. Least(seen[c].count, IpLimit) + 1 \in 0 .. IpLimit + 1
    BY <1>2, LimitConstants DEF Least
  <2>. QED BY <1>1, <1>2, <2>1, <2>2, LimitConstants DEF IpEntry
<1>7. ten' \in TenEntry
  <2>1. \/ ten' = ten
        \/ \E len \in Sizes :
              /\ seen[c].count + 1 <= TenLimit /\ seen[c].bytes + len <= TenBytes
              /\ ten' = [count |-> seen[c].count + 1, bytes |-> seen[c].bytes + len,
                         left |-> TenWindow]
    BY DEF IpPut, TenPut, DayPut
  <2>. QED BY <1>1, <1>2, <2>1, LimitConstants DEF TenEntry
<1>8. day' \in DayEntry
  <2>1. \/ day' = day
        \/ /\ seen[c].count + 1 <= DayLimit
           /\ day' = [count |-> seen[c].count + 1, left |-> DayWindow]
    BY DEF IpPut, TenPut, DayPut
  <2>. QED BY <1>1, <1>2, <2>1, LimitConstants DEF DayEntry
<1>9. /\ passed' \in Ages(IpWindow) /\ granted' \in Ages(TenWindow)
      /\ admitted' \in Ages(DayWindow)
  <2>1. /\ passed' = passed \/ passed' = [passed EXCEPT ![0] = @ + 1]
        /\ granted' = granted \/ granted' = [granted EXCEPT ![0] = @ + 1]
    BY DEF IpPut, TenPut, DayPut
  <2>2. admitted' = admitted \/ admitted' = [admitted EXCEPT ![0] = @ + 1]
    <3>1. 0 \in 0 .. DayWindow - 1
      BY LimitConstants
    <3>2. \/ admitted' = admitted
          \/ admitted' = [admitted EXCEPT ![0] = IF allow[c] THEN @ + 1 ELSE @]
      BY DEF IpPut, TenPut, DayPut
    <3>3. admitted = [admitted EXCEPT ![0] = @]
      BY <1>1, <3>1 DEF Ages
    <3>. QED BY <3>2, <3>3
  <2>3. /\ IpWindow \in Nat \ {0} /\ TenWindow \in Nat \ {0}
        /\ DayWindow \in Nat \ {0}
    BY LimitConstants
  <2>. QED BY <1>1, <2>1, <2>2, <2>3, YoungerAdd
<1>. QED BY <1>3, <1>4, <1>5, <1>6, <1>7, <1>8, <1>9, LimitTypesNext

LEMMA LimitTypeInv ==
    LimitTypeOK /\ [LimitNext]_limitVars => LimitTypeOK'
<1>1. LimitTypeOK /\ UNCHANGED limitVars => LimitTypeOK'
  BY DEF limitVars, limiters, calls, history, LimitTypeOK
<1>. QED BY <1>1, TickType, ReadType, PutType DEF LimitNext, CallStep

-----------------------------------------------------------------------------
(* The rule of each limiter, for a call that waits for each answer         *)

LEMMA InitRateIInv ==
    LimitInit => RateIInv
<1> SUFFICES ASSUME LimitInit PROVE RateIInv
  OBVIOUS
<1>1. LimitTypeOK
  BY LimitConstants DEF LimitInit, LimitTypeOK, Stages, Nothing
<1>2. /\ InLast(TenWindow, granted) = 0 /\ InLast(DayWindow, admitted) = 0
      /\ InLast(IpWindow, passed) = 0
  <2>1. /\ \A a \in 0 .. TenWindow - 1 : granted[a] = 0
        /\ \A a \in 0 .. DayWindow - 1 : admitted[a] = 0
        /\ \A a \in 0 .. IpWindow - 1 : passed[a] = 0
    BY DEF LimitInit
  <2>. QED BY <1>1, <2>1, LimitConstants, LimitTypes, YoungerZero DEF InLast
<1>3. TenRule /\ DayRule
  BY <1>2, LimitConstants DEF LimitInit, TenRule, DayRule, Covers
<1>4. IpRule
  BY <1>2, LimitConstants DEF LimitInit, IpRule, Ruled
<1>. QED BY <1>1, <1>3, <1>4 DEF RateIInv

\* What a limiter lets through in a whole window.
LEMMA Windows ==
    ASSUME LimitTypeOK
    PROVE  /\ InLast(IpWindow, passed) \in Nat
           /\ InLast(TenWindow, granted) \in Nat
           /\ InLast(DayWindow, admitted) \in Nat
BY LimitTypes, LimitConstants, YoungerSteps DEF InLast

\* A tick does not add to it.
LEMMA WindowAged ==
    ASSUME NEW w \in Nat \ {0}, NEW h \in Ages(w)
    PROVE  /\ InLast(w, Aged(h)) <= InLast(w, h)
           /\ InLast(w, Aged(h)) \in Nat
<1>1. InLast(w, Aged(h)) = Younger(h, w)[w - 1]
  BY YoungerAged DEF InLast
<1>2. /\ Younger(h, w)[w - 1] <= Younger(h, w)[w]
      /\ Younger(h, w)[w - 1] \in Nat
  BY YoungerGrows, YoungerSteps
<1>. QED BY <1>1, <1>2 DEF InLast

LEMMA WindowAdd ==
    ASSUME NEW w \in Nat \ {0}, NEW h \in Ages(w)
    PROVE  InLast(w, [h EXCEPT ![0] = @ + 1]) = InLast(w, h) + 1
<1>1. w \in 1 .. w
  OBVIOUS
<1>2. Younger([h EXCEPT ![0] = @ + 1], w)[w] = Younger(h, w)[w] + 1
  BY <1>1, YoungerAdd
<1>. QED BY <1>2 DEF InLast

\* Once what an entry let through is older than the window, nothing is left.
LEMMA WindowEmpty ==
    ASSUME NEW w \in Nat \ {0}, NEW h \in Ages(w),
           \A a \in 0 .. w - 1 : a < w - 1 => h[a] = 0
    PROVE  /\ InLast(w, Aged(h)) = 0
           /\ \A a \in 0 .. w - 1 : Aged(h)[a] = 0
<1>1. /\ Aged(h) \in Ages(w)
      /\ Aged(h)[0] = 0
      /\ \A a \in 1 .. w - 1 : Aged(h)[a] = h[a - 1]
  BY YoungerAged
<1>2. \A a \in 0 .. w - 1 : Aged(h)[a] = 0
  <2> SUFFICES ASSUME NEW a \in 1 .. w - 1 PROVE Aged(h)[a] = 0
    BY <1>1
  <2>1. a - 1 \in 0 .. w - 1 /\ a - 1 < w - 1
    OBVIOUS
  <2>. QED BY <1>1, <2>1
<1>. QED BY <1>1, <1>2, YoungerZero DEF InLast

\* An entry that grows older, or expires, still covers what is in its window.
LEMMA CoversAged ==
    ASSUME NEW w \in Nat \ {0}, NEW h \in Ages(w), NEW n \in Nat, NEW l \in Nat,
           Covers(n, l, h, w)
    PROVE  /\ l <= 1 => Covers(0, 0, Aged(h), w)
           /\ l > 1 => Covers(n, l - 1, Aged(h), w)
<1>1. CASE l <= 1
  <2>1. \A a \in 0 .. w - 1 : a < w - 1 => h[a] = 0
    BY <1>1 DEF Covers
  <2>. QED BY <1>1, <2>1, WindowEmpty DEF Covers
<1>2. CASE l > 1
  <2>1. ASSUME NEW a \in 0 .. w - 1, a < w - (l - 1)
        PROVE  Aged(h)[a] = 0
    <3>1. CASE a = 0
      BY <3>1, YoungerAged
    <3>2. CASE a # 0
      <4>1. a \in 1 .. w - 1 /\ a - 1 \in 0 .. w - 1 /\ a - 1 < w - l
        BY <1>2, <2>1, <3>2
      <4>2. Aged(h)[a] = h[a - 1]
        BY <4>1, YoungerAged
      <4>. QED BY <4>1, <4>2 DEF Covers
    <3>. QED BY <3>1, <3>2
  <2>2. InLast(w, Aged(h)) <= n
    <3>1. InLast(w, h) \in Nat
      BY YoungerSteps DEF InLast
    <3>. QED BY <3>1, WindowAged DEF Covers
  <2>. QED BY <1>2, <2>1, <2>2 DEF Covers
<1>. QED BY <1>1, <1>2

\* An entry that is written back counts one more than what was read of it, and
\* lives from now.
LEMMA CoversAdd ==
    ASSUME NEW w \in Nat \ {0}, NEW h \in Ages(w), NEW n \in Nat,
           InLast(w, h) <= n
    PROVE  Covers(n + 1, w, h, w) /\ Covers(n + 1, w, [h EXCEPT ![0] = @ + 1], w)
<1>1. InLast(w, h) \in Nat
  BY YoungerSteps DEF InLast
<1>2. InLast(w, [h EXCEPT ![0] = @ + 1]) = InLast(w, h) + 1
  BY WindowAdd
<1>. QED BY <1>1, <1>2 DEF Covers

\* What a call has read covers the window still when it grows older.
LEMMA ReadAged ==
    ASSUME LimitTypeOK, TickLimits, NEW w \in Nat \ {0}, NEW h \in Ages(w),
           NEW s \in {"tenPut", "dayPut"},
           \A c \in Calls : stage[c] = s => InLast(w, h) <= seen[c].count
    PROVE  \A c \in Calls : stage'[c] = s =>
                 InLast(w, Aged(h)) <= seen'[c].count
<1> SUFFICES ASSUME NEW c \in Calls, stage'[c] = s
             PROVE  InLast(w, Aged(h)) <= seen'[c].count
  OBVIOUS
<1>1. seen'[c] = seen[c] /\ stage[c] = s
  BY DEF TickLimits
<1>2. seen[c].count \in Nat /\ InLast(w, h) \in Nat
  BY LimitTypes, YoungerSteps DEF Copy, InLast
<1>. QED BY <1>1, <1>2, WindowAged

LEMMA TenTick ==
    ASSUME LimitTypeOK, TenRule, TickLimits
    PROVE  TenRule'
<1>1. /\ granted \in Ages(TenWindow) /\ granted' = Aged(granted) /\ ten \in TenEntry
      /\ ten' = IF ten.left <= 1 THEN [count |-> 0, bytes |-> 0, left |-> 0]
                ELSE [ten EXCEPT !.left = @ - 1]
  BY LimitTypes DEF TickLimits
<1>2. ten.left \in Nat /\ ten.count \in Nat /\ TenWindow \in Nat \ {0}
  BY <1>1, LimitConstants DEF TenEntry
<1>3. Covers(ten'.count, ten'.left, granted', TenWindow)
  <2>1. CASE ten.left <= 1
    BY <1>1, <1>2, <2>1, CoversAged DEF TenRule
  <2>2. CASE ten.left > 1
    <3>1. ten'.left = ten.left - 1 /\ ten'.count = ten.count
      BY <1>1, <1>2, <2>2 DEF TenEntry
    <3>. QED BY <1>1, <1>2, <2>2, <3>1, CoversAged DEF TenRule
  <2>. QED BY <1>2, <2>1, <2>2
<1>. QED BY <1>1, <1>2, <1>3, ReadAged DEF TenRule

LEMMA DayTick ==
    ASSUME LimitTypeOK, DayRule, TickLimits
    PROVE  DayRule'
<1>1. /\ admitted \in Ages(DayWindow) /\ admitted' = Aged(admitted) /\ day \in DayEntry
      /\ day' = IF day.left <= 1 THEN [count |-> 0, left |-> 0]
                ELSE [day EXCEPT !.left = @ - 1]
  BY LimitTypes DEF TickLimits
<1>2. day.left \in Nat /\ day.count \in Nat /\ DayWindow \in Nat \ {0}
  BY <1>1, LimitConstants DEF DayEntry
<1>3. Covers(day'.count, day'.left, admitted', DayWindow)
  <2>1. CASE day.left <= 1
    BY <1>1, <1>2, <2>1, CoversAged DEF DayRule
  <2>2. CASE day.left > 1
    <3>1. day'.left = day.left - 1 /\ day'.count = day.count
      BY <1>1, <1>2, <2>2 DEF DayEntry
    <3>. QED BY <1>1, <1>2, <2>2, <3>1, CoversAged DEF DayRule
  <2>. QED BY <1>2, <2>1, <2>2
<1>. QED BY <1>1, <1>2, <1>3, ReadAged DEF DayRule

LEMMA TenPutInv ==
    ASSUME LimitTypeOK, TenRule, Alone, NEW c \in Calls,
           TenPut(c)
    PROVE  TenRule'
<1>1. /\ seen[c].count \in Nat /\ TenWindow \in Nat \ {0} /\ granted \in Ages(TenWindow)
      /\ InLast(TenWindow, granted) <= seen[c].count
  BY LimitTypes, LimitConstants DEF Copy, TenRule, TenPut
<1>2. \A d \in Calls : stage'[d] = "day"
  BY LimitTypes DEF Alone, TenPut, Goto
<1>3. CASE UNCHANGED <<ten, granted>>
  BY <1>2, <1>3 DEF TenRule
<1>4. CASE /\ \E len \in Sizes :
                ten' = [count |-> seen[c].count + 1, bytes |-> seen[c].bytes + len,
                        left |-> TenWindow]
           /\ granted' = [granted EXCEPT ![0] = @ + 1]
  <2>1. ten'.count = seen[c].count + 1 /\ ten'.left = TenWindow
    BY <1>4
  <2>. QED BY <1>1, <1>2, <1>4, <2>1, CoversAdd DEF TenRule
<1>. QED BY <1>3, <1>4 DEF TenPut

\* An event the 10 minute limiter refused is counted, and not admitted.
LEMMA DayPutInv ==
    ASSUME LimitTypeOK, DayRule, Alone, NEW c \in Calls,
           DayPut(c)
    PROVE  DayRule'
<1>1. /\ seen[c].count \in Nat /\ DayWindow \in Nat \ {0} /\ admitted \in Ages(DayWindow)
      /\ InLast(DayWindow, admitted) <= seen[c].count
  BY LimitTypes, LimitConstants DEF Copy, DayRule, DayPut
<1>2. \A d \in Calls : stage'[d] # "dayPut"
  <2>1. \E s \in {"idle", "ten"} : stage' = [stage EXCEPT ![c] = s]
    BY DEF DayPut, Goto
  <2>. QED BY <2>1, LimitTypes DEF Alone
<1>3. CASE UNCHANGED <<day, admitted>>
  BY <1>2, <1>3 DEF DayRule
<1>4. CASE /\ day' = [count |-> seen[c].count + 1, left |-> DayWindow]
           /\ admitted' = [admitted EXCEPT ![0] = IF allow[c] THEN @ + 1 ELSE @]
  <2>1. admitted' \in {admitted, [admitted EXCEPT ![0] = @ + 1]}
    <3>1. admitted = [admitted EXCEPT ![0] = @]
      BY <1>1 DEF Ages
    <3>. QED BY <1>4, <3>1
  <2>2. day'.count = seen[c].count + 1 /\ day'.left = DayWindow
    BY <1>4
  <2>. QED BY <1>1, <1>2, <2>1, <2>2, CoversAdd DEF DayRule
<1>. QED BY <1>3, <1>4 DEF DayPut

LEMMA SinceIsNat ==
    ASSUME NEW h \in Ages(IpWindow),
           NEW age \in 0 .. Over
    PROVE  /\ Least(age + 1, IpWindow) \in 1 .. IpWindow
           /\ SinceIn(h, age) \in Nat /\ InLast(IpWindow, h) \in Nat
           /\ SinceIn(h, age) <= InLast(IpWindow, h)
<1>1. Least(age + 1, IpWindow) \in 1 .. IpWindow
  BY LimitConstants DEF Least
<1>. QED BY <1>1, LimitConstants, YoungerSteps, YoungerGrows
         DEF SinceIn, InLast

LEMMA RuledAged ==
    ASSUME NEW h \in Ages(IpWindow), NEW count \in Nat,
           NEW age \in 0 .. Over,
           Ruled(h, count, age)
    PROVE  Ruled(Aged(h), count, Least(age + 1, Over))
<1> DEFINE f == Younger(h, IpWindow)
           g == Younger(Aged(h), IpWindow)
           w == IpWindow
           next == Least(age + 1, Over)
<1>1. /\ \A n \in 0 .. w : f[n] \in Nat
      /\ \A m, n \in 0 .. w : m <= n => f[m] <= f[n]
      /\ \A n \in 1 .. w : g[n] = f[n - 1]
      /\ Aged(h)[0] = 0
  BY LimitConstants, YoungerSteps, YoungerGrows, YoungerAged
<1>2. w \in Nat \ {0} /\ Over = w + 1 /\ IpLimit \in Nat
  BY LimitConstants
<1> HIDE DEF f, g, w
<1>3. CASE age < w
  <2>1. next = age + 1 /\ Least(age + 1, w) = age + 1 /\ age + 1 \in 1 .. w
    BY <1>2, <1>3 DEF Least
  <2>2. CASE age + 1 < w
    <3>1. Least(next + 1, w) = age + 2 /\ age + 2 \in 1 .. w /\ w \in 1 .. w
      BY <1>2, <2>1, <2>2 DEF Least
    <3>2. g[age + 2] = f[age + 1] /\ g[w] = f[w - 1]
      BY <1>1, <3>1
    <3>3. f[w - 1] <= f[w] /\ f[w - 1] \in Nat /\ f[w] \in Nat /\ f[age + 1] \in Nat
      BY <1>1, <1>2, <2>1
    <3>4. f[age + 1] <= Least(count, IpLimit) /\ f[w] - f[age + 1] <= IpLimit
      BY <1>2, <1>3, <2>1 DEF Ruled, SinceIn, InLast, f, w
    <3>5. g[age + 2] <= Least(count, IpLimit) /\ g[w] - g[age + 2] <= IpLimit
      BY <1>2, <3>2, <3>3, <3>4
    <3>. QED BY <1>2, <2>1, <2>2, <3>1, <3>5 DEF Ruled, SinceIn, InLast, g, w
  <2>3. CASE age + 1 = w
    <3>1. Least(next + 1, w) = w /\ w \in 1 .. w
      BY <1>2, <2>1, <2>3 DEF Least
    <3>2. g[w] = f[w - 1] /\ f[w - 1] <= f[w] /\ f[w - 1] \in Nat /\ f[w] \in Nat
      BY <1>1, <1>2, <3>1
    <3>3. f[w] <= Least(count, IpLimit)
      BY <1>2, <1>3, <2>1, <2>3 DEF Ruled, SinceIn, InLast, f, w
    <3>4. g[w] <= Least(count, IpLimit) /\ g[w] - g[w] <= IpLimit
      BY <1>2, <3>2, <3>3 DEF Least
    <3>. QED BY <1>2, <2>1, <2>3, <3>1, <3>4 DEF Ruled, SinceIn, InLast, g, w
  <2>. QED BY <1>2, <1>3, <2>2, <2>3
<1>4. CASE age >= w
  <2>1. next = Over
    BY <1>2, <1>4 DEF Least
  <2>2. g[w] = f[w - 1] /\ f[w - 1] <= f[w] /\ f[w - 1] \in Nat /\ f[w] \in Nat
    BY <1>1, <1>2
  <2>3. f[w] <= IpLimit
    <3>1. CASE age = w
      <4>1. Least(age + 1, w) = w /\ Least(count, IpLimit) <= IpLimit
            /\ Least(count, IpLimit) \in Nat
        BY <1>2, <3>1 DEF Least
      <4>2. f[w] <= Least(count, IpLimit)
        BY <1>2, <3>1, <4>1 DEF Ruled, SinceIn, f, w
      <4>. QED BY <1>2, <2>2, <4>1, <4>2
    <3>2. CASE age = Over
      BY <3>2 DEF Ruled, InLast, f, w
    <3>. QED BY <1>2, <1>4, <3>1, <3>2
  <2>4. g[w] <= IpLimit
    BY <1>2, <2>2, <2>3
  <2>. QED BY <1>1, <1>2, <2>1, <2>4 DEF Ruled, InLast, g, w
<1>. QED BY <1>2, <1>3, <1>4

\* One more that passes within the window is one more in its count, ...
LEMMA RuledAdd ==
    ASSUME NEW h \in Ages(IpWindow), NEW count \in Nat,
           NEW age \in 0 .. IpWindow,
           Ruled(h, count, age), count < IpLimit
    PROVE  Ruled([h EXCEPT ![0] = @ + 1], count + 1, age)
<1> DEFINE g == [h EXCEPT ![0] = @ + 1]
<1>1. /\ Least(age + 1, IpWindow) \in 1 .. IpWindow /\ IpWindow \in 1 .. IpWindow
      /\ SinceIn(h, age) \in Nat /\ InLast(IpWindow, h) \in Nat
  BY LimitConstants, SinceIsNat
<1>2. /\ SinceIn(g, age) = SinceIn(h, age) + 1
      /\ InLast(IpWindow, g) = InLast(IpWindow, h) + 1
  BY <1>1, LimitConstants, YoungerAdd DEF SinceIn, InLast
<1> HIDE DEF g
<1>3. /\ SinceIn(h, age) <= Least(count, IpLimit)
      /\ InLast(IpWindow, h) - SinceIn(h, age) <= IpLimit
  BY DEF Ruled
<1>4. Least(count, IpLimit) = count /\ Least(count + 1, IpLimit) = count + 1
  <2>1. IpLimit \in Nat
    BY LimitConstants
  <2>. QED BY <2>1 DEF Least
<1>5. age # Over
  BY LimitConstants
<1>6. /\ SinceIn(g, age) <= Least(count + 1, IpLimit)
      /\ InLast(IpWindow, g) - SinceIn(g, age) <= IpLimit
  BY <1>1, <1>2, <1>3, <1>4, LimitConstants
<1>. QED BY <1>5, <1>6 DEF Ruled, g

\* ... and the first after it begins the next window.
LEMMA RuledFirst ==
    ASSUME NEW h \in Ages(IpWindow), NEW count \in Nat,
           Ruled(h, count, Over)
    PROVE  Ruled([h EXCEPT ![0] = @ + 1], 1, 0)
<1> DEFINE g == [h EXCEPT ![0] = @ + 1]
<1>1. /\ Least(0 + 1, IpWindow) = 1 /\ 1 \in 1 .. IpWindow /\ IpWindow \in 1 .. IpWindow
      /\ 0 # Over /\ Least(1, IpLimit) = 1
  BY LimitConstants DEF Least
<1>2. /\ SinceIn(g, 0) = Younger(h, IpWindow)[1] + 1
      /\ InLast(IpWindow, g) = InLast(IpWindow, h) + 1
  BY <1>1, LimitConstants, YoungerAdd DEF SinceIn, InLast
<1>3. /\ Younger(h, IpWindow)[0] = 0
      /\ Younger(h, IpWindow)[1] = Younger(h, IpWindow)[1 - 1] + h[1 - 1]
      /\ InLast(IpWindow, h) \in Nat
  BY <1>1, LimitConstants, YoungerSteps DEF InLast
<1>4. h[0] = 0 /\ InLast(IpWindow, h) <= IpLimit
  BY DEF Ruled
<1> HIDE DEF g
<1>5. SinceIn(g, 0) = 1
  BY <1>2, <1>3, <1>4
<1>. QED BY <1>1, <1>2, <1>3, <1>4, <1>5, LimitConstants DEF Ruled, g

LEMMA RuledBound ==
    ASSUME NEW h \in Ages(IpWindow), NEW count \in Nat,
           NEW age \in 0 .. Over,
           Ruled(h, count, age)
    PROVE  InLast(IpWindow, h) <= 2 * IpLimit
<1>1. SinceIn(h, age) \in Nat /\ InLast(IpWindow, h) \in Nat
  BY SinceIsNat
<1>2. CASE age <= IpWindow
  <2>1. Least(count, IpLimit) <= IpLimit /\ Least(count, IpLimit) \in Nat
    BY LimitConstants DEF Least
  <2>. QED BY <1>1, <1>2, <2>1, LimitConstants DEF Ruled
<1>3. CASE age = Over
  BY <1>1, <1>3, LimitConstants DEF Ruled
<1>. QED BY <1>2, <1>3, LimitConstants

-----------------------------------------------------------------------------
(* The rules, action by action                                             *)

LEMMA IpTick ==
    ASSUME LimitTypeOK, IpRule, TickLimits
    PROVE  IpRule'
<1>1. /\ passed \in Ages(IpWindow) /\ passed' = Aged(passed) /\ ip \in IpEntry
      /\ ip' = [ip EXCEPT !.age = Least(@ + 1, Over)]
  BY LimitTypes DEF TickLimits
<1>2. /\ ip.count \in Nat /\ ip.age \in 0 .. Over
      /\ ip'.count = ip.count /\ ip'.age = Least(ip.age + 1, Over)
  BY <1>1, LimitConstants DEF IpEntry
<1>3. Ruled(passed', ip'.count, ip'.age)
  BY <1>1, <1>2, RuledAged DEF IpRule
<1>4. ASSUME NEW c \in Calls, stage'[c] = "ipPut"
      PROVE  seen'[c].count = ip'.count /\ seen'[c].age = ip'.age
  <2>1. /\ stage[c] = "ipPut" /\ seen'[c] = [seen[c] EXCEPT !.age = Least(@ + 1, Over)]
        /\ seen[c] \in Copy
    BY <1>4, LimitTypes DEF TickLimits
  <2>2. /\ seen'[c].count = seen[c].count
        /\ seen'[c].age = Least(seen[c].age + 1, Over)
    BY <2>1 DEF Copy
  <2>. QED BY <1>2, <2>1, <2>2 DEF IpRule
<1>. QED BY <1>3, <1>4 DEF IpRule

LEMMA IpPutInv ==
    ASSUME LimitTypeOK, IpRule, Alone, NEW c \in Calls,
           IpPut(c)
    PROVE  IpRule'
<1>1. /\ passed \in Ages(IpWindow) /\ seen[c].count \in Nat /\ seen[c].age \in 0 .. Over
      /\ Ruled(passed, seen[c].count, seen[c].age)
      /\ ip' = IF seen[c].age > IpWindow THEN [count |-> 1, age |-> 0]
               ELSE [count |-> Least(seen[c].count, IpLimit) + 1, age |-> seen[c].age]
      /\ \/ ip'.count > IpLimit /\ passed' = passed
         \/ ip'.count <= IpLimit /\ passed' = [passed EXCEPT ![0] = @ + 1]
  BY LimitTypes DEF Copy, IpRule, IpPut
<1>2. \A d \in Calls : stage'[d] # "ipPut"
  <2>1. stage' = [stage EXCEPT ![c] = "idle"] \/ stage' = [stage EXCEPT ![c] = "ten"]
    BY DEF IpPut, Goto
  <2>. QED BY <2>1, LimitTypes DEF Alone
<1>3. Ruled(passed', ip'.count, ip'.age)
  <2>1. CASE seen[c].age > IpWindow
    <3>1. /\ seen[c].age = Over
          /\ ip'.count = 1
          /\ ip'.age = 0
          /\ ~(ip'.count > IpLimit)
      BY <1>1, <2>1, LimitConstants
    <3>2. passed' = [passed EXCEPT ![0] = @ + 1]
      BY <1>1, <3>1
    <3>. QED BY <1>1, <3>1, <3>2, RuledFirst
  <2>2. CASE seen[c].age <= IpWindow
    <3>1. /\ ip'.count = Least(seen[c].count, IpLimit) + 1 /\ ip'.age = seen[c].age
          /\ seen[c].age \in 0 .. IpWindow
      BY <1>1, <2>2, LimitConstants
    <3>2. CASE seen[c].count < IpLimit
      <4>1. ip'.count = seen[c].count + 1 /\ ~(ip'.count > IpLimit)
        BY <1>1, <3>1, <3>2, LimitConstants DEF Least
      <4>. QED BY <1>1, <3>1, <3>2, <4>1, RuledAdd
    <3>3. CASE seen[c].count >= IpLimit
      <4>1. /\ ip'.count = IpLimit + 1 /\ passed' = passed
            /\ Least(ip'.count, IpLimit) = Least(seen[c].count, IpLimit)
        BY <1>1, <3>1, <3>3, LimitConstants DEF Least
      <4>. QED BY <1>1, <3>1, <4>1 DEF Ruled
    <3>. QED BY <1>1, <3>2, <3>3, LimitConstants
  <2>. QED BY <1>1, <2>1, <2>2, LimitConstants
<1>. QED BY <1>2, <1>3 DEF IpRule

\* A step of the one call away from a limiter leaves its rule alone.
LEMMA TenStable ==
    ASSUME TenRule, UNCHANGED <<ten, granted>>,
           \A c \in Calls : stage'[c] # "tenPut"
    PROVE  TenRule'
BY DEF TenRule

LEMMA DayStable ==
    ASSUME DayRule, UNCHANGED <<day, admitted>>,
           \A c \in Calls : stage'[c] # "dayPut"
    PROVE  DayRule'
BY DEF DayRule

LEMMA IpStable ==
    ASSUME IpRule, UNCHANGED <<ip, passed>>, \A c \in Calls : stage'[c] # "ipPut"
    PROVE  IpRule'
BY DEF IpRule

LEMMA ReadInv ==
    ASSUME RateIInv, Alone, NEW c \in Calls,
           Arrive(c) \/ IpGet(c) \/ TenGet(c) \/ DayGet(c)
    PROVE  TenRule' /\ DayRule' /\ IpRule'
<1>1. /\ UNCHANGED <<ip, ten, day, passed, granted, admitted>>
      /\ LimitTypeOK /\ TenRule /\ DayRule /\ IpRule
      /\ stage \in [Calls -> Stages] /\ seen \in [Calls -> Copy]
  BY LimitTypes
  DEF Arrive, IpGet, TenGet, DayGet, limiters,
      history, RateIInv
<1>2. \A d \in Calls : d = c
  BY DEF Alone
<1>3. CASE Arrive(c)
  <2>1. stage'[c] = "ip"
    BY <1>1, <1>3 DEF Arrive, Goto
  <2>. QED BY <1>1, <1>2, <2>1, TenStable, DayStable, IpStable
<1>4. CASE IpGet(c)
  <2>1. stage'[c] = "ipPut" /\ seen'[c].count = ip.count /\ seen'[c].age = ip.age
    BY <1>1, <1>4 DEF IpGet, Goto, Recall, Nothing
  <2>2. IpRule'
    BY <1>1, <1>2, <2>1 DEF IpRule
  <2>. QED BY <1>1, <1>2, <2>1, <2>2, TenStable, DayStable
<1>5. CASE TenGet(c)
  <2>1. stage'[c] = "tenPut" /\ seen'[c].count = ten.count
    BY <1>1, <1>5 DEF TenGet, Goto, Recall, Nothing
  <2>2. TenRule'
    BY <1>1, <1>2, <2>1 DEF TenRule, Covers
  <2>. QED BY <1>1, <1>2, <2>1, <2>2, DayStable, IpStable
<1>6. CASE DayGet(c)
  <2>1. stage'[c] = "dayPut" /\ seen'[c].count = day.count
    BY <1>1, <1>6 DEF DayGet, Goto, Recall, Nothing
  <2>2. DayRule'
    BY <1>1, <1>2, <2>1 DEF DayRule, Covers
  <2>. QED BY <1>1, <1>2, <2>1, <2>2, TenStable, IpStable
<1>. QED BY <1>3, <1>4, <1>5, <1>6

LEMMA PutInv ==
    ASSUME RateIInv, Alone, NEW c \in Calls,
           IpPut(c) \/ TenPut(c) \/ DayPut(c)
    PROVE  TenRule' /\ DayRule' /\ IpRule'
<1>1. LimitTypeOK /\ TenRule /\ DayRule /\ IpRule /\ stage \in [Calls -> Stages]
  BY LimitTypes DEF RateIInv
<1>2. \A d \in Calls : d = c
  BY DEF Alone
<1>3. \A d \in Calls : stage'[d] \notin {"ipPut", "tenPut", "dayPut"}
  <2>1. \E s \in {"idle", "ten", "day"} : stage' = [stage EXCEPT ![c] = s]
    BY DEF IpPut, TenPut, DayPut, Goto
  <2>. QED BY <1>1, <1>2, <2>1
<1>4. CASE IpPut(c)
  BY <1>1, <1>3, <1>4, IpPutInv, TenStable, DayStable DEF IpPut
<1>5. CASE TenPut(c)
  BY <1>1, <1>3, <1>5, TenPutInv, IpStable, DayStable DEF TenPut
<1>6. CASE DayPut(c)
  BY <1>1, <1>3, <1>6, DayPutInv, IpStable, TenStable DEF DayPut
<1>. QED BY <1>4, <1>5, <1>6

LEMMA NextRateIInv ==
    ASSUME Alone
    PROVE  RateIInv /\ [LimitNext]_limitVars => RateIInv'
<1> SUFFICES ASSUME RateIInv, [LimitNext]_limitVars PROVE RateIInv'
  OBVIOUS
<1>1. LimitTypeOK'
  BY LimitTypeInv DEF RateIInv
<1>2. CASE UNCHANGED limitVars
  BY <1>1, <1>2
  DEF limitVars, limiters, calls, history, RateIInv,
      TenRule, DayRule, IpRule
<1>3. CASE TickLimits
  BY <1>1, <1>3, TenTick, DayTick, IpTick DEF RateIInv
<1>4. ASSUME NEW c \in Calls, Arrive(c) \/ CallStep(c)
      PROVE  RateIInv'
  BY <1>1, <1>4, ReadInv, PutInv DEF RateIInv, CallStep
<1>. QED BY <1>2, <1>3, <1>4 DEF LimitNext

LEMMA RateHolds ==
    RateIInv => RateInv
<1> SUFFICES ASSUME RateIInv PROVE RateInv
  OBVIOUS
<1>1. /\ ip \in IpEntry /\ ten \in TenEntry /\ day \in DayEntry
      /\ passed \in Ages(IpWindow)
      /\ InLast(TenWindow, granted) \in Nat /\ InLast(DayWindow, admitted) \in Nat
  BY LimitTypes, Windows DEF RateIInv
<1>2. TenBound
  <2>1. ten.count \in 0 .. TenLimit /\ InLast(TenWindow, granted) <= ten.count
    BY <1>1 DEF RateIInv, TenEntry, TenRule, Covers
  <2>. QED BY <1>1, <2>1, LimitConstants DEF TenBound
<1>3. DayBound
  <2>1. day.count \in 0 .. DayLimit /\ InLast(DayWindow, admitted) <= day.count
    BY <1>1 DEF RateIInv, DayEntry, DayRule, Covers
  <2>. QED BY <1>1, <2>1, LimitConstants DEF DayBound
<1>4. IpBound
  <2>1. ip.count \in Nat /\ ip.age \in 0 .. Over
    BY <1>1, LimitConstants DEF IpEntry
  <2>. QED BY <1>1, <2>1, RuledBound DEF RateIInv, IpRule, IpBound
<1>. QED BY <1>2, <1>3, <1>4 DEF RateIInv, RateInv

\* The limiters hold what they promise, whatever the limits and windows, a
\* client that waits for each answer: none undoes another by counting what it
\* refused, by expiring at a time of its own or by living on with each write.
THEOREM RateTheorem ==
    ASSUME Alone
    PROVE  LimitSpec => []RateInv
BY InitRateIInv, NextRateIInv, RateHolds, PTL DEF LimitSpec

=============================================================================
