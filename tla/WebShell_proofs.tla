-------------------------- MODULE WebShell_proofs --------------------------
(***************************************************************************)
(* The shields of the web shell hold whatever the numbers of users,        *)
(* projects, routes, requests in flight and failures: IInv is inductive.   *)
(* A boot lets it hold whatever came before (BootOK), a rendering keeps    *)
(* what it says of the views (RenderOK), and the other steps change little *)
(* of what it speaks about.                                                *)
(***************************************************************************)
EXTENDS WebShell, TLAPS

LEMMA Constants == 
    /\ IsAdmin(NoUser) = FALSE
    /\ {"issues", "security_profile"} \subseteq Paths \ AdminPaths
    /\ AdminPaths \subseteq Paths /\ "storage" \in AdminPaths
    /\ {"blank", "failed"} \cap AdminPaths = {} /\ 1 \in Tasks
    /\ NoTask \in TaskRec /\ FreshStore \in StoreRec /\ Blank \in ShownRec
    /\ Empty \in Stats
PROOF BY ShellAssumption DEF IsAdmin, AdminPaths, Tasks, NoTask, TaskRec, FreshStore, StoreRec,
    Blank, ShownRec, Empty, Stats, Selections, Phases

\* A request that is sent is a well-formed row.
LEMMA TaskOK ==
    ASSUME NEW phase \in Phases, NEW then \in {"none", "boot", "storage", "form"}
    PROVE  /\ Task(phase, then) \in TaskRec
           /\ Task(phase, then).phase = phase /\ Task(phase, then).then = then
PROOF BY Constants DEF Task, NoTask, TaskRec

\* Init establishes the invariant.
LEMMA InitOK == Init => IInv
PROOF
<1> SUFFICES ASSUME Init PROVE IInv
    OBVIOUS
<1>1. Task("me", "boot") \in TaskRec /\ Task("me", "boot").phase = "me"
      /\ Task("me", "boot").then = "boot"
    BY TaskOK DEF Phases
<1>2. \A t \in Tasks : task[t] \in {NoTask, Task("me", "boot")}
                       /\ (page = "login" => task[t] = NoTask)
    BY DEF Init
<1>3. TypeOK
    BY <1>1, Constants, ShellAssumption DEF Init, TypeOK
<1>4. ShieldHolds /\ IdentityMatches /\ ~AdminBusy
    BY <1>1, <1>2, Constants DEF Init, ShieldHolds, IdentityMatches, AdminBusy, Blank, FreshStore,
       NoTask
<1>5. LoginIsFresh /\ AppIsSignedIn
    BY <1>1, <1>2 DEF Init, LoginIsFresh, AppIsSignedIn, NoTask
<1> QED
    BY <1>3, <1>4, <1>5 DEF IInv

\* What the page load leaves, whatever was there before.
LEMMA BootOK ==
    ASSUME IInv, Boot, clicks' \in Nat, faults' \in Nat,
           cookie' \in Users \cup {NoUser}, mustChange' \subseteq Users, version' \in Nat,
           loggedIn' \in BOOLEAN, mustFlag' \in BOOLEAN, saved' \subseteq SavedViews
    PROVE  IInv'
PROOF
<1>1. Task("me", "boot") \in TaskRec /\ Task("me", "boot").phase = "me"
      /\ Task("me", "boot").then = "boot"
    BY TaskOK DEF Phases
<1>2. \A t \in Tasks : task'[t] \in {NoTask, Task("me", "boot")}
                       /\ (page' = "login" => task'[t] = NoTask)
    BY DEF Boot
<1>3. TypeOK'
    BY <1>1, Constants, ShellAssumption DEF Boot, TypeOK
<1>4. ShieldHolds' /\ IdentityMatches' /\ ~AdminBusy'
    BY <1>1, <1>2, Constants DEF Boot, ShieldHolds, IdentityMatches, AdminBusy, Blank, FreshStore,
       NoTask
<1>5. LoginIsFresh' /\ AppIsSignedIn'
    BY <1>1, <1>2 DEF Boot, LoginIsFresh, AppIsSignedIn, NoTask
<1> QED
    BY <1>3, <1>4, <1>5 DEF IInv
-----------------------------------------------------------------------------
\* The shield of render turns a user it does not know, or who is no
\* administrator, away from the administrator's routes.
LEMMA RoutedOK ==
    ASSUME NEW s \in StoreRec
    PROVE  Routed(s) \in Paths /\ (Routed(s) \in AdminPaths => IsAdmin(s.user))
BY Constants DEF Routed, ChangeRequired, StoreRec

LEMMA DrawnOK ==
    ASSUME TypeOK, NEW s \in StoreRec, NEW p \in Paths
    PROVE  /\ Drawn(p, s) \in ShownRec
           /\ Drawn(p, s).view = IF p = "storage" THEN shown.view ELSE p
PROOF
<1>1. s.stats \in Stats /\ s.project \in Selections /\ s.stats.version \in Nat
    BY DEF StoreRec, Stats
<1>2. Listed(s) \in Stats
    BY <1>1, Constants DEF Listed, Stats
<1> QED
    BY <1>2, Constants DEF Drawn, ShownRec, TypeOK

\* What the invariant says of the views.
ViewsOK ==
    /\ store \in StoreRec /\ shown \in ShownRec
    /\ importing \subseteq Paths /\ loaded \subseteq Paths /\ broken \subseteq Paths
    /\ late \in Nat
    /\ (importing \cap AdminPaths # {} \/ late > 0 \/ shown.view \in AdminPaths)
          => IsAdmin(store.user)

\* A rendering keeps it, for a caller that does not change the user.
LEMMA RenderOK ==
    ASSUME IInv, NEW s \in StoreRec, s.user = store.user,
           NEW more \in Nat, more > 0 => IsAdmin(store.user), Render(s, more)
    PROVE  ViewsOK' /\ store'.user = store.user
PROOF
<1> DEFINE p == Routed(s)
           n == late + more + (IF p = "storage" /\ p \in loaded THEN 1 ELSE 0)
<1>1. p \in Paths /\ (p \in AdminPaths => IsAdmin(store.user))
    BY RoutedOK
<1>2. store' = [s EXCEPT !.path = p] /\ store' \in StoreRec /\ store'.user = store.user
    BY <1>1 DEF Render, StoreRec
<1>3. TypeOK
    BY DEF IInv
<1>4. late' = n /\ n \in Nat /\ (n > 0 => IsAdmin(store.user))
    BY <1>1, <1>3, Constants DEF Render, IInv, AdminBusy, TypeOK
<1>5. /\ Drawn(p, s) \in ShownRec
      /\ Drawn(p, s).view = IF p = "storage" THEN shown.view ELSE p
    BY <1>1, <1>3, DrawnOK
<1>6. shown' \in {Drawn(p, s), Failed, shown}
    BY DEF Render
<1>7. shown' \in ShownRec /\ (shown'.view \in AdminPaths => IsAdmin(store.user))
    BY <1>1, <1>3, <1>5, <1>6, Constants DEF IInv, ShieldHolds, TypeOK, Failed, ShownRec
<1>8. /\ importing' \subseteq Paths /\ loaded' \subseteq Paths /\ broken' \subseteq Paths
      /\ importing' \cap AdminPaths # {} => IsAdmin(store.user)
    BY <1>1, <1>3 DEF Render, IInv, AdminBusy, TypeOK
<1> QED
    BY <1>2, <1>4, <1>7, <1>8 DEF ViewsOK

\* On the login page nothing but logins is in flight.
LEMMA AppOnly ==
    ASSUME IInv
    PROVE  /\ importing # {} \/ late > 0 \/ auto => page = "app"
           /\ \A t \in Tasks : task[t].phase \notin {"idle", "login", "passkey"} => page = "app"
           /\ \A t \in Tasks : task[t].phase \in {"login", "passkey"} => page = "login"
           /\ ViewsOK
BY DEF IInv, TypeOK, LoginIsFresh, AppIsSignedIn, ViewsOK, AdminBusy, ShieldHolds

\* The rows after a step: well formed, no login, and no storage view to come
\* for anyone but an administrator.
TasksOK ==
    /\ task \in [Tasks -> TaskRec]
    /\ \A t \in Tasks : task[t].phase \notin {"login", "passkey"}
                        /\ (task[t].then = "storage" => IsAdmin(store.user))

LEMMA TasksNow == ASSUME IInv, page = "app" PROVE TasksOK
BY DEF IInv, TypeOK, AppIsSignedIn, AdminBusy, TasksOK

\* A step inside the application that keeps the user.
LEMMA AppStep ==
    ASSUME IInv, page = "app", page' = page, ViewsOK', TasksOK', store'.user = store.user,
           cookie' \in {cookie, NoUser}, mustChange' \subseteq Users, version' \in Nat,
           loggedIn' \in BOOLEAN, mustFlag' \in BOOLEAN, saved' \subseteq SavedViews,
           auto' \in BOOLEAN, modal' \in Paths \cup {"none", "form"},
           active' \in SavedViews \cup {NoView}, clicks' \in Nat, faults' \in Nat
    PROVE  IInv'
PROOF
<1>1. TypeOK'
    BY DEF IInv, TypeOK, ViewsOK, TasksOK
<1>2. ShieldHolds' /\ IdentityMatches' /\ (AdminBusy => IsAdmin(store.user))'
    BY DEF IInv, ShieldHolds, IdentityMatches, AdminBusy, ViewsOK, TasksOK
<1>3. LoginIsFresh' /\ AppIsSignedIn'
    BY DEF LoginIsFresh, AppIsSignedIn, TasksOK
<1> QED
    BY <1>1, <1>2, <1>3 DEF IInv

\* A row that is sent, and one that goes to another phase, keep the rows well formed.
LEMMA SendOK ==
    ASSUME IInv, page = "app", store'.user = store.user,
           NEW phase \in Phases \ {"login", "passkey"},
           NEW then \in {"none", "boot", "storage", "form"},
           then = "storage" => IsAdmin(store.user), Send(Task(phase, then))
    PROVE  TasksOK'
PROOF
<1>1. /\ Task(phase, then) \in TaskRec
      /\ Task(phase, then).phase = phase /\ Task(phase, then).then = then
    BY TaskOK
<1>2. TasksOK
    BY TasksNow
<1>3. PICK t \in Tasks : task' = [task EXCEPT ![t] = Task(phase, then)]
    BY DEF Send
<1> QED
    BY <1>1, <1>2, <1>3 DEF TasksOK

LEMMA RefreshPhaseOK == RefreshPhase \in Phases \ {"login", "passkey"}
BY DEF RefreshPhase, Phases

\* A 401 leaves a fresh login page.
LEMMA SignedOutOK ==
    ASSUME IInv, SignedOut, Quiet \/ Click \/ Fault,
           cookie' \in Users \cup {NoUser}, mustChange' \subseteq Users, version' \in Nat
    PROVE  IInv'
PROOF
<1>1. clicks' \in Nat /\ faults' \in Nat
    BY DEF Quiet, Click, Fault, IInv, TypeOK
<1>2. loggedIn' \in BOOLEAN /\ mustFlag' \in BOOLEAN /\ saved' \subseteq SavedViews /\ Boot
    BY DEF SignedOut, IInv, TypeOK
<1> QED
    BY <1>1, <1>2, BootOK
-----------------------------------------------------------------------------
\* Imports and late views.
LEMMA ImportLandsOK ==
    ASSUME IInv, NEW p \in Paths, ImportLands(p) PROVE IInv'
PROOF
<1>1. page = "app" /\ ViewsOK /\ TypeOK
    BY AppOnly DEF ImportLands, IInv
<1>2. p \in AdminPaths => IsAdmin(store.user)
    BY DEF ImportLands, IInv, AdminBusy
<1>3. Drawn(p, store) \in ShownRec
      /\ Drawn(p, store).view = IF p = "storage" THEN shown.view ELSE p
    BY <1>1, DrawnOK DEF TypeOK
<1>4. late' \in Nat /\ (late' > 0 => late > 0 \/ p = "storage")
    BY <1>1 DEF ImportLands, TypeOK
<1>5. ViewsOK'
    BY <1>1, <1>2, <1>3, <1>4, Constants DEF ImportLands, ViewsOK
<1>6. TasksOK'
    BY <1>1, TasksNow DEF ImportLands, TasksOK
<1> QED
    BY <1>1, <1>5, <1>6, AppStep
       DEF ImportLands, Quiet, TypeOK, server, local, misc

LEMMA ImportFailsOK ==
    ASSUME IInv, NEW p \in Paths, ImportFails(p) PROVE IInv'
PROOF
<1>1. page = "app" /\ ViewsOK /\ TypeOK
    BY AppOnly DEF ImportFails, IInv
<1>2. ViewsOK'
    BY <1>1, Constants DEF ImportFails, ViewsOK, ShownRec, Failed
<1>3. TasksOK'
    BY <1>1, TasksNow DEF ImportFails, TasksOK
<1> QED
    BY <1>1, <1>2, <1>3, AppStep DEF ImportFails, Fault, TypeOK, server, local, misc

LEMMA StorageLandsOK ==
    ASSUME IInv, StorageLands PROVE IInv'
PROOF
<1>1. page = "app" /\ ViewsOK /\ TypeOK
    BY AppOnly DEF StorageLands, IInv
<1>2. CASE cookie = NoUser
    BY <1>1, <1>2, SignedOutOK DEF StorageLands, server, TypeOK
<1>3. CASE cookie # NoUser
    <2>1. TasksOK'
        BY <1>1, <1>3, TasksNow DEF StorageLands, TasksOK
    <2>2. IsAdmin(store.user)
        BY DEF StorageLands, IInv, AdminBusy
    <2>3. late' \in Nat
        BY <1>1, <1>3 DEF StorageLands, TypeOK
    <2>4. shown' = [view |-> "storage", stats |-> Empty]
        BY <1>3 DEF StorageLands
    <2>5. ViewsOK'
        BY <1>1, <1>3, <2>2, <2>3, <2>4, Constants DEF StorageLands, ViewsOK, ShownRec
    <2> QED
        BY <1>1, <1>3, <2>1, <2>5, AppStep DEF StorageLands, Quiet, TypeOK, server, local, misc
<1> QED
    BY <1>2, <1>3
-----------------------------------------------------------------------------
\* The phases of a refresh.
LEMMA MeLandsOK ==
    ASSUME IInv, NEW t \in Tasks, MeLands(t) PROVE IInv'
PROOF
<1>1. page = "app" /\ ViewsOK /\ TypeOK /\ TasksOK
    BY AppOnly, TasksNow DEF MeLands, IInv
<1>2. task' = [task EXCEPT ![t].phase = "projects"]
    BY DEF MeLands
<1>3. CASE Fault /\ store' = store /\ mustFlag' = mustFlag
    <2>1. TasksOK'
        BY <1>1, <1>2, <1>3 DEF TasksOK, TaskRec, Phases
    <2>2. ViewsOK'
        BY <1>1, <1>3 DEF MeLands, ViewsOK, view
    <2> QED
        BY <1>1, <1>3, <2>1, <2>2, AppStep DEF MeLands, Fault, TypeOK, server, misc
<1>4. CASE cookie # NoUser /\ Quiet
           /\ store' = [store EXCEPT !.user = cookie, !.must = cookie \in mustChange]
           /\ mustFlag' = (cookie \in mustChange)
    <2>1. store' \in StoreRec /\ store'.user = cookie
        <3> DEFINE b == cookie \in mustChange
        <3>1. b \in BOOLEAN /\ store' = [store EXCEPT !.user = cookie, !.must = b]
            BY <1>4
        <3> HIDE DEF b
        <3> QED
            BY <1>1, <3>1 DEF ViewsOK, StoreRec, TypeOK
    <2>2. store.user # NoUser => store'.user = store.user
        BY <1>4, <2>1 DEF IInv, IdentityMatches
    <2>3. IsAdmin(store.user) => IsAdmin(store'.user)
        BY <2>2, Constants
    <2>4. TypeOK'
        BY <1>1, <1>2, <1>4, <2>1
           DEF MeLands, TypeOK, TaskRec, Phases, Quiet, server, view, misc
    <2>5. \A u \in Tasks : /\ task'[u].then = task[u].then
                           /\ task'[u].phase \in {task[u].phase, "projects"}
        BY <1>1, <1>2 DEF TasksOK, TaskRec
    <2>6. ShieldHolds' /\ IdentityMatches' /\ (AdminBusy => IsAdmin(store.user))'
        BY <2>1, <2>3, <2>5 DEF MeLands, IInv, ShieldHolds, IdentityMatches, AdminBusy, server, view
    <2>7. LoginIsFresh' /\ AppIsSignedIn'
        BY <1>1, <2>5 DEF MeLands, LoginIsFresh, AppIsSignedIn, TasksOK
    <2> QED
        BY <2>4, <2>6, <2>7 DEF IInv
<1> QED
    BY <1>3, <1>4 DEF MeLands

LEMMA ProjectsLandOK ==
    ASSUME IInv, NEW t \in Tasks, ProjectsLand(t) PROVE IInv'
PROOF
<1>1. page = "app" /\ ViewsOK /\ TypeOK /\ TasksOK
    BY AppOnly, TasksNow DEF ProjectsLand, IInv
<1>0. VisibleProjects(cookie) \subseteq Projects
    <2>1. cookie \in Users
        BY <1>1 DEF ProjectsLand, TypeOK
    <2> QED
        BY <2>1, ShellAssumption DEF VisibleProjects
<1>2. PICK list \in {VisibleProjects(cookie), {}}, sel \in Selections :
         /\ store' = [store EXCEPT !.project = sel]
         /\ task' = [task EXCEPT ![t].phase = "stats", ![t].project = sel, ![t].list = list]
    <2>1. PICK list \in {VisibleProjects(cookie), {}} :
            LET sel == IF store.user # NoUser /\ ~IsAdmin(store.user) /\ store.project \notin list
                       THEN IF list = {} THEN NoProject ELSE FirstOf(list)
                       ELSE store.project
            IN  /\ store' = [store EXCEPT !.project = sel]
                /\ task' = [task EXCEPT ![t].phase = "stats", ![t].project = sel, ![t].list = list]
        BY DEF ProjectsLand
    <2>2. (list # {} => FirstOf(list) \in list) /\ store.project \in Selections
        BY <1>1 DEF FirstOf, ViewsOK, StoreRec
    <2> QED
        BY <1>0, <2>1, <2>2 DEF Selections
<1>3. list \subseteq Projects
    BY <1>0
<1>4. store' \in StoreRec /\ store'.user = store.user
    BY <1>1, <1>2 DEF ViewsOK, StoreRec
<1>5. TasksOK'
    <2> DEFINE row == [task[t] EXCEPT !.phase = "stats", !.project = sel, !.list = list]
    <2>1. task' = [task EXCEPT ![t] = row]
        BY <1>2
    <2>2. row \in TaskRec /\ row.phase = "stats" /\ row.then = task[t].then
        BY <1>1, <1>3 DEF TasksOK, TaskRec, Phases
    <2> HIDE DEF row
    <2> QED
        BY <1>1, <1>4, <2>1, <2>2 DEF TasksOK
<1>6. ViewsOK'
    BY <1>1, <1>4 DEF ProjectsLand, ViewsOK, view
<1>7. clicks' \in Nat /\ faults' \in Nat
    <2>1. Quiet \/ Fault
        BY DEF ProjectsLand
    <2> QED
        BY <1>1, <2>1 DEF Quiet, Fault, TypeOK
<1> QED
    BY <1>1, <1>4, <1>5, <1>6, <1>7, AppStep DEF ProjectsLand, TypeOK, server, local, misc

LEMMA StatsServedOK ==
    ASSUME IInv, NEW t \in Tasks, StatsServed(t) PROVE IInv'
PROOF
<1>1. page = "app" /\ ViewsOK /\ TypeOK /\ TasksOK
    BY AppOnly, TasksNow DEF StatsServed, IInv
<1>2. /\ task[t] \in TaskRec
      /\ [project |-> task[t].project, version |-> version] \in Stats
      /\ Empty \in Stats
    BY <1>1, Constants DEF TasksOK, TaskRec, Stats, TypeOK
<1>3. TasksOK'
    <2>1. PICK st \in Stats : \/ task' = [task EXCEPT ![t].phase = "answered", ![t].stats = st]
                              \/ task' = [task EXCEPT ![t].phase = "answered"]
        BY <1>2 DEF StatsServed
    <2>2. store' = store
        BY DEF StatsServed
    <2> QED
        BY <1>1, <2>1, <2>2 DEF TasksOK, TaskRec, Phases
<1>4. ViewsOK'
    BY <1>1 DEF StatsServed, ViewsOK, view
<1> QED
    BY <1>1, <1>3, <1>4, AppStep DEF StatsServed, Quiet, Fault, TypeOK, server, local, misc

LEMMA RefreshLandsOK ==
    ASSUME IInv, NEW t \in Tasks, RefreshLands(t) PROVE IInv'
PROOF
<1>1. page = "app" /\ ViewsOK /\ TypeOK /\ TasksOK
    BY AppOnly, TasksNow DEF RefreshLands, IInv
<1> DEFINE s == [store EXCEPT !.stats = task[t].stats, !.projects = task[t].list]
           more == IF task[t].then = "storage" THEN 1 ELSE 0
<1>2. s \in StoreRec /\ s.user = store.user
    BY <1>1 DEF ViewsOK, TasksOK, StoreRec, TaskRec
<1>3. more \in Nat /\ (more > 0 => IsAdmin(store.user))
    BY <1>1 DEF TasksOK
<1>4. Render(s, more)
    BY DEF RefreshLands
<1>5. ViewsOK' /\ store'.user = store.user
    BY <1>2, <1>3, <1>4, RenderOK
<1>6. TasksOK'
    BY <1>1, <1>5, Constants DEF RefreshLands, TasksOK, NoTask
<1> QED
    BY <1>1, <1>5, <1>6, AppStep DEF RefreshLands, Quiet, TypeOK, server, local

LEMMA TickOK == ASSUME IInv, Tick PROVE IInv'
PROOF
<1>1. page = "app" /\ ViewsOK /\ TypeOK
    BY AppOnly DEF Tick, IInv
<1>2. TasksOK'
    BY <1>1, RefreshPhaseOK, SendOK DEF Tick
<1>3. ViewsOK'
    BY <1>1 DEF Tick, ViewsOK, view
<1> QED
    BY <1>1, <1>2, <1>3, AppStep DEF Tick, Quiet, TypeOK, server, local, misc
-----------------------------------------------------------------------------
\* What the user does: requests that are sent ...
LEMMA RefreshClickOK == ASSUME IInv, RefreshClick PROVE IInv'
PROOF
<1>1. page = "app" /\ ViewsOK /\ TypeOK
    BY AppOnly DEF RefreshClick, InApp, IInv
<1>2. TasksOK'
    BY <1>1, RefreshPhaseOK, SendOK DEF RefreshClick, Phases
<1>3. ViewsOK'
    BY <1>1 DEF RefreshClick, ViewsOK, view
<1> QED
    BY <1>1, <1>2, <1>3, AppStep
       DEF RefreshClick, InApp, Click, TypeOK, server, local, misc

LEMMA StorageActionOK == ASSUME IInv, StorageAction PROVE IInv'
PROOF
<1>1. page = "app" /\ ViewsOK /\ TypeOK
    BY AppOnly DEF StorageAction, InApp, IInv
<1>2. TasksOK'
    BY <1>1, Constants, SendOK DEF StorageAction, Phases, IInv, ShieldHolds
<1>3. ViewsOK'
    BY <1>1 DEF StorageAction, ViewsOK, view
<1> QED
    BY <1>1, <1>2, <1>3, AppStep
       DEF StorageAction, InApp, Click, TypeOK, server, local, misc

LEMMA SubmitFormOK == ASSUME IInv, SubmitForm PROVE IInv'
PROOF
<1>1. page = "app" /\ ViewsOK /\ TypeOK
    BY AppOnly DEF SubmitForm, InApp, IInv
<1>2. TasksOK'
    BY <1>1, SendOK DEF SubmitForm, Phases
<1>3. ViewsOK'
    BY <1>1 DEF SubmitForm, ViewsOK, view
<1> QED
    BY <1>1, <1>2, <1>3, AppStep
       DEF SubmitForm, InApp, Click, TypeOK, server, local, misc

LEMMA ChangePasswordOK == ASSUME IInv, ChangePassword PROVE IInv'
PROOF
<1>1. page = "app" /\ ViewsOK /\ TypeOK
    BY AppOnly DEF ChangePassword, InApp, IInv
<1>2. TasksOK'
    BY <1>1, SendOK DEF ChangePassword, Phases
<1>3. ViewsOK'
    BY <1>1 DEF ChangePassword, ViewsOK, view
<1> QED
    BY <1>1, <1>2, <1>3, AppStep
       DEF ChangePassword, InApp, Click, TypeOK, server, local, misc

LEMMA LogoutOK == ASSUME IInv, Logout PROVE IInv'
PROOF
<1>1. page = "app" /\ ViewsOK /\ TypeOK
    BY AppOnly DEF Logout, InApp, IInv
<1>2. TasksOK'
    BY <1>1, SendOK DEF Logout, Phases
<1>3. ViewsOK'
    BY <1>1 DEF Logout, ViewsOK, view
<1> QED
    BY <1>1, <1>2, <1>3, AppStep
       DEF Logout, InApp, Click, TypeOK, server, local, misc

LEMMA SwitchProjectOK ==
    ASSUME IInv, NEW p \in Projects \cup {All}, SwitchProject(p) PROVE IInv'
PROOF
<1>1. page = "app" /\ ViewsOK /\ TypeOK
    BY AppOnly DEF SwitchProject, InApp, IInv
<1>2. store' \in StoreRec /\ store'.user = store.user
    BY <1>1 DEF SwitchProject, ViewsOK, StoreRec, Selections
<1>3. TasksOK'
    BY <1>1, <1>2, RefreshPhaseOK, SendOK DEF SwitchProject
<1>4. ViewsOK'
    BY <1>1, <1>2 DEF SwitchProject, ViewsOK, view
<1> QED
    BY <1>1, <1>2, <1>3, <1>4, AppStep
       DEF SwitchProject, InApp, Click, TypeOK, server, local, misc

\* ... views that are drawn ...
LEMMA NavigateOK == ASSUME IInv, NEW p \in Paths, Navigate(p) PROVE IInv'
PROOF
<1>1. page = "app" /\ ViewsOK /\ TypeOK /\ TasksOK
    BY AppOnly, TasksNow DEF Navigate, InApp, IInv
<1> DEFINE s == [store EXCEPT !.path = p]
<1>2. s \in StoreRec /\ s.user = store.user
    BY <1>1 DEF ViewsOK, StoreRec
<1>3. ViewsOK' /\ store'.user = store.user
    <2>1. Render(s, 0) /\ 0 \in Nat /\ ~(0 > 0)
        BY DEF Navigate
    <2> QED
        BY <1>2, <2>1, RenderOK
<1>4. TasksOK'
    BY <1>1, <1>3 DEF Navigate, TasksOK
<1>5. active' \in SavedViews \cup {NoView}
    BY <1>1 DEF Navigate, Opens, TypeOK
<1> QED
    BY <1>1, <1>3, <1>4, <1>5, AppStep DEF Navigate, InApp, Click, TypeOK, server, local

LEMMA LoadSavedViewOK == ASSUME IInv, NEW v \in saved, LoadSavedView(v) PROVE IInv'
PROOF
<1>1. page = "app" /\ ViewsOK /\ TypeOK
    BY AppOnly DEF LoadSavedView, InApp, IInv
<1> DEFINE s == [store EXCEPT !.path = v.path, !.project = v.project]
<1>2. v \in SavedViews /\ s \in StoreRec /\ s.user = store.user
    BY <1>1 DEF ViewsOK, StoreRec, TypeOK, SavedViews
<1>3. ViewsOK' /\ store'.user = store.user
    <2>1. Render(s, 0) /\ 0 \in Nat /\ ~(0 > 0)
        BY DEF LoadSavedView
    <2> QED
        BY <1>2, <2>1, RenderOK
<1>4. TasksOK'
    BY <1>1, <1>3, RefreshPhaseOK, SendOK DEF LoadSavedView
<1> QED
    BY <1>1, <1>2, <1>3, <1>4, AppStep DEF LoadSavedView, InApp, Click, TypeOK, server, local

\* ... and forms and bookmarks.
LEMMA FormsOK ==
    ASSUME IInv, OpenForm \/ CloseModal \/ SaveView \/ \E v \in saved : DeleteSavedView(v)
    PROVE  IInv'
PROOF
<1>1. page = "app" /\ ViewsOK /\ TypeOK /\ TasksOK
    BY AppOnly, TasksNow DEF OpenForm, CloseModal, SaveView, DeleteSavedView, InApp, IInv
<1>2. UNCHANGED <<store, view, task, server, loggedIn, mustFlag, page, auto>> /\ Click
    BY DEF OpenForm, CloseModal, SaveView, DeleteSavedView, InApp, local
<1>3. ViewsOK' /\ TasksOK'
    BY <1>1, <1>2 DEF ViewsOK, TasksOK, view
<1>4. saved' \subseteq SavedViews
    BY <1>1 DEF OpenForm, CloseModal, SaveView, DeleteSavedView, TypeOK, local, SavedViews,
       ViewsOK, StoreRec
<1>5. modal' \in Paths \cup {"none", "form"} /\ active' \in SavedViews \cup {NoView}
    BY <1>1 DEF OpenForm, CloseModal, SaveView, DeleteSavedView, TypeOK, ViewsOK, StoreRec
<1> QED
    BY <1>1, <1>2, <1>3, <1>4, <1>5, AppStep DEF Click, TypeOK, server
-----------------------------------------------------------------------------
\* Answers to what the user did.
LEMMA ActionLandsOK == ASSUME IInv, NEW t \in Tasks, ActionLands(t) PROVE IInv'
PROOF
<1>1. page = "app" /\ ViewsOK /\ TypeOK /\ TasksOK
    BY AppOnly, TasksNow DEF ActionLands, IInv
<1>2. PICK phase \in Phases \ {"login", "passkey"} :
          task' \in {[task EXCEPT ![t].phase = phase], [task EXCEPT ![t] = NoTask]}
    BY RefreshPhaseOK DEF ActionLands
<1>3. TasksOK'
    <2>1. store' = store /\ NoTask.phase = "idle" /\ NoTask.then = "none"
        BY DEF ActionLands, NoTask
    <2> QED
        BY <1>1, <1>2, <2>1, Constants DEF TasksOK, TaskRec
<1>4. ViewsOK'
    BY <1>1 DEF ActionLands, ViewsOK, view
<1>5. version' \in Nat /\ clicks' \in Nat /\ faults' \in Nat
      /\ modal' \in Paths \cup {"none", "form"}
    BY <1>1 DEF ActionLands, Quiet, Fault, TypeOK
<1> QED
    BY <1>1, <1>3, <1>4, <1>5, AppStep DEF ActionLands, TypeOK, local

LEMMA UnauthorizedOK == ASSUME IInv, NEW t \in Tasks, Unauthorized(t) PROVE IInv'
BY SignedOutOK DEF Unauthorized, IInv, TypeOK, server

LEMMA PasswordLandsOK == ASSUME IInv, NEW t \in Tasks, PasswordLands(t) PROVE IInv'
PROOF
<1>1. page = "app" /\ ViewsOK /\ TypeOK /\ TasksOK
    BY AppOnly, TasksNow DEF PasswordLands, IInv
<1>2. CASE Fault /\ SignedOut /\ UNCHANGED mustChange
    BY <1>1, <1>2, SignedOutOK DEF PasswordLands, TypeOK
<1>3. CASE Boot /\ Quiet /\ mustChange' = mustChange \ {cookie} /\ mustFlag' = FALSE
           /\ UNCHANGED <<loggedIn, saved>>
    BY <1>1, <1>3, BootOK DEF PasswordLands, Quiet, TypeOK
<1>4. CASE Fault /\ task' = [task EXCEPT ![t] = NoTask]
           /\ UNCHANGED <<mustChange, local, page, store, view, misc>>
    <2>1. TasksOK'
        BY <1>1, <1>4, Constants DEF TasksOK, NoTask
    <2>2. ViewsOK'
        BY <1>1, <1>4 DEF ViewsOK, view
    <2> QED
        BY <1>1, <1>4, <2>1, <2>2, AppStep DEF PasswordLands, Fault, TypeOK, local, misc
<1> QED
    BY <1>2, <1>3, <1>4 DEF PasswordLands

LEMMA LogoutLandsOK == ASSUME IInv, NEW t \in Tasks, LogoutLands(t) PROVE IInv'
BY SignedOutOK DEF LogoutLands, IInv, TypeOK

LEMMA LoginsLandOK ==
    ASSUME IInv, NEW t \in Tasks, LoginLands(t) \/ PasskeyLands(t) PROVE IInv'
PROOF
<1>1. page = "login" /\ TypeOK /\ task[t].user \in Users \cup {NoUser}
    BY AppOnly DEF LoginLands, PasskeyLands, IInv, TypeOK, TaskRec
<1>2. CASE Boot /\ Quiet /\ cookie' = task[t].user /\ loggedIn' = TRUE
           /\ mustFlag' \in BOOLEAN /\ UNCHANGED <<saved, mustChange, version>>
    BY <1>1, <1>2, BootOK DEF Quiet, TypeOK
<1>3. CASE Fault /\ SignedOut /\ UNCHANGED <<cookie, mustChange, version>>
    BY <1>1, <1>3, SignedOutOK DEF TypeOK
<1>4. CASE Fault /\ task' = [task EXCEPT ![t] = NoTask]
           /\ UNCHANGED <<cookie, mustChange, version, local, page, store, view, misc>>
    <2>1. /\ UNCHANGED <<loggedIn, mustFlag, saved, shown, importing, loaded, broken, late, auto, modal,
                        active>>
          /\ NoTask.phase = "idle" /\ NoTask.then = "none"
        BY <1>4 DEF local, view, misc, NoTask
    <2>2. \A u \in Tasks : task'[u] \in {task[u], NoTask}
        BY <1>1, <1>4 DEF TypeOK
    <2>3. TypeOK'
        BY <1>1, <1>4, <2>1, Constants DEF Fault, TypeOK
    <2>4. ShieldHolds' /\ IdentityMatches' /\ (AdminBusy => IsAdmin(store.user))'
        BY <1>4, <2>1, <2>2 DEF IInv, ShieldHolds, IdentityMatches, AdminBusy
    <2>5. LoginIsFresh' /\ AppIsSignedIn'
        BY <1>1, <1>4, <2>1, <2>2 DEF IInv, LoginIsFresh, AppIsSignedIn
    <2> QED
        BY <2>3, <2>4, <2>5 DEF IInv
<1>5. (task[t].user \in mustChange) \in BOOLEAN /\ (UNCHANGED mustFlag => mustFlag' \in BOOLEAN)
    BY <1>1 DEF TypeOK
<1> QED
    BY <1>2, <1>3, <1>4, <1>5 DEF LoginLands, PasskeyLands

LEMMA LoginOK == ASSUME IInv, NEW u \in Users, Login(u) PROVE IInv'
PROOF
<1>1. PICK how \in {"login", "passkey"} : Send([Task(how, "none") EXCEPT !.user = u])
    BY DEF Login
<1> DEFINE row == [Task(how, "none") EXCEPT !.user = u]
<1>2. row \in TaskRec /\ row.phase = how /\ row.then = "none"
    BY TaskOK DEF TaskRec, Phases
<1> HIDE DEF row
<1>3. PICK t \in Tasks : task' = [task EXCEPT ![t] = row]
    BY <1>1 DEF Send, row
<1>4. TypeOK /\ page = "login" /\ Click
      /\ UNCHANGED <<cookie, mustChange, version, loggedIn, mustFlag, saved, page, store, shown,
                     importing, loaded, broken, late, auto, modal, active>>
    BY DEF Login, IInv, server, local, view, misc
<1>5. \A i \in Tasks : task'[i] \in {task[i], row}
    BY <1>3, <1>4 DEF TypeOK
<1>6. TypeOK'
    BY <1>2, <1>3, <1>4 DEF TypeOK, Click
<1>7. ShieldHolds' /\ IdentityMatches' /\ (AdminBusy => IsAdmin(store.user))'
    BY <1>2, <1>4, <1>5 DEF IInv, ShieldHolds, IdentityMatches, AdminBusy
<1>8. LoginIsFresh' /\ AppIsSignedIn'
    BY <1>2, <1>4, <1>5 DEF IInv, LoginIsFresh, AppIsSignedIn
<1> QED
    BY <1>6, <1>7, <1>8 DEF IInv

LEMMA StillOK ==
    ASSUME IInv, UNCHANGED <<mustChange, version, local, page, store, view, misc, task>>,
           cookie' \in {cookie, NoUser}, clicks' \in Nat, faults' \in Nat
    PROVE  IInv'
PROOF
<1>1. TypeOK'
    BY DEF IInv, TypeOK, local, view, misc
<1> QED
    BY <1>1 DEF IInv, ShieldHolds, IdentityMatches, AdminBusy, LoginIsFresh, AppIsSignedIn,
       view, misc

\* The invariant is inductive.
LEMMA StepOK == IInv /\ [Next]_vars => IInv'
PROOF
<1> SUFFICES ASSUME IInv, [Next]_vars PROVE IInv'
    OBVIOUS
<1>1. ASSUME NEW t \in Tasks, Answer(t) PROVE IInv'
    BY <1>1, MeLandsOK, ProjectsLandOK, StatsServedOK, RefreshLandsOK, UnauthorizedOK,
       ActionLandsOK, LoginsLandOK, PasswordLandsOK, LogoutLandsOK DEF Answer
<1>2. ASSUME NEW p \in Paths, ImportLands(p) \/ ImportFails(p) \/ Navigate(p) PROVE IInv'
    BY <1>2, ImportLandsOK, ImportFailsOK, NavigateOK
<1>3. CASE StorageLands \/ Tick
    BY <1>3, StorageLandsOK, TickOK
<1>4. CASE Expire
    BY <1>4, StillOK DEF Expire, Fault, IInv, TypeOK
<1>5. ASSUME NEW p \in Projects \cup {All}, SwitchProject(p) PROVE IInv'
    BY <1>5, SwitchProjectOK
<1>6. ASSUME NEW v \in saved, LoadSavedView(v) \/ DeleteSavedView(v) PROVE IInv'
    BY <1>6, LoadSavedViewOK, FormsOK
<1>7. CASE RefreshClick \/ OpenForm \/ CloseModal \/ SaveView \/ StorageAction \/ SubmitForm
           \/ ChangePassword \/ Logout
    BY <1>7, RefreshClickOK, FormsOK, StorageActionOK, SubmitFormOK, ChangePasswordOK, LogoutOK
<1>8. ASSUME NEW u \in Users, Login(u) PROVE IInv'
    BY <1>8, LoginOK
<1>9. CASE UNCHANGED vars
    BY <1>9, StillOK DEF vars, server, IInv, TypeOK
<1> QED
    BY <1>1, <1>2, <1>3, <1>4, <1>5, <1>6, <1>7, <1>8, <1>9 DEF Next

\* Whatever is in flight, the shell stays well formed and what it rests on holds.
THEOREM ShellInvariant == Spec => []IInv
PROOF
<1>1. Init => IInv
    BY InitOK
<1>2. IInv /\ [Next]_vars => IInv'
    BY StepOK
<1> QED
    BY <1>1, <1>2, PTL DEF Spec

\* render, the imports it awaits and the late storage view never show an
\* administrator's view to anyone else.
THEOREM ShieldTheorem == Spec => []ShieldHolds
PROOF
<1>1. IInv => ShieldHolds
    BY DEF IInv
<1> QED
    BY <1>1, ShellInvariant, PTL

\* The profile the page keeps is the one of the session it talks in.
THEOREM IdentityTheorem == Spec => []IdentityMatches
PROOF
<1>1. IInv => IdentityMatches
    BY DEF IInv
<1> QED
    BY <1>1, ShellInvariant, PTL
=============================================================================
