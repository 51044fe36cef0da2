------------------------------ MODULE WebShell ------------------------------
(***************************************************************************)
(* The shell of the web interface in one browser tab: sign-in, the store,  *)
(* navigation with its two shields (forced password change, administrator  *)
(* views), the lazily imported views, refreshData and the 15 s automatic   *)
(* refresh, actions that end in a refresh, saved views, sign-out.          *)
(*                                                                         *)
(* Handlers run to their next await without interruption.  What is in      *)
(* flight is a row of task, a pending import or a pending storage view;    *)
(* answers arrive in any order, may fail, and are 401 once the session has *)
(* ended.  A reload of the page drops everything that is in flight.  It is *)
(* one step here: the browser lets the current handler finish first, which *)
(* can only send requests that the reload aborts.                          *)
(***************************************************************************)
EXTENDS Naturals, FiniteSets

CONSTANTS
    Users, Admins,
    MustChange0,        \* accounts still on their default password
    Projects,
    Allowed,            \* the projects each plain user may see
    Paths,              \* the routes of this instance
    MaxTasks,           \* bound: chains of requests in flight
    MaxLate,            \* bound: storage views being fetched
    MaxSaved,           \* bound: saved views
    MaxClicks,          \* bound: what the user does
    MaxFaults,          \* bound: requests that fail, sessions that end
    NoUser, All, NoProject, NoView

Tasks == 1..MaxTasks
AdminPaths == {"users", "settings", "storage", "audit", "performance", "api_keys"} \cap Paths
AutoPaths == {"issues", "analytics", "uptime", "performance"} \cap Paths

ASSUME ShellAssumption ==
    /\ Admins \subseteq Users /\ MustChange0 \subseteq Users /\ NoUser \notin Users
    /\ Allowed \in [Users -> SUBSET Projects]
    /\ All \notin Projects /\ NoProject \notin Projects /\ All # NoProject
    /\ {"issues", "security_profile", "storage"} \subseteq Paths
    /\ Paths \cap {"none", "form", "blank", "failed"} = {}
    /\ MaxTasks \in Nat \ {0} /\ MaxLate \in Nat /\ MaxSaved \in Nat /\ MaxClicks \in Nat /\ MaxFaults \in Nat

VARIABLES
    cookie,     \* server: whose live session the browser's cookie names
    mustChange, \* server: accounts that have to change their password
    version,    \* server: version of the data every view shows
    loggedIn, mustFlag, saved,  \* localStorage: logged_in, password_change_required, saved views
    page,       \* "login" or "app"
    store,      \* store.js: currentUser, currentPath, currentProjectId, projects, stats
    shown,      \* what #view-content displays
    importing, loaded,          \* views being imported, views imported
    broken,     \* views whose failed import the browser does not try again
    late,       \* calls of renderStorage that wait for their data
    auto,       \* window.autoRefreshInterval is set
    modal,      \* "none", "form", or the path a bookmark form was opened on
    active,     \* window.activeSavedViewId
    task,       \* requests in flight
    clicks, faults

server == <<cookie, mustChange, version>>
local == <<loggedIn, mustFlag, saved>>
view == <<shown, importing, loaded, broken, late>>
misc == <<auto, modal, active>>
vars == <<server, local, page, store, view, misc, task, clicks, faults>>

Selections == Projects \cup {All, NoProject}
Empty == [project |-> NoProject, version |-> 0]
Stats == [project: Selections, version: Nat]
SavedViews == [path: Paths, project: Selections]

NoTask == [phase |-> "idle", then |-> "none", user |-> NoUser, project |-> NoProject,
           list |-> {}, stats |-> Empty]
Task(phase, then) == [NoTask EXCEPT !.phase = phase, !.then = then]

IsAdmin(u) == u \in Admins
VisibleProjects(u) == IF IsAdmin(u) THEN Projects ELSE Allowed[u]
FirstOf(list) == CHOOSE p \in list : TRUE

FreshStore == [user |-> NoUser, must |-> FALSE, path |-> "issues", project |-> All,
               projects |-> {}, stats |-> Empty]
Blank == [view |-> "blank", stats |-> Empty]
Failed == [view |-> "failed", stats |-> Empty]
----------------------------------------------------------------------------
\* Mutant: a new sign-in goes on with the store of the one before.
BootKeepsStore ==
    /\ store' = store /\ shown' = Blank
    /\ importing' = {} /\ loaded' = {} /\ broken' = {} /\ late' = 0
    /\ auto' = FALSE /\ modal' = "none" /\ active' = NoView
    /\ page' = IF loggedIn' THEN "app" ELSE "login"
    /\ task' = [t \in Tasks |-> IF loggedIn' /\ t = 1 THEN Task("me", "boot") ELSE NoTask]

\* init: the page loads, and what it does depends on the logged_in mark alone.
Boot ==
    /\ store' = FreshStore /\ shown' = Blank
    /\ importing' = {} /\ loaded' = {} /\ broken' = {} /\ late' = 0
    /\ auto' = FALSE /\ modal' = "none" /\ active' = NoView
    /\ page' = IF loggedIn' THEN "app" ELSE "login"
    /\ task' = [t \in Tasks |-> IF loggedIn' /\ t = 1 THEN Task("me", "boot") ELSE NoTask]

Init ==
    /\ cookie \in Users \cup {NoUser}
    /\ mustChange = MustChange0 /\ version = 0
    /\ loggedIn = (cookie # NoUser) /\ mustFlag = FALSE /\ saved = {}
    /\ page = (IF loggedIn THEN "app" ELSE "login")
    /\ store = FreshStore /\ shown = Blank
    /\ importing = {} /\ loaded = {} /\ broken = {} /\ late = 0
    /\ auto = FALSE /\ modal = "none" /\ active = NoView
    /\ task = [t \in Tasks |-> IF loggedIn /\ t = 1 THEN Task("me", "boot") ELSE NoTask]
    /\ clicks = 0 /\ faults = 0

Click == clicks < MaxClicks /\ clicks' = clicks + 1 /\ UNCHANGED faults
Fault == faults < MaxFaults /\ faults' = faults + 1 /\ UNCHANGED clicks
Quiet == UNCHANGED <<clicks, faults>>

\* Mutant: the login form is put over the page, which is not reloaded.
SignedOutStays ==
    /\ loggedIn' = FALSE /\ page' = "login"
    /\ UNCHANGED <<mustFlag, saved, store, view, misc, task>>

\* A 401 anywhere but at the password login: api forgets the mark and reloads.
SignedOut == loggedIn' = FALSE /\ UNCHANGED <<mustFlag, saved>> /\ Boot

\* The first free row takes a new request.
Send(rec) == \E t \in Tasks :
    /\ task[t] = NoTask /\ \A u \in 1..(t - 1) : task[u] # NoTask
    /\ task' = [task EXCEPT ![t] = rec]
\* refreshData asks who is signed in only while the store does not know.
RefreshPhase == IF store.user = NoUser THEN "me" ELSE "projects"
----------------------------------------------------------------------------
(* Rendering *)

ChangeRequired(s) == mustFlag \/ (s.user # NoUser /\ s.must)

\* Mutant: while nobody is known yet, nobody is turned away.
RoutedUnknown(s) ==
    IF ChangeRequired(s) THEN "security_profile"
    ELSE IF s.path \in AdminPaths /\ s.user # NoUser /\ ~IsAdmin(s.user) THEN "issues"
    ELSE s.path

\* The two shields at the head of render.
Routed(s) ==
    IF ChangeRequired(s) THEN "security_profile"
    ELSE IF s.path \in AdminPaths /\ (s.user = NoUser \/ ~IsAdmin(s.user)) THEN "issues"
    ELSE s.path

\* The issues of the selected project among those that were loaded.
Listed(s) ==
    IF s.project = NoProject THEN Empty
    ELSE IF s.stats.project \in {All, s.project}
         THEN [project |-> s.project, version |-> s.stats.version]
    ELSE IF s.project = All THEN s.stats ELSE Empty

\* A view module draws from the store as it is now; the storage view writes
\* nothing before its data is there.
Drawn(p, s) == IF p = "storage" THEN shown
               ELSE [view |-> p, stats |-> IF p \in AutoPaths THEN Listed(s) ELSE Empty]

\* render: the view starts at once when its module is loaded, and fails at once
\* when the browser keeps the failure of its import; more is the number of storage views the caller starts besides.
Render(s, more) ==
    LET p == Routed(s)
        n == late + more + (IF p = "storage" /\ p \in loaded THEN 1 ELSE 0)
    IN  /\ n <= MaxLate /\ late' = n
        /\ store' = [s EXCEPT !.path = p]
        /\ shown' = IF p \in loaded THEN Drawn(p, s)
                    ELSE IF p \in broken THEN Failed ELSE shown
        /\ importing' = importing \cup ({p} \ (loaded \cup broken))
        /\ UNCHANGED <<loaded, broken>>

\* The import that render awaited: the view starts whatever the route is now.
ImportLands(p) ==
    /\ p \in importing /\ importing' = importing \ {p} /\ loaded' = loaded \cup {p}
    /\ shown' = Drawn(p, store)
    /\ late' = late + (IF p = "storage" THEN 1 ELSE 0) /\ late' <= MaxLate
    /\ Quiet /\ UNCHANGED <<server, local, page, store, broken, misc, task>>

\* RENDER_FAILED; the next render of the view imports it again, or is told of
\* the same failure until the page is reloaded: browsers do either.
ImportFails(p) ==
    /\ p \in importing /\ importing' = importing \ {p}
    /\ shown' = Failed
    /\ broken' \in {broken, broken \cup {p}}
    /\ Fault /\ UNCHANGED <<server, local, page, store, loaded, late, misc, task>>

\* renderStorage has its answers and overwrites the container.
StorageLands ==
    /\ late > 0
    /\ IF cookie = NoUser
       THEN SignedOut /\ Quiet /\ UNCHANGED server
       ELSE /\ late' = late - 1 /\ shown' = [view |-> "storage", stats |-> Empty]
            /\ Quiet
            /\ UNCHANGED <<server, local, page, store, importing, loaded, broken, misc, task>>
----------------------------------------------------------------------------
(* refreshData *)

\* 1. /api/system/me: the profile, kept for the life of the page.
MeLands(t) ==
    /\ task[t].phase = "me"
    /\ task' = [task EXCEPT ![t].phase = "projects"]
    /\ \/ /\ cookie # NoUser /\ Quiet
          /\ store' = [store EXCEPT !.user = cookie, !.must = cookie \in mustChange]
          /\ mustFlag' = (cookie \in mustChange)
       \/ Fault /\ UNCHANGED <<store, mustFlag>>
    /\ UNCHANGED <<server, loggedIn, saved, page, view, misc>>

\* 2., 3. the projects, and the selection a plain user is allowed.
ProjectsLand(t) ==
    /\ task[t].phase = "projects" /\ cookie # NoUser
    /\ \E list \in {VisibleProjects(cookie), {}} :
        LET sel == IF store.user # NoUser /\ ~IsAdmin(store.user) /\ store.project \notin list
                   THEN IF list = {} THEN NoProject ELSE FirstOf(list)
                   ELSE store.project
        IN  /\ IF cookie \in mustChange THEN list = {} /\ Quiet
               ELSE IF list = VisibleProjects(cookie) THEN Quiet ELSE Fault
            /\ store' = [store EXCEPT !.project = sel]
            /\ task' = [task EXCEPT ![t].phase = "stats", ![t].project = sel, ![t].list = list]
    /\ UNCHANGED <<server, local, page, view, misc>>

\* Without a project a plain user asks for nothing.
AsksStats(t) == task[t].project # NoProject \/ IsAdmin(store.user)

\* 4. the server answers the remaining requests from the data it has now.
StatsServed(t) ==
    /\ task[t].phase = "stats" /\ (cookie # NoUser \/ ~AsksStats(t))
    /\ \/ /\ Quiet
          /\ task' = [task EXCEPT ![t].phase = "answered", ![t].stats =
                 IF task[t].project = NoProject \/ cookie \in mustChange THEN Empty
                 ELSE [project |-> task[t].project, version |-> version]]
       \/ Fault /\ task' = [task EXCEPT ![t].phase = "answered"]
    /\ UNCHANGED <<server, local, page, store, view, misc>>

\* Mutant: updateStore tells nobody.
RefreshLandsSilent(t) ==
    /\ task[t].phase = "answered"
    /\ store' = [store EXCEPT !.stats = task[t].stats, !.projects = task[t].list]
    /\ auto' = (auto \/ task[t].then = "boot")
    /\ task' = [task EXCEPT ![t] = NoTask]
    /\ Quiet /\ UNCHANGED <<server, local, page, view, modal, active>>

\* updateStore and its 'store-updated': the view is drawn again; then the
\* caller of refreshData goes on.
RefreshLands(t) ==
    /\ task[t].phase = "answered"
    /\ Render([store EXCEPT !.stats = task[t].stats, !.projects = task[t].list],
              IF task[t].then = "storage" THEN 1 ELSE 0)
    /\ auto' = (auto \/ task[t].then = "boot")
    /\ task' = [task EXCEPT ![t] = NoTask]
    /\ Quiet /\ UNCHANGED <<server, local, page, modal, active>>

\* Any request but a login, after the session has ended.
Unauthorized(t) ==
    /\ task[t].phase \in {"me", "projects", "stats", "act", "password", "logout"}
    /\ task[t].phase = "stats" => AsksStats(t)
    /\ cookie = NoUser
    /\ SignedOut /\ Quiet /\ UNCHANGED server

\* The interval of init; it does not wait for its previous round.
Tick ==
    /\ auto /\ loggedIn /\ modal = "none" /\ store.path \in AutoPaths
    /\ Send(Task(RefreshPhase, "none"))
    /\ Quiet /\ UNCHANGED <<server, local, page, store, view, misc>>
----------------------------------------------------------------------------
(* Navigation and saved views *)

InApp == page = "app" /\ Click

Opens(v, p) == active' = IF v # NoView /\ v \in saved /\ v.path # p THEN NoView ELSE v

Navigate(p) ==
    /\ InApp /\ modal = "none"
    /\ Render([store EXCEPT !.path = p], 0) /\ Opens(active, p)
    /\ UNCHANGED <<server, local, page, auto, modal, task>>

\* The dropdown offers store.projects, and 'all' to administrators.
SwitchProject(p) ==
    /\ InApp /\ modal = "none"
    /\ p \in store.projects \/ (p = All /\ store.user # NoUser /\ IsAdmin(store.user))
    /\ store' = [store EXCEPT !.project = p]
    /\ Send(Task(RefreshPhase, "none"))
    /\ UNCHANGED <<server, local, page, view, misc>>

\* The header's refresh button.
RefreshClick ==
    /\ InApp /\ modal = "none" /\ Send(Task(RefreshPhase, "none"))
    /\ UNCHANGED <<server, local, page, store, view, misc>>

OpenForm ==
    /\ InApp /\ auto /\ modal = "none"
    /\ modal' \in {"form"} \cup (IF store.path = "security_profile" THEN {} ELSE {store.path})
    /\ UNCHANGED <<server, local, page, store, view, auto, active, task>>

CloseModal ==
    /\ InApp /\ modal # "none" /\ modal' = "none"
    /\ UNCHANGED <<server, local, page, store, view, auto, active, task>>

\* The bookmark has the path its form was opened on and the project of now.
SaveView ==
    /\ InApp /\ modal \in Paths /\ Cardinality(saved) < MaxSaved
    /\ saved' = saved \cup {[path |-> modal, project |-> store.project]}
    /\ modal' = "none"
    /\ UNCHANGED <<server, loggedIn, mustFlag, page, store, view, auto, active, task>>

\* loadSavedView switches the project, which starts a refresh, and navigates.
LoadSavedView(v) ==
    /\ InApp /\ auto /\ modal = "none" /\ v \in saved
    /\ Send(Task(RefreshPhase, "none"))
    /\ Render([store EXCEPT !.path = v.path, !.project = v.project], 0)
    /\ active' = v
    /\ UNCHANGED <<server, local, page, auto, modal>>

DeleteSavedView(v) ==
    /\ InApp /\ auto /\ modal = "none" /\ v \in saved
    /\ saved' = saved \ {v} /\ active' = IF active = v THEN NoView ELSE active
    /\ UNCHANGED <<server, loggedIn, mustFlag, page, store, view, auto, modal, task>>
----------------------------------------------------------------------------
(* Actions that change the server's data and refresh *)

\* storage.js: refresh and draw the storage view again, wherever the user is.
StorageAction ==
    /\ InApp /\ modal = "none" /\ shown.view = "storage"
    /\ Send(Task("act", "storage"))
    /\ UNCHANGED <<server, local, page, store, view, misc>>

\* The form of an open modal (invite a user, create or edit a project, ...).
SubmitForm ==
    /\ InApp /\ modal = "form" /\ Send(Task("act", "form"))
    /\ UNCHANGED <<server, local, page, store, view, misc>>

\* Success: the data is new, a form is closed, a refresh begins.  On a failure
\* the calls that ask for status 200 stop, the others refresh all the same.
ActionLands(t) ==
    /\ task[t].phase = "act" /\ cookie # NoUser
    /\ \/ /\ Quiet /\ cookie \notin mustChange /\ version' = version + 1
          /\ task' = [task EXCEPT ![t].phase = RefreshPhase]
          /\ modal' = IF task[t].then = "form" THEN "none" ELSE modal
       \/ /\ IF cookie \in mustChange THEN Quiet /\ UNCHANGED version
             ELSE Fault /\ version' \in {version, version + 1}
          /\ UNCHANGED modal
          /\ \/ task' = [task EXCEPT ![t] = NoTask]
             \/ task[t].then = "storage" /\ task' = [task EXCEPT ![t].phase = RefreshPhase]
    /\ UNCHANGED <<cookie, mustChange, local, page, store, view, auto, active>>
----------------------------------------------------------------------------
(* Accounts *)

Login(u) ==
    /\ page = "login" /\ Click
    /\ \E how \in {"login", "passkey"} : Send([Task(how, "none") EXCEPT !.user = u])
    /\ UNCHANGED <<server, local, page, store, view, misc>>

\* auth.login: the answer says whether the password has to be changed.
LoginLands(t) ==
    /\ task[t].phase = "login"
    /\ \/ /\ Quiet /\ cookie' = task[t].user /\ loggedIn' = TRUE
          /\ mustFlag' = (task[t].user \in mustChange)
          /\ UNCHANGED saved /\ Boot
       \/ /\ Fault /\ task' = [task EXCEPT ![t] = NoTask]
          /\ UNCHANGED <<cookie, local, page, store, view, misc>>
    /\ UNCHANGED <<mustChange, version>>

\* webauthn/login/finish says nothing of the password; a refusal is a 401.
PasskeyLands(t) ==
    /\ task[t].phase = "passkey"
    /\ \/ /\ Quiet /\ cookie' = task[t].user /\ loggedIn' = TRUE
          /\ UNCHANGED <<mustFlag, saved>> /\ Boot
       \/ Fault /\ SignedOut /\ UNCHANGED cookie
    /\ UNCHANGED <<mustChange, version>>

ChangePassword ==
    /\ InApp /\ modal = "none" /\ shown.view = "security_profile"
    /\ Send(Task("password", "none"))
    /\ UNCHANGED <<server, local, page, store, view, misc>>

\* updateMasterPassword: a new password reloads the page; a weak one (400) is
\* reported; a wrong current one is a 401, which signs the browser out.
PasswordLands(t) ==
    /\ task[t].phase = "password" /\ cookie # NoUser
    /\ \/ /\ Quiet /\ mustChange' = mustChange \ {cookie} /\ mustFlag' = FALSE
          /\ UNCHANGED <<loggedIn, saved>> /\ Boot
       \/ /\ Fault /\ task' = [task EXCEPT ![t] = NoTask]
          /\ UNCHANGED <<mustChange, local, page, store, view, misc>>
       \/ Fault /\ SignedOut /\ UNCHANGED mustChange
    /\ UNCHANGED <<cookie, version>>

Logout ==
    /\ InApp /\ modal = "none" /\ Send(Task("logout", "none"))
    /\ UNCHANGED <<server, local, page, store, view, misc>>

\* auth.logout forgets the mark whatever the server said; only the server can
\* end the session and clear its HttpOnly cookie.
LogoutLands(t) ==
    /\ task[t].phase = "logout" /\ cookie # NoUser
    /\ \/ Quiet /\ cookie' = NoUser
       \/ Fault /\ UNCHANGED cookie
    /\ SignedOut /\ UNCHANGED <<mustChange, version>>

\* The server ends the session (expiry, revocation).
Expire ==
    /\ cookie # NoUser /\ cookie' = NoUser /\ Fault
    /\ UNCHANGED <<mustChange, version, local, page, store, view, misc, task>>
----------------------------------------------------------------------------
Answer(t) ==
    \/ MeLands(t) \/ ProjectsLand(t) \/ StatsServed(t) \/ RefreshLands(t)
    \/ Unauthorized(t) \/ ActionLands(t) \/ LoginLands(t) \/ PasskeyLands(t)
    \/ PasswordLands(t) \/ LogoutLands(t)

Next ==
    \/ \E t \in Tasks : Answer(t)
    \/ \E p \in Paths : ImportLands(p) \/ ImportFails(p) \/ Navigate(p)
    \/ StorageLands \/ Tick \/ Expire
    \/ \E p \in Projects \cup {All} : SwitchProject(p)
    \/ \E v \in saved : LoadSavedView(v) \/ DeleteSavedView(v)
    \/ RefreshClick \/ OpenForm \/ CloseModal \/ SaveView \/ StorageAction \/ SubmitForm
    \/ \E u \in Users : Login(u)
    \/ ChangePassword \/ Logout

Spec == Init /\ [][Next]_vars

(* Every request is answered or fails, every import ends, and the interval *)
(* of the browser fires.  Nothing obliges the user.                        *)
FairSpec ==
    /\ Spec /\ WF_vars(StorageLands) /\ WF_vars(Tick)
    /\ \A t \in Tasks : WF_vars(Answer(t))
    /\ \A p \in Paths : WF_vars(ImportLands(p) \/ ImportFails(p))
----------------------------------------------------------------------------
Phases == {"idle", "me", "projects", "stats", "answered", "act", "login", "passkey",
           "password", "logout"}

StoreRec == [user: Users \cup {NoUser}, must: BOOLEAN, path: Paths, project: Selections,
             projects: SUBSET Projects, stats: Stats]
ShownRec == [view: Paths \cup {"blank", "failed"}, stats: Stats]
TaskRec == [phase: Phases, then: {"none", "boot", "storage", "form"}, user: Users \cup {NoUser},
            project: Selections, list: SUBSET Projects, stats: Stats]

TypeOK ==
    /\ cookie \in Users \cup {NoUser} /\ mustChange \subseteq Users /\ version \in Nat
    /\ loggedIn \in BOOLEAN /\ mustFlag \in BOOLEAN /\ saved \subseteq SavedViews
    /\ page \in {"login", "app"}
    /\ store \in StoreRec /\ shown \in ShownRec
    /\ importing \subseteq Paths /\ loaded \subseteq Paths /\ broken \subseteq Paths /\ late \in Nat
    /\ auto \in BOOLEAN /\ modal \in Paths \cup {"none", "form"}
    /\ active \in SavedViews \cup {NoView}
    /\ task \in [Tasks -> TaskRec]
    /\ clicks \in Nat /\ faults \in Nat

\* An administrator's view is on screen for an administrator only, although
\* render checks the route before the import and the data it waits for.
ShieldHolds == shown.view \in AdminPaths => IsAdmin(store.user)

\* Who the page takes the user for is who the server takes them for: the
\* profile is fetched once, by whichever refresh comes first, and kept.
IdentityMatches == store.user # NoUser /\ cookie # NoUser => store.user = cookie

\* What may still bring an administrator's view on screen.
AdminBusy ==
    \/ importing \cap AdminPaths # {} \/ late > 0
    \/ \E t \in Tasks : task[t].then = "storage"

\* The login page has nothing left of the page before it.
LoginIsFresh == page = "login" =>
    /\ store = FreshStore /\ shown = Blank /\ importing = {} /\ loaded = {} /\ broken = {} /\ late = 0
    /\ auto = FALSE
    /\ \A t \in Tasks : task[t].phase \in {"idle", "login", "passkey"}

AppIsSignedIn == page = "app" => \A t \in Tasks : task[t].phase \notin {"login", "passkey"}

\* The inductive invariant: types, shield and identity, and what they rest on.
IInv ==
    /\ TypeOK /\ ShieldHolds /\ IdentityMatches
    /\ AdminBusy => IsAdmin(store.user)
    /\ LoginIsFresh /\ AppIsSignedIn

\* What an up-to-date view would show.
Fresh == IF store.project = NoProject THEN Empty
         ELSE [project |-> store.project, version |-> version]

\* Once the user rests and nothing fails any more, an automatically refreshed
\* view shows the selected project as the server has it: whatever answers,
\* imports and views were still on their way, and in whatever order they came.
\* A view whose failed import the browser keeps stays failed until a reload.
Settles == <>[](\/ page = "login" \/ modal # "none"
                \/ store.path \notin AutoPaths \ broken
                \/ cookie # NoUser /\ shown = [view |-> store.path, stats |-> Fresh])
=============================================================================
