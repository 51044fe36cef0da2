# FortenLog: a formal model

FortenLog is a self-hosted telemetry server: clients post error reports (Sentry
envelopes), analytics events (PostHog captures) and session heartbeats; the
server authenticates and limits them, puts them into bounded in-memory channels,
and background workers write them in batches to one SQLite database per project.
An admin surface triages issues, shows dashboards, keeps users, API keys and
projects, watches uptime, and runs retention, masking and backups. A web
interface without a framework (`ui/js`) talks to all of it.

This directory holds TLA+ modules of the parts where order, failure and
concurrency matter, TLC configurations that check them on small instances, and
TLAPS proofs about the ingestion path, its limiters, the project database, the
pool, the dashboards and the web interface for every size. Paths below are
relative to the repository; line numbers are those of the modelled revision.

## 1. The system

| Component | State | Operations | Interacts with |
|---|---|---|---|
| Ingestion endpoints (`src/handlers/ingest/envelope.rs`, `capture.rs`) | handler positions, `stack_cache`, `metrics` | `sentry_envelope`, `posthog_capture` | limiters, system pool, both channels |
| Event worker (`worker.rs`: `ingestion_worker`, `flush_batch`) | channel, batch, `last_flush`, `user_spam_cache`, `issue_rpm_cache` | receive, fill, flush | project databases, dashboard caches, error log |
| Session worker (`worker.rs`: `session_worker`, `flush_sessions`) | channel with waiting senders, batch | receive, flush | project databases, dashboard caches |
| Limiters (`envelope.rs`, `capture.rs`, `middleware/api_key.rs`) | moka caches with a time to live | get, insert | every public endpoint |
| System database and pool (`db/mod.rs`, `db/system.rs`) | ten r2d2 connections | `get_system_conn`, `log_internal_error` | every handler; blocks runtime threads |
| Project database (`db/sqlite_project.sql`, `issues/triage.rs`, `explorer.rs`, `maintenance.rs`) | issues, events, payloads, stack_traces, rollups, sessions | flush, update, resolve, delete, clear, compression | workers, admin handlers |
| Project pools (`db/projects.rs`, `settings/projects.rs`) | map of pools, map of caches, files | open (with healing), create, update, delete | all users of a project |
| Dashboards (`dashboard/*.rs`, `db/cache.rs`) | per-project and global cache | look up, compute, insert, invalidate | writers invalidate |
| Logins, sessions, TOTP (`auth/*.rs`, `middleware/auth.rs`, `security.rs`) | users, sessions, lockout | login, logout, check, refresh | admin API |
| API keys, users, audit (`api_keys/`, `users.rs`, `settings_audit.rs`) | rows of system.db | create, update, revoke, log | admin API |
| Uptime monitor (`uptime.rs`) | monitors, checks | create, delete, periodic check | admin API, uptime page |
| Retention, storage policy, backups (`maintenance.rs`, `settings/storage.rs`) | files, settings | compress, back up, rotate, restore | project databases |
| Web shell (`ui/js/app.js`, `api.js`, `auth.js`, `store.js`) | the store, localStorage, the view displayed, what is in flight | sign in and out, navigate, refresh, automatic refresh, saved views, modals | HTTP API; draws every view |
| Issue list and page (`views/issues.js`, `views/detail.js`) | filters, the issue displayed, two globals | filter, page, open, tabs, resolve, suppress, delete, affected users | shell, triage |
| Dashboard builder (`views/dashboard_builder.js`, `views/dashboard/`) | array of widgets, cards, charts, copy in localStorage | add, edit, swap, delete, save, select, draw | shell, custom dashboards and queries |
| Uptime page (`views/uptime.js`) | unfolded monitors, filters, selection | unfold, filter, select, delete, add | shell, uptime monitor |
| Event explorer (`views/explore.js`, `explorer.rs`) | filters, page, rows, selection | query, page, select, delete, inspect | shell, project databases |
| Other views, scripts, seed data, deployment | - | - | HTTP API |

What makes it correct, component by component:

* *Ingestion*: a 200 never hides a lost event, an error says what was not taken,
  memory is bounded, an event is stored at most once and in order, the
  counters add up, a taken event is settled.
* *Sessions*: backpressure is never permanent, whoever hangs up while waiting; no
  record is in two places.
* *Pool*: a knot of handlers, threads, connections and queue slots unties itself.
* *Project database*: nothing dangles, suppression and deduplication do what
  they say, counts cover the rows.
* *Limiters*: a limit holds in each stretch of time, and waiting helps.
* *Dashboards*: an invalidation reaches whatever cache is in use, and what slips
  past it does not stay.
* *Web shell*: nobody sees a view that is not theirs, nor a page with the profile
  of the user before; a view that refreshes itself shows what the server has in
  the end.
* *Issue views*: the list is on a page that exists, a page shows the trace of
  the event it shows, and no spinner stays.
* *Dashboard builder*: a card's buttons act on the widget it shows, the board
  survives leaving the view, no chart outlives its card.
* *Uptime*: the page keeps what the user did to it over its refreshes, and the
  outages it lists are the outages of the history it shows.
* *Explorer*: every matching event is on some page the pager leads to. (It is
  not: see the finding.)
* *The rest*: pools are unique, failed logins count, a restore is not
  overwritten (not modelled).

The hard behaviours are listed, each at its line, under `hazards` in
`PROJECT.json`: senders cancelled at an `await`, get/insert pairs that are not
atomic, statements without a transaction around them, a cache that outlives a
rollback, blocking calls on runtime threads, kills with a full channel, and, in
the browser, answers that land in a page the user has left.

## 2. Modules

| Module | Models | Runs |
|---|---|---|
| `EventDelivery` | the promise to a client: one fate per event, truthful answers | (as a property of `ingest`) |
| `IngestPipeline` | both endpoints, channel, worker loop, flushes, disconnects, crashes | `ingest`, `ingest_live` |
| `IngestPipeline_proofs` | theorems about `IngestPipeline` | - |
| `SessionPipeline` | session channel, its waiting senders, worker, flushes | `session` |
| `SessionPipeline_proofs` | theorems about `SessionPipeline` and `SystemPool` | - |
| `SystemPool` | handlers and workers against threads and connections | `system_pool` |
| `IssueStore` | one project database under all its writers | `issue_store` |
| `IssueStore_proofs` | theorems about `IssueStore` | - |
| `RateLimits` | address, 10 minute and daily limiters with time | `rate_limits` |
| `Dashboards` | project caches and the global one, viewers, writers, creation and deletion | `dashboards` |
| `Dashboards_proofs` | theorems about `Dashboards` and `RateLimits` | - |
| `WebShell` | one browser tab and the server's side of its session | `web_shell` |
| `WebShell_proofs` | theorems about `WebShell` | - |
| `Pagination` | the arithmetic of the pager, used twice | (in `issue_views`, `explorer_pages`) |
| `IssueViews` | the list of issues, the page of one, the actions on it | `issue_views` |
| `IssueViews_proofs` | theorems about `Pagination` and `IssueViews` | - |
| `WidgetBoard` | the dashboard builder | `widget_board` |
| `WidgetBoard_proofs` | theorems about `WidgetBoard` | - |
| `UptimeMonitors` | the uptime worker, its log, and the uptime page | `uptime` |
| `UptimeMonitors_proofs` | theorems about `UptimeMonitors` | - |
| `EventExplorer` | the event explorer and its queries | `explorer_pages` |

`MC*` modules give the constants their small values. Operators whose comment
starts with "Mutant:" are defective variants of the operator that follows them;
`PROJECT.json` pairs each property with the variant that breaks it. They are used
nowhere else. Two modules of theorems extend two components each, which is why
`SystemPool` and `RateLimits` have prefixed names (`PoolSpec`, `LimitSpec`, ...) for
what the other modules call `Spec`, `Init`, `Next`, `vars` and `TypeOK`.

### IngestPipeline

`stage[r]` is where the handler of request `r` stands. An action runs from one
point at which another task can interfere to the next: an `await`, an access to
a cache or a channel, a counter. So the read of `stack_cache` (`EnvelopeThrottle`,
`CaptureItem`) and the write (`CountOccurrence`) are separate steps and updates
can be lost, as in the code. Authentication, limits and validation are one
nondeterministic verdict (`EnvelopeVerdict`); `Refusal` lists the early returns with
the answer and the counter of each, as each bumps its own. An event is a pair
of request and index. The worker is `WorkerReceive`, `WorkerFill`, `WorkerCheck`,
`WorkerLoop`, and `flush_batch` is `FlushBegin` (the drain), one `FlushProject`
per project (committed or lost as a whole) and `FlushEnd`. `Disconnect` drops a
handler that is suspended at an `await`; `Crash` kills the process and starts it
again with empty channels and caches (nothing in `main.rs` drains them).
`last_flush` is abstracted to "recent" or "overdue".

`EventDelivery` forgets all of this and keeps a status per event and a verdict
per request. `RefinesDelivery` is the refinement.

### SessionPipeline

`send().await` of a full channel enqueues the sender; a permit that `recv` frees is
given to the first in the queue (`GivePermit`), whose task pushes its record when
it runs next (`SendResumes`). Dropping the future leaves the queue, or gives the
permit to the next (`SendDropped`). The queue is tokio's: no property is about its
order, `PermitRule` is about permits that cancelled handlers could take along.
`SessionTimeout` is enabled only when the channel is empty: the age
of the batch is looked at only after 500 ms without a record. `flush_sessions`
is one autocommitted INSERT per record with the result ignored, then one
invalidation per project. A drained batch and the records of a project are sets:
the HashMap gives the projects in any order, and in which order the rows of a
project are inserted is left open. Which dashboards the invalidation (`TurnEnds`)
reaches is decided in `Dashboards`, whose `Flush` has the viewers and their late
inserts.

### SystemPool

`sentry_envelope` takes `sys_conn` at line 48 and holds it until it returns,
across `session_tx.send().await` and `log_internal_error`, which takes two more
connections one after the other. `Pool::get` blocks the thread. Stages say who
occupies a thread and `holders` who owns a connection; every blocked `get` may
also time out, since time is not modelled.

### IssueStore

One project. `flush_batch` is `FlushBegin` (rpm cache, then pool, connection and
transaction, or the batch is gone), `FlushRead` (the transaction's first
statement is a SELECT: the snapshot) and `FlushCommit` or `FlushFail`. From its
first write on the transaction holds SQLite's write lock, so the rest of it is
one step, computed by `Written`, which applies `Write` to one event of the batch
after the other. With `StatementMayFail` the counting UPDATEs may fail (`missed`,
`failed`), and so may the SELECT of `is_suppressed`, which then counts as "not
suppressed" (`deaf`, `SeenBy`). `conflict` records that
another connection committed after the snapshot: all writes then fail. Triage,
`delete_event` and `perform_compression` are one action per SQL statement, since
each statement commits by itself. The compression's age conditions are left
open: a statement takes any set of rows. `Restart` empties the worker's caches
and includes the healing DELETE of `get_project_pool`.

### RateLimits

One client address and project. A call is an envelope or a capture request; of a
capture batch the address limiter counts the request, the other two each event
(`DayPut` goes back to "ten"), and a request may end after the address limiter
without an event. `Sizes` are the lengths of events. Each limiter is a `get` and an `insert` step;
`TickLimits` ages windows and times to live. `passed`, `granted` and `admitted` are
history variables that count what got through by age, so that "in any stretch
of time" is a sum over the last ticks. Loopback addresses, which the envelope
handler exempts, are left out. `Calls` may hold several calls in flight; the
run takes one (see section 3).

### Dashboards

What a dashboard says of a project is the version of the data it was computed
from: the number of commits so far, or `Unseen`. `entry[k]` is the dashboard of
key `k` with what remains of its time to live, in the cache that the map
`project_caches` holds for `k`, or in `global_dashboard_cache` for `All`.

A call of `get_dashboard_stats` gets a cache (`Lookup`, and `LookupInstall` if
there is none: two calls may both find none and install one each), looks into it
(`Get`), lists the projects, reads them one by one, gets the cache again
and inserts. In between, a flush, an update of the project or its deletion may
replace the cache. A viewer therefore remembers whether its clone is still the
one in the map (`clone`); what happens inside a replaced clone is not followed,
because nobody else can find it. An error while computing ends in an empty
dashboard that is cached like any other (`Fail`).

Writers commit and then invalidate. The event worker gets the cache before it
does (`WorkerLookup`, `WorkerInstall`), and the key is removed from the
cache the map holds (`InvalidateProject`), then from the global one
(`InvalidateAll`). An admin's handler can be dropped between its commit and its
invalidation (`AdminLeaves`); the cleaner invalidates nothing (`Clean`).
`settled[k][p]` is history: the newest version of `p` whose invalidation of `k`
is done. `Evict` is moka's time to idle and its eviction by size.

### The web interface

JavaScript handlers run to their next `await` without interruption, so an action
of these modules is what a handler does between two awaits. What a handler
waits for is a row of `task` whose `phase` says which answer comes next; `Answer`
lets them come in any order. `MaxTasks` bounds the rows, `MaxClicks` what the
user does (`Click`), `MaxFaults` what goes wrong (`Fault`). The server's data is
part of the state, and a request is served before its answer lands where the
difference can be seen.

**`WebShell`**. `Boot` is a page load, whatever the reason: a sign-in, a
sign-out, a 401 from any request but a password login (`SignedOut`). It starts
with a fresh store and drops all that is in flight. `Render` is `render()`: the
two shields (`Routed`), then the view's module, at once if it is loaded,
otherwise after `ImportLands`, when the route may be another. An import that failed
(`ImportFails`) is fetched again at the next try, or fails at once from then on until
the page is reloaded (`broken`), as browsers that remember the failure do. The storage view
(`late`) writes its container only when its own data is there, wherever the
user is by then. `refreshData` is `MeLands` (the profile, once per page life),
`ProjectsLand` (and the project a plain user is moved to), `StatsServed`,
`RefreshLands` (`updateStore`, whose event draws the view again). `Tick` is the
15 second interval. `StorageAction`, `SubmitForm` and `ActionLands` stand for
every action of the views that changes data and ends in a refresh; all views
are alike but the automatic ones (`AutoPaths`), whose content depends on the
store, and storage. `cookie` is the server's live session. Stealth mode, which
answers 404 instead of 401, is off.

**`Pagination`, `IssueViews`**. `Window`, `Buttons` and `Clamped` are the pager's
arithmetic. The views have one list and one detail page. `DrawList` filters,
sorts, clamps and cuts: `Hits` are the places of the chosen order that pass the
filters, `Rank` numbers them, and `PageRows`, a set, are the issues whose rank is
on the page. The load of a page is `MetaLands`, `EventsLand`, `PayloadLands`.
Nothing cancels a load whose page was left, and
`container.querySelector` finds the elements of whatever page is there: an answer
writes into the page displayed, whose load (`shown.load`) it may not be. The tabs
of a page draw the event its own load got (`shown.own`). `traced` is `currentEventDataForStackTrace`, the
global the order buttons read. An action (`Change`, `DeleteIssue`) waits for its
answer, then for a refresh, then navigates to the list.

**`WidgetBoard`**. The array of widgets belongs to the module, the grid and the
handlers to an entry into the view. `gen` says which array a handler holds on
to. `RenderAll` saves the array, destroys the charts and starts a loop
(`run`) that appends a card and awaits its query; `QueryLands` makes the chart and
the next card. Several loops may be under way. A card keeps the index it was made
with. `Hole` is an element that was never assigned. A list of dashboards is
served (`BoardsServed`) before it lands (`BoardsLand`), so a list may be stale by then.

**`UptimeMonitors`**. `Round` and `PingLands` are `uptime_worker`. A round does not wait
for the checks of the one before (`checking` counts the checks of each monitor under
way). A failure is logged, a success when the last one is 15 minutes old (a choice),
and either only if connection and INSERT succeed. `DeleteServed` may leave the log
behind (its DELETE is ignored when it fails), and its answer may be lost. The page is
drawn by `RenderUptime`, which folds everything up and unfolds again what was
unfolded. `Outages` is `getOutageIncidents`: `Scan` goes over the history, oldest
first, `ScanStep` being the body of the loop; `Runs` in the property defines the
same without an order of evaluation.
The refresh is that of the shell with the list of monitors alone, one at a time.

**`EventExplorer`**. `QueryEvents` is `query_events`: from each project the newest
`limit + offset`, then the page of all of these, and the number fetched as
`total`. The answers of queries land in the page of the entry they were sent
from (`here`). Deletion goes by batches per project and ends in a refresh of
whatever explorer is displayed. `rows.read`, what matched when the table was
read, is history for the property.

## 3. Runs

| Run | Instance | Shows |
|---|---|---|
| `ingest` | one error report, one heartbeat, one capture of two events, two projects, one throttle key; channel 1, batch 2, throttle 0, one crash | all safety properties, the inductive invariant and the refinement of `EventDelivery` |
| `ingest_live` | the same without the heartbeat | taken events are settled, requests are answered |
| `session` | four records, two projects; channel 2, batch 2, one crash, endless traffic | accounting, permits, bounds, and liveness |
| `system_pool` | four handlers, two threads, one connection, queues of 1 | the only standstill is one over connections, and no deadlock is permanent |
| `issue_store` | two reports of the same error by one user, one analytics event; batches up to 2, breaker limit 2, one restart, counting UPDATEs and the SELECT of the suppression may fail | references, suppression, deduplication, counts, what a flush knows of suppressions |
| `rate_limits` | one call at a time; sizes 1 and 2; limits 3 per 2 ticks, 2 (or 4 bytes) per 2, 3 per 4 | limits hold, and trying on shuts no limiter for good |
| `dashboards` | one viewer, the worker, one admin; one project and the dashboard of all; time to live 2, two commits | invalidations reach every dashboard in use, a stale one ends |
| `web_shell` | an administrator, a plain user on a default password with one of two projects, four views (automatic, plain, administrator's, forced); two chains of requests, three clicks, one fault | shield, identity, the inductive invariant, the view settles |
| `issue_views` | two issues of two projects, one with a stack trace; pages of one or two rows, two orders, two searches; two loads, three clicks, one fault | trace, paging, a list that is the store's, a spinner has its load and ends |
| `widget_board` | one saved dashboard, two entries, four widgets made; two chains, three clicks, one fault | cards, saved copy, charts, filling |
| `uptime` | one or two monitors, each with two outages of which one goes on; one ping, two requests, three clicks, one fault | the page follows the user, outages, a spinner has its request and ends |
| `explorer_pages` | three events and one to come, two projects, two types, pages of one or two | the finding |

A property of several parts is one definition with named conjuncts where the
parts fail together, or where one is inductive only with the others:
`SessionInv` (types, accounting, which project a flush is writing, permits, bounds), `PoolInv`
(types, a connection is held by a running call, nothing is overdrawn), `StoreInv`
(types, references, and a flush that can still commit knows the suppressions),
`RateInv` (types and the three bounds), `BoardMatches` (types, cards show their
widgets, and what tells an entry's handlers, charts and modals from another's),
`ViewsHold` (types, the page exists, the list is that of the store, a spinner has
its load) and `PageFollowsUser` (types, unfolded rows, selection, a spinner has its
request).

Why the bounds are enough: a channel of one (of two for sessions, so that one sender
can have a permit in hand while another waits behind a record) is full as soon as one event waits,
so every full-channel path runs; a batch of two both fills up and spans two
projects; a throttle of zero makes the second event of a key a throttled one
and still leaves the expiry; one crash meets every state of handlers and worker;
requests interfere only through the channel, the throttle and the counters, and
two envelopes with a capture give every pair. In `SystemPool` one call can fill
the session channel, one wait in it with every connection there is, and two
block every thread: without the timeout that is a deadlock. In `IssueStore` a repeat, a batch with both
halves of it, an event without an issue, and a second flush after a rollback or
a restart need just two reports and one analytics event. In `RateLimits` the
windows differ in length and phase and the limits in what they count. In
`Dashboards` keys interfere only through the writers, two commits make a version
that is neither the first nor the last, and one viewer has the worker, the
resizes and the deletion to lose its cache to. In the browser the hazards are
of pairs: an answer and a click, or two answers, that cross; two requests in
flight and three clicks make every such pair, in a page that was left and
entered again, with one request that fails at any point. In `UptimeMonitors` one ping is logged
beside what the history starts with: histories reach four pings, so the cut to the
three newest outages, and checks of two rounds that are both under way, are not in the
run; `OutagesTheorem` and `UptimeTheorem` cover them. In `WebShell` three
clicks are enough to sign in, go somewhere and do something there, or to sign
out and in again as someone else, while answers to the page before are late.

Deadlock is checked everywhere but in `SystemPool`, where a state in which all
calls have returned is an end, and in the web interface, where the user may stop.

One run ends in a violation (`findings` has the quotation): `explorer_pages`
checks `NextPageOffered`, and TLC shows a full table with an older match behind
it and no next page. `query_events` answers `total` with the number of events it
fetched for the page (`explorer.rs:170`), so the pager says that every page is
the last.

Differences between code and documents that the modules have and no run checks;
each is a definition that can be added to the configuration named, and TLC then
finds it violated:

| Property | Add to | What happens |
|---|---|---|
| `RepeatsAreCounted` | `MCIssueStore.cfg` | the spam cache survives a rolled-back flush (`worker.rs:238`), and repeats of its errors are counted on an issue that does not exist |
| `WritersWait` | `MCIssueStore.cfg` | a commit between a flush's SELECT and its first write dooms it, whatever `busy_timeout` says (`db/projects.rs:34`, "Wait up to 5 seconds if another writer holds the lock") |
| `CountsArePreserved` | `MCIssueStore.cfg` | retention empties an issue and the next opening deletes it with its count (`db/projects.rs:63`; README.md:132 says aggregations "are strictly preserved!") |
| `RecountIsFresh` | `MCIssueStore.cfg` with `MCThreeErrors`, `MCThreeUserOf` and batches of 3 | `delete_event` overwrites the count of a flush that committed after its COUNT (`explorer.rs:354`, "Update the count and users_affected") |
| `RetrierIsAdmitted` | `MCRateLimits.cfg` | the daily limiter counts what the 10 minute limiter refused (`envelope.rs:143-151`): a client that keeps trying uses up each day's count and is never admitted, though `RetrierPasses` holds of each limiter by itself |

Met on the server while modelling: calls in flight together overwrite each other's
counts and exceed the 10 minute limit (`envelope.rs:134`; TLC finds `RateInv`
violated with two `Calls`); the address limiter is a fixed window
(`envelope.rs:33`) where `docs/SYSTEM_ARCHITECTURE.md:126` calls it sliding, hence
the factor two in `IpBound`; `delete_event` counts addresses where the
flush counts hwids (`explorer.rs:365`, `worker.rs:350`; see `Addresses` and
`Hwids`); the clean-up of stack traces does nothing while a posthog event with its
NULL `stack_hash` is stored (`maintenance.rs:84`; see `CleanStacks`); the uptime
worker ignores `interval_secs`, and a ping that ends after its monitor was
deleted inserts a log row of nobody (see `PingLands`).

Met in the browser, all of them behaviours the modules have:

* *Shell*. A wrong current password is a 401, so it signs the user out
  (`api.js:14-22`, see `PasswordLands`). A sign-out the server did not answer
  leaves a live session: the cookie is HttpOnly and `auth.js:31` ("Clear all
  cookies (including forten_sess)") cannot clear it. A passkey sign-in does not
  say whether the password has to be changed; the mark of the user before it stays
  until the profile is there. `renderStorage` writes over whatever view is
  displayed when its data comes, and a late import draws its view under the
  route of another one; `Settles` says that automatic views recover, the others
  wait for a click, and a view whose failed import the browser remembers
  (`broken`) shows the failure until the page is reloaded.
* *Issue views*. After a resolve the refresh draws the issue's page once more,
  which starts a load, and the navigation to the list that follows is then
  overwritten by the load's answer; after a deletion a load under way can bring
  back the page of the deleted issue. The buttons of a page act on
  `store.currentIssueId`, which need not be the issue displayed. The payload of
  one issue can land in the page of another; `TraceIsBody` holds nevertheless,
  for the global is written together with the body. A failed request for the
  events shows "NO_EVENTS_FOUND".
* *Dashboard builder*. Handlers of an earlier entry destroy the charts of the
  new grid; cards may be there twice when two loops overlap; an edit while a
  project's list is awaited leaves holes.
* *Uptime page*. The selection is lost at every refresh; the type filter is
  applied after a redraw although its button says "All Checks"; a late history
  overwrites a newer one; "Errors Only" joins outages that a success parted.
* *Explorer*. The late answer of an older query overwrites a newer table, and
  unchecks boxes while "Delete Selected (k)" stays.

### Fairness

* Handlers and workers (`WF`): tokio polls every task that can go on.
* `IntervalElapses`, `Tick` (`WF`): time passes. `StaleEnds` needs nothing else:
  neither viewers nor writers have to go on.
* `SendResumes` of `SessionPipeline` (`WF`): a sender that was given a permit is woken.
* In `SystemPool` strong fairness for what needs a thread: the run queue is a
  queue, so a task that is runnable again and again gets its turn; blocked calls
  end with `connection_timeout`.
* In the browser (`WF`): a request is answered or fails, an import ends, the
  interval fires while its conditions hold. `MaxTasks` bounds what is in flight,
  so a `Tick` may have to wait for a row.
* Never: that a user clicks, that a client calls, stops calling or hangs up, that a cache entry
  expires, that a flush succeeds, or that the process crashes.

## 4. Proofs

`IngestPipeline_proofs` proves, from the assumptions `RequestAssumption` and
`SizeAssumption` alone (finitely many requests, channel and batch of at least
one), for any number of requests, projects, events and crashes:

| Theorem | Statement |
|---|---|
| `TypeCorrect` | `[](TypeOK /\ StageInv)` |
| `AnswersAreTrue` | `[](OkMeansTaken /\ ErrorMeansPrefix)` |
| `ErrorTheorem` | `[]ErrorMeansPrefix` |
| `PipelineBounded` | `[]BuffersBounded` |
| `EventsNeverMisplaced` | `[]EventsAccounted` |
| `CommitsInOrder` | `StoresInOrder` |
| `CountersBalance` | `[]MetricsBalance` |
| `InductiveInvariant` | `[]IInv` |
| `PipelineImplementsDelivery` | `RefinesDelivery` |

`IInv`, which TLC checks too, is inductive. It consists of

* `StageInv`, `RequestInv`: where a handler stands tells how far it is in its
  request, and which of its events were taken or throttled. Without it nothing
  says that an answer is about the right events.
* `RoomInv`: whoever appends to the batch has room. `BuffersBounded` alone does
  not survive `WorkerReceive`, which does not look at the size.
* `FlushInv`: a drained batch exists only during a flush, and what its finished
  projects held is settled. It makes `FlushEnd`, which forgets the batch, harmless.
* `EventsAccounted`: every taken event is in one place.
* `OrderInv`: the channel is younger than the batch, the batch younger than the
  drained batch, and the pending part of a project younger than what it has
  stored. `StoresInOrder` follows from it in one step.
* `MetricsBalance`: needs `TypeOK` and finiteness only, through the cardinalities
  of the sets of answered and running requests.

The proof is layered: each part is shown to be preserved with the help of the
parts before it, one step per action. The refinement maps each action
to a step of `EventDelivery` or to a stutter, under `IInv`.

`Dashboards_proofs` proves, from `DashboardAssumption` alone (the dashboard of
all is no project, no worker is an admin, the time to live is positive), for any
number of projects, viewers, writers and commits:

| Theorem | Statement |
|---|---|
| `TypeCorrect` | `[]TypeOK` |
| `InvalidationsReachAll` | `OnlyInsertsAreLate` |

The inductive invariant adds `HasProject` to the types: whoever is about to
install a cache does so for a project, and a writer at work has one. Without it
`Install` could leave `entry` with a key that is none. `OnlyInsertsAreLate`
then follows step by step: an entry that comes to miss a settled commit either
was written by this step, which only `Insert` does, or `settled` went up, which
only the two invalidations do, and they remove the entry.

For `RateLimits` the same module proves, from `LimitAssumption` (limits and windows
are positive, a call is of any size) and `Alone` (there is one call in flight), for
all limits and windows:

| Theorem | Statement |
|---|---|
| `RateTheorem` | `LimitSpec => []RateInv` |

`Alone` is the client that `RateInv` is about, one that waits for each answer: with
two calls in flight one overwrites the other's count, and the bounds fail. None of
the bounds is inductive, since an entry does not know what it let through.
`RateIInv` says it: an entry of the 10 minute or the daily limiter counts at least
what is in its window, and nothing in the window is younger than the time it was
last written (`Covers`), so when it expires the window is empty; a call that is
about to write back has read at least as much. The address limiter's window does
not move with time. Its invariant (`Ruled`) splits what passed in the last
`IpWindow` at the beginning of the entry's window: what came since is within the
count, what came before is of one earlier window, and each is within the limit. The
sums are recursive functions; the lemmas on `Younger` (what one tick and one request
do to every partial sum) carry them over the actions.

`WebShell_proofs` proves, from `ShellAssumption` alone, for any number of
accounts, projects, views, bookmarks and requests in flight:

| Theorem | Statement |
|---|---|
| `ShellInvariant` | `[]IInv` |
| `ShieldTheorem` | `[]ShieldHolds` |
| `IdentityTheorem` | `[]IdentityMatches` |

Neither property is inductive. `ShieldHolds` speaks of what is displayed, but an
import or a storage view that comes in later displays it without another look at
the user: `IInv` adds that while one is pending (`AdminBusy`) the user is an
administrator, which rests on the profile never being exchanged within the life of
a page. `IdentityMatches` needs that a sign-in can only be answered on the login
page (`AppIsSignedIn`), where nobody is known yet (`LoginIsFresh`); otherwise
another account's cookie could arrive under a page that knows the old profile.

`SessionPipeline_proofs` proves, from `SessionAssumption` (every record has a
project, channel and batch hold at least one), for any number of senders, projects
and crashes:

| Theorem | Statement |
|---|---|
| `SessionTheorem` | `[]SessionInv` |

`SessionInv` is inductive. Its accounting rests on every queue holding a record
once, which the lemmas on queues (`AppendQueue`, `TailQueue`, `RemoveAtQueue`) carry
over `send().await`, its cancellation and the worker; the bound of a flush on
`QueueCardinality`: the batch it drains has as many records as places. `TurnRule`
says that a flush comes to each project once. `PermitRule` is the capacity of the
channel: what is free, in the hands of a sender, or taken by a record adds up to it,
also when a sender is dropped between being given a permit and using it, and nobody
waits while a permit is free.

For `SystemPool` the same module proves, from `PoolAssumption` (finitely many handlers, at least
one thread, connection and queue slot), for any number of them:

| Theorem | Statement |
|---|---|
| `PoolTheorem` | `[]PoolInv` |
| `OnlyConnectionsStallTheorem` | `[]OnlyConnectionsStall` |

The numbers of busy threads and held connections are cardinalities, so most of the
proof says what one handler's change of stage does to them (`GoOnThread`,
`GoOffThread`, `TakeConn`, `DropConn`). `OnlyConnectionsStall`
is the safety half of `EveryCallReturns`: while anything is under way, somebody can
take a step that is no timeout (`GoesOn`), where a call blocked in `Pool::get` counts
only if there is a connection for it, or the state is a `Standstill`: all connections are
held, every holder is blocked in `Pool::get` for its second one or, no thread being
free, suspended in the session channel, and the blocked ones are about to time out.
It needs `HoldersAreRunning`: a connection whose call has returned would stall
everybody without being such a circle. What fairness makes of it is left to TLC.

`IssueStore_proofs` proves, from `StoreAssumption` (finitely many events, an error
has one of the fingerprints, a masked address stays masked), for batches of any
size and any number of events, users, fingerprints and restarts:

| Theorem | Statement |
|---|---|
| `StoreTheorem` | `[]StoreInv` |
| `SuppressionTheorem` | `SuppressedGainsNoRow` (but for events whose own SELECT failed) |
| `OneRowTheorem` | `OneRowPerUser` |
| `SurplusTheorem` | `SurplusNeverShrinks` |

A flush is an induction over its batch. `AccInv` says of an accumulator that its
references resolve, that each new row is of an issue that is not silent and has
its key in the spam cache, alone of its key, and that no row was added without a
count; `WriteInv` shows one event to preserve it, in three cases (an analytics
event, an error that is only counted, an error that is stored). That it holds after
the whole batch follows from the least number of events after which it would not
(`WrittenInv`); the same argument shows that the recursive `Written` is what its
equation says (`WrittenExists`). The action properties also need `SnapshotHolds`:
without it a flush could write by a suppression that was changed since it looked.
It is inductive because every statement of another connection that changes a table
raises `conflict`. The foreign keys (`Unreferenced`) make the deletions of issues
harmless (`DropIssuesInv`).

`IssueViews_proofs` proves, for every number of pages, rows and every page size:

| Theorem | Statement |
|---|---|
| `WindowTheorem` | the run of numbered buttons lies within the pages, has the current one, and is `MaxVisible` long if there are so many |
| `ButtonsTheorem` | no button leads to a page that does not exist |
| `ClampTheorem` | a clamped page exists and has a row if there is any |

and, from `ViewsAssumption` (there is a project, every issue has one, page sizes are
positive), for any issues, orders, searches and requests in flight:

| Theorem | Statement |
|---|---|
| `TraceTheorem` | `[]TraceIsBody` |
| `ViewsTheorem` | `[]ViewsHold` |

For `TraceIsBody` one operator, `ShowTab`, writes the tab, its body and the global,
and every other action that touches one of them leaves the page without a trace.
`ViewsHold` is inductive with two additions: a load and an action know the issue
they are about (`Ruled`), and there is nothing but the list until an issue is opened
(`CurRule`), so that whatever lands finds an issue. `PageExists` is used for
itself: a click on a button leads to a page that exists only if the current one
does (`ButtonsTheorem`). That a page within the count is not empty needs an issue
of each rank: `Ranked` finds it as the first place that so many hits do not pass.
Its part `FetchIsAwaited` is the safety half of `PageComes`: a spinner always has a
load of the issue opened last (`cur`) behind it. Nothing more need be known for that
part, since whoever ends or replaces such a load draws at the same time.

`UptimeMonitors_proofs` proves, from `UptimeAssumption` (finitely many monitors,
room for a request), for any monitors, histories of any length, pings, clicks and
requests in flight:

| Theorem | Statement |
|---|---|
| `UptimeTheorem` | `[]PageFollowsUser` |
| `OutagesTheorem` | `[]OutagesAreRuns` |

The inductive invariant has a part for the table, the page, its rows, the boxes and
the requests. Beyond what the two properties say it needs that a request is about
monitors that were there, that only a deletion of many, or the refresh after it, is
marked as one (so that an answer with a history does not end the deletion that keeps
the bar down), and that nothing stays checked on a page that was left. `Rendered`
says once what drawing the page establishes, for `Enter` and `RefreshLands`;
`RowFilled` that a late answer changes what an unfolded row contains and never
whether it is unfolded.

`OutagesAreRuns` is about `Chart` and not about steps. `ScanInv` says of the scan
after `i` pings that its list holds the longest runs that ended before the outage
it is in, in order, and where that outage began; `ScanStepInv` extends it by one
ping and `ScanHolds` by all of them. Then `Counted` turns "each run once, the newest
first" into the cardinalities of the property: the runs that began after the `i`-th
are numbered by the `i - 1` places before it.

The part `FetchIsAwaited` of `PageFollowsUser` is the safety half of `FetchingEnds`. A
drawing of the page asks at once for all that was unfolded; the request of each
monitor is its image under an injection into the free places (`RowsGiven`), so no two
share one. An answer for a monitor takes the spinner of that monitor away with it.

`WidgetBoard_proofs` proves, from `BoardAssumption` alone, for any widgets, entries,
drawing loops and requests in flight:

| Theorem | Statement |
|---|---|
| `BoardTheorem` | `[]BoardMatches` |
| `SavedTheorem` | `[]SavedIsBoard` |
| `ChartsTheorem` | `[]ChartsHaveCards` |

The inductive invariant is the conjunction of the three. Cards could stop to match
in two ways: a handler or a form of an earlier entry changes the array the grid is
drawn from, or an answer to an earlier entry draws into the grid of this one.
`EntryRule` tells entries apart. `ModalRule` says that a form of an earlier entry
can only append to the array of this one: an entry replaces the array (`gen`) by the
saved copy, and keeps it only if nothing was ever saved, in which case the form was
opened for no widget. `DrawnRule` says what "never saved" implies. `SavedIsBoard` is
needed for the entry itself, which draws the saved copy. The exception, `Switching`,
is a switch of the project that still awaits its list of dashboards: the array is
already empty, the grid and the copy are not.

Only model-checked:

* the liveness properties (`TakenIsSettled`, `RequestIsAnswered`, `SendReturns`,
  `SessionsDrain`, `EveryCallReturns`, `FlusherRecovers`, `RetrierPasses`,
  `StaleEnds`, `Settles`, `PageComes`, `BoardFills`, `FetchingEnds`): fairness and
  ENABLED are out of the prover's reach;
* `NextPageOffered`, which does not hold.

## 5. Not modelled

* The contents of events (parsing, PII stripping, hashing, compression), and the
  SQL of read-only queries, of exports and of custom dashboard queries.
* The issue that `log_internal_error` itself writes into `default-project`; the
  invalidation it spawns with a clone of the cache (`db/system.rs:150`), which
  misses a cache that replaced it meanwhile.
* SQLite below the level of statements and snapshots, and moka beyond get,
  insert, invalidate, expiry and, in `Dashboards`, eviction. In `Dashboards` also
  a crash (all caches are empty again).
* Project pools (two first callers of `get_project_pool` open one each), backups,
  restore over files in use, the storage policy: what goes wrong there depends on
  files and locks of the operating system.
* Lockout, second factor, API keys, users and audit log beyond what the browser
  sees of them.
* In the browser: the views that are one request and one drawing (analytics,
  audit, settings, performance, API keys), the documentation pages, themes,
  layout, and the HTML itself. A widget's contents and the widths of a resize are
  not told apart. Two tabs of one browser share localStorage and the cookie; the
  modules have one.
* In the browser also some behaviours of handlers of an older entry that no property
  tells apart: the button of an empty board that it may bind (`dashboard_builder.js:162`),
  a drag or resize that begins before an entry and ends after it (`WidgetDOM.js:101`),
  a `setItem` that throws (`dashboard_builder.js:139`), and an issue page drawn by a
  refresh while a navigation is awaited, which `IssueViews` draws for the route before
  it (`app.js:391`).
* Of the uptime monitor the status column, latencies and the pruning after 30 days.
* Scripts, seed data, fuzzing, deployment.

## 6. Plan

Done: `EventDelivery`, `IngestPipeline`, `SessionPipeline`, `SystemPool`,
`RateLimits`, `IssueStore`, `Dashboards`, `WebShell`, `Pagination`, `IssueViews`,
`WidgetBoard` and `UptimeMonitors` with their proofs: every invariant and action
property that a passing run checks is a theorem. `EventExplorer` has none; what it
is checked for does not hold.

Worth doing next, in this order:

1. `Logins`: login, lockout, sessions, second factor, password change, with
   parallel failures; API keys with their limiter.
2. `ProjectPools`: opening, deletion under open pools, the worker that opens a
   deleted project again, backups and their rotation.
3. Two tabs of one browser over `WebShell`.
4. Proofs: the safety halves of the other liveness properties, what is still under way
   while something is owed, as `OnlyConnectionsStall` and the two `FetchIsAwaited` are.
