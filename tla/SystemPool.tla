----------------------------- MODULE SystemPool -----------------------------
(***************************************************************************)
(* Envelope handlers, the two background workers, the runtime threads that *)
(* poll all of them, and the r2d2 pool of connections to system.db.        *)
(*                                                                         *)
(* sentry_envelope takes a connection early (sys_conn) and keeps it until  *)
(* it returns: over session_tx.send().await, where it is suspended, and    *)
(* over log_internal_error, which takes a second connection from the same  *)
(* pool.  Pool::get does not suspend its caller: it blocks the thread, for *)
(* up to connection_timeout.  So handlers, threads, connections and queue  *)
(* slots can wait for one another; this module is about how far that goes. *)
(*                                                                         *)
(* The queues are counters here; IngestPipeline and SessionPipeline follow *)
(* what is in them.                                                        *)
(***************************************************************************)
EXTENDS Integers, FiniteSets

CONSTANTS
    Handlers,           \* calls of sentry_envelope
    Threads,            \* worker threads of the tokio runtime
    PoolSize,           \* max_size of the system pool (r2d2's default, 10)
    SessionCapacity,
    EventCapacity

ASSUME PoolAssumption ==
    /\ IsFiniteSet(Handlers)
    /\ Threads \in Nat \ {0}
    /\ PoolSize \in Nat \ {0}
    /\ SessionCapacity \in Nat \ {0}
    /\ EventCapacity \in Nat \ {0}

VARIABLES
    stage,      \* where each handler stands
    holders,    \* handlers that own their sys_conn
    flusher,    \* where the ingestion worker stands
    sessions,   \* length of the session channel
    events      \* length of the ingest channel

poolVars == <<stage, holders, flusher, sessions, events>>

\* Blocked on Pool::get: for sys_conn, for the logging switch, for the log row.
Blocked == {"conn", "switch", "row"}
\* A handler occupies a thread unless it has not begun, has returned, or is
\* suspended in send().await.
OnThread == Blocked \cup {"check", "sent"}
Stages == OnThread \cup {"new", "sending", "done"}
FlusherStages == {"idle", "cache", "switch", "row"}

PoolTypeOK ==
    /\ stage \in [Handlers -> Stages]
    /\ holders \in SUBSET Handlers
    /\ flusher \in FlusherStages
    /\ sessions \in 0 .. SessionCapacity
    /\ events \in 0 .. EventCapacity

PoolInit ==
    /\ stage = [h \in Handlers |-> "new"]
    /\ holders = {}
    /\ flusher = "idle"
    /\ sessions = 0
    /\ events = 0

-----------------------------------------------------------------------------
BusyThreads ==
    Cardinality({h \in Handlers : stage[h] \in OnThread})
      + (IF flusher = "idle" THEN 0 ELSE 1)

\* Some thread can poll a task; some connection is idle in the pool.
ThreadFree == BusyThreads < Threads
ConnFree == Cardinality(holders) < PoolSize

Goto(h, s) == stage' = [stage EXCEPT ![h] = s]

\* Mutant: the connection leaks.
ReturnKeepsConn(h) == Goto(h, "done") /\ UNCHANGED holders

\* Returning drops sys_conn.
Return(h) == Goto(h, "done") /\ holders' = holders \ {h}

-----------------------------------------------------------------------------
(* sentry_envelope                                                         *)

\* The first poll runs up to get_system_conn, and past it if a connection is
\* idle.
Start(h) ==
    /\ stage[h] = "new"
    /\ ThreadFree
    /\ \/ ConnFree /\ Goto(h, "check") /\ holders' = holders \cup {h}
       \/ ~ConnFree /\ Goto(h, "conn") /\ UNCHANGED holders
    /\ UNCHANGED <<flusher, sessions, events>>

GotConn(h) ==
    /\ stage[h] = "conn"
    /\ ConnFree
    /\ Goto(h, "check")
    /\ holders' = holders \cup {h}
    /\ UNCHANGED <<flusher, sessions, events>>

\* Mutant: Pool::get waits for ever.
ConnTimeoutNever(h) ==
    /\ FALSE
    /\ Goto(h, "switch")
    /\ UNCHANGED <<holders, flusher, sessions, events>>

\* connection_timeout: the failure is logged before the request is refused.
ConnTimeout(h) ==
    /\ stage[h] = "conn"
    /\ Goto(h, "switch")
    /\ UNCHANGED <<holders, flusher, sessions, events>>

\* Refused by key, body, quota or validation, or on to the session channel:
\* send().await goes through, or suspends the handler with its connection.
Check(h) ==
    /\ stage[h] = "check"
    /\ \/ Return(h) /\ UNCHANGED sessions
       \/ /\ sessions < SessionCapacity
          /\ sessions' = sessions + 1
          /\ Goto(h, "sent")
          /\ UNCHANGED holders
       \/ /\ sessions = SessionCapacity
          /\ Goto(h, "sending")
          /\ UNCHANGED <<holders, sessions>>
    /\ UNCHANGED <<flusher, events>>

\* Woken by a free slot, the handler needs a thread to go on.
SendGoesOn(h) ==
    /\ stage[h] = "sending"
    /\ ThreadFree
    /\ sessions < SessionCapacity
    /\ sessions' = sessions + 1
    /\ Goto(h, "sent")
    /\ UNCHANGED <<holders, flusher, events>>

\* A heartbeat or a throttled report returns; try_send takes the event; or the
\* channel is full, and the 429 is logged first.
TrySend(h) ==
    /\ stage[h] = "sent"
    /\ \/ Return(h) /\ UNCHANGED events
       \/ /\ events < EventCapacity
          /\ events' = events + 1
          /\ Return(h)
       \/ /\ events = EventCapacity
          /\ Goto(h, "switch")
          /\ UNCHANGED <<holders, events>>
    /\ UNCHANGED <<flusher, sessions>>

\* log_internal_error reads the switch on one connection, which goes back to
\* the pool, and writes the row on another; without one it goes on all the same.
LogSwitch(h) ==
    /\ stage[h] = "switch"
    /\ \/ ConnFree /\ Return(h)                       \* logging is off
       \/ Goto(h, "row") /\ UNCHANGED holders         \* on, or timed out
    /\ UNCHANGED <<flusher, sessions, events>>

LogRow(h) ==
    /\ stage[h] = "row"
    /\ Return(h)                                     \* written, or timed out
    /\ UNCHANGED <<flusher, sessions, events>>

-----------------------------------------------------------------------------
(* The workers                                                             *)

\* session_worker takes a record and flushes to a project pool.
DrainSession ==
    /\ ThreadFree
    /\ sessions > 0
    /\ sessions' = sessions - 1
    /\ UNCHANGED <<stage, holders, flusher, events>>

\* ingestion_worker empties the channel and flushes.  After the commit
\* get_project_cache may need system.db; a failed flush is logged.
DrainEvents ==
    /\ flusher = "idle"
    /\ ThreadFree
    /\ events > 0
    /\ events' = 0
    /\ flusher' \in {"idle", "cache", "switch"}
    /\ UNCHANGED <<stage, holders, sessions>>

\* A connection, or connection_timeout, lets the worker go on.
FlusherGoesOn ==
    /\ \/ flusher = "cache" /\ flusher' = "idle"
       \/ flusher = "switch" /\ flusher' \in {"idle", "row"}
       \/ flusher = "row" /\ flusher' \in {"idle", "cache"}
    /\ UNCHANGED <<stage, holders, sessions, events>>

-----------------------------------------------------------------------------
HandlerStep(h) ==
    \/ GotConn(h)
    \/ ConnTimeout(h)
    \/ Check(h)
    \/ SendGoesOn(h)
    \/ TrySend(h)
    \/ LogSwitch(h)
    \/ LogRow(h)

PoolNext ==
    \/ \E h \in Handlers : Start(h) \/ HandlerStep(h)
    \/ DrainSession
    \/ DrainEvents
    \/ FlusherGoesOn

PoolSpec == PoolInit /\ [][PoolNext]_poolVars

\* Blocked calls of Pool::get return, if only with connection_timeout.  tokio
\* queues the tasks that can go on, so one that is runnable again and again
\* gets a thread in the end (SF).  No client has to call.
PoolFairSpec ==
    /\ PoolSpec
    /\ \A h \in Handlers :
          /\ WF_poolVars(GotConn(h) \/ ConnTimeout(h) \/ Check(h) \/ TrySend(h)
                       \/ LogSwitch(h) \/ LogRow(h))
          /\ SF_poolVars(SendGoesOn(h))
    /\ SF_poolVars(DrainSession)
    /\ SF_poolVars(DrainEvents)
    /\ WF_poolVars(FlusherGoesOn)

-----------------------------------------------------------------------------
(* Safety                                                                  *)

\* A connection is held exactly from get_system_conn to the return, on every
\* path, refusals and failures included.
HoldersAreRunning ==
    \A h \in Handlers :
        /\ h \in holders => stage[h] \notin {"new", "conn", "done"}
        /\ stage[h] \in {"check", "sending", "sent"} => h \in holders

\* No more calls run than there are threads, however many are suspended with
\* their connection, and no more connections are out than the pool has.
WithinLimits ==
    /\ BusyThreads <= Threads
    /\ Cardinality(holders) <= PoolSize

\* That discipline, in well-typed states: an exhausted pool is always owed to
\* handlers that will return.
PoolInv == PoolTypeOK /\ HoldersAreRunning /\ WithinLimits

\* Somebody waits for a connection, or runs a Pool::get that is about to return.
SomebodyBlocked == flusher # "idle" \/ \E h \in Handlers : stage[h] \in Blocked

\* Somebody goes on without a timeout: a call that waits for nothing, one that
\* waits for a connection when one is idle, or, a thread being free, a sender
\* that finds room or the session worker that makes some.
GoesOn ==
    \/ \E h \in Handlers : stage[h] \in {"check", "sent"}
    \/ SomebodyBlocked /\ ConnFree
    \/ /\ ThreadFree
       /\ \/ sessions > 0
          \/ sessions < SessionCapacity /\ \E h \in Handlers : stage[h] = "sending"

\* A standstill until connection_timeout: every connection is held by a call
\* that waits itself, for a second connection to log its refusal, or for room in
\* the session channel with no thread left for the session worker.
Standstill ==
    /\ ~ConnFree
    /\ SomebodyBlocked
    /\ \/ \A h \in holders : stage[h] \in {"switch", "row"}
       \/ /\ ~ThreadFree
          /\ \A h \in holders : stage[h] \in {"switch", "row", "sending"}

\* While a call is under way, or the ingestion worker in a flush, somebody goes
\* on, or it is that standstill, in which some Pool::get is about to time out.
\* Threads and queue slots alone never close a circle, and a connection that
\* nobody is going to give back stalls nobody.
OnlyConnectionsStall ==
    (flusher # "idle" \/ \E h \in Handlers : stage[h] \notin {"new", "done"})
        => GoesOn \/ Standstill

-----------------------------------------------------------------------------
(* Liveness, under PoolFairSpec                                            *)

\* Whatever waits for whatever, every call that began returns.
EveryCallReturns ==
    \A h \in Handlers : (stage[h] # "new") ~> (stage[h] = "done")

\* The ingestion worker is not held up for good, and drains its channel.
FlusherRecovers == (events = EventCapacity) ~> (events = 0)
=============================================================================
