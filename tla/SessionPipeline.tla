--------------------------- MODULE SessionPipeline ---------------------------
(***************************************************************************)
(* Session records: sentry_envelope sends one down the session channel     *)
(* with send().await, session_worker collects them and flush_sessions      *)
(* writes them, one autocommitted INSERT each, and then invalidates the    *)
(* dashboard cache of the project.                                         *)
(*                                                                         *)
(* Unlike the event channel (IngestPipeline) this one makes its senders    *)
(* wait: tokio keeps them in a queue, and a place the worker frees is given *)
(* to the first of them, who uses it when its task runs next.  A session   *)
(* stands for the record a request sends; once it has been written or lost *)
(* the same model value is used again for a later request, so that traffic *)
(* never has to end.  Which cached dashboards the invalidation reaches is  *)
(* the subject of Dashboards.                                              *)
(***************************************************************************)
EXTENDS Integers, Sequences, SequencesExt

CONSTANTS
    Sessions,           \* session records, one per envelope being handled
    Projects,
    NoProject,          \* not a project: nothing is being written
    ProjectOf,
    ChannelCapacity,    \* 10_000 in the code
    BatchSize,          \* 100 in the code
    MaxCrashes          \* bound on the number of process crashes

ASSUME SessionAssumption ==
    /\ NoProject \notin Projects
    /\ ProjectOf \in [Sessions -> Projects]
    /\ ChannelCapacity \in Nat \ {0}
    /\ BatchSize \in Nat \ {0}
    /\ MaxCrashes \in Nat

VARIABLES
    sender,     \* what has become of each session's send()
    waiters,    \* senders queued for a permit of the channel
    permits,    \* permits of the channel nobody has been given
    channel,    \* session_tx / rx
    batch,      \* the worker's Vec
    lastFlush,  \* last_flush: "recent", or "overdue" after five seconds
    worker,     \* "recv", or "flush" during flush_sessions
    drained,    \* records of the flush whose project has not had its turn
    writing,    \* the project whose group is being written, or NoProject
    rest,       \* its sessions still to be inserted
    rows,       \* sessions committed to a sessions table
    lost,       \* sessions taken from their senders and not written
    crashes

workerVars == <<batch, lastFlush, worker, drained, writing, rest>>
vars == <<sender, waiters, permits, channel, workerVars, rows, lost, crashes>>

\* A sender that was granted a permit has not put its record in the channel yet.
SenderStages == {"idle", "waiting", "granted", "sent", "cut"}

TypeOK ==
    /\ sender \in [Sessions -> SenderStages]
    /\ waiters \in Seq(Sessions)
    /\ permits \in Nat
    /\ channel \in Seq(Sessions)
    /\ batch \in Seq(Sessions)
    /\ lastFlush \in {"recent", "overdue"}
    /\ worker \in {"recv", "flush"}
    /\ drained \in SUBSET Sessions
    /\ writing \in Projects \cup {NoProject}
    /\ rest \in SUBSET Sessions
    /\ rows \in SUBSET Sessions
    /\ lost \in SUBSET Sessions
    /\ crashes \in 0 .. MaxCrashes
    /\ worker = "recv" => writing = NoProject /\ drained = {}
    /\ worker = "flush" => batch = <<>>
    /\ writing = NoProject => rest = {}

Init ==
    /\ sender = [s \in Sessions |-> "idle"]
    /\ waiters = <<>>
    /\ permits = ChannelCapacity
    /\ channel = <<>>
    /\ batch = <<>>
    /\ lastFlush = "recent"
    /\ worker = "recv"
    /\ drained = {}
    /\ writing = NoProject
    /\ rest = {}
    /\ rows = {}
    /\ lost = {}
    /\ crashes = 0

-----------------------------------------------------------------------------
(* session_tx.send(session).await, called by sentry_envelope               *)

Mark(s, stage) == sender' = [sender EXCEPT ![s] = stage]

Granted == {s \in Sessions : sender[s] = "granted"}

\* The first poll: with a permit the record goes in, or else the sender queues.
Send(s) ==
    /\ sender[s] = "idle"
    /\ \/ /\ permits > 0
          /\ permits' = permits - 1
          /\ channel' = Append(channel, s)
          /\ Mark(s, "sent")
          /\ UNCHANGED waiters
       \/ /\ permits = 0
          /\ waiters' = Append(waiters, s)
          /\ Mark(s, "waiting")
          /\ UNCHANGED <<permits, channel>>
    /\ UNCHANGED <<workerVars, rows, lost, crashes>>

\* A permit is given back: to the sender that has waited longest, if there is
\* one.  The senders are in the stages of stages otherwise.
GivePermit(stages) ==
    \/ /\ waiters = <<>>
       /\ permits' = permits + 1
       /\ sender' = stages
       /\ UNCHANGED waiters
    \/ /\ waiters # <<>>
       /\ waiters' = Tail(waiters)
       /\ sender' = [stages EXCEPT ![Head(waiters)] = "granted"]
       /\ UNCHANGED permits

\* The task of a sender that was given a permit runs again.
SendResumes(s) ==
    /\ sender[s] = "granted"
    /\ channel' = Append(channel, s)
    /\ Mark(s, "sent")
    /\ UNCHANGED <<waiters, permits, workerVars, rows, lost, crashes>>

\* Mutant: a dropped send takes the permit it was given with it.
SendDroppedKeepsPermit(s) ==
    /\ \/ /\ sender[s] = "waiting"
          /\ \E i \in 1 .. Len(waiters) :
                waiters[i] = s /\ waiters' = RemoveAt(waiters, i)
       \/ /\ sender[s] = "granted"
          /\ UNCHANGED waiters
    /\ Mark(s, "cut")
    /\ UNCHANGED <<permits, channel, workerVars, rows, lost, crashes>>

\* The client hangs up: the handler's future and the pending send are dropped.
\* A permit it has not used is given to the next.
SendDropped(s) ==
    /\ \/ /\ sender[s] = "waiting"
          /\ \E i \in 1 .. Len(waiters) :
                waiters[i] = s /\ waiters' = RemoveAt(waiters, i)
          /\ Mark(s, "cut")
          /\ UNCHANGED permits
       \/ /\ sender[s] = "granted"
          /\ GivePermit([sender EXCEPT ![s] = "cut"])
    /\ UNCHANGED <<channel, workerVars, rows, lost, crashes>>

\* The next request.
NextRequest(s) ==
    /\ \/ sender[s] = "sent" /\ s \in rows \cup lost
       \/ sender[s] = "cut"
    /\ Mark(s, "idle")
    /\ rows' = rows \ {s}
    /\ lost' = lost \ {s}
    /\ UNCHANGED <<waiters, permits, channel, workerVars, crashes>>

-----------------------------------------------------------------------------
(* session_worker                                                          *)

\* batch.drain(..), to be grouped by project
Drain(b) ==
    /\ drained' = ToSet(b)
    /\ batch' = <<>>
    /\ worker' = "flush"

\* Mutant: a place that became free is offered to nobody who waits for it.
SessionReceiveWakesNobody ==
    /\ worker = "recv"
    /\ channel # <<>>
    /\ channel' = Tail(channel)
    /\ permits' = permits + 1
    /\ LET b == Append(batch, Head(channel)) IN
          \/ Len(b) >= BatchSize /\ Drain(b)
          \/ Len(b) < BatchSize /\ batch' = b /\ UNCHANGED <<worker, drained>>
    /\ UNCHANGED <<sender, waiters, lastFlush, writing, rest, rows, lost, crashes>>

\* recv() yields a record and gives its permit back; a full batch is flushed at
\* once.
SessionReceive ==
    /\ worker = "recv"
    /\ channel # <<>>
    /\ channel' = Tail(channel)
    /\ GivePermit(sender)
    /\ LET b == Append(batch, Head(channel)) IN
          \/ Len(b) >= BatchSize /\ Drain(b)
          \/ Len(b) < BatchSize /\ batch' = b /\ UNCHANGED <<worker, drained>>
    /\ UNCHANGED <<lastFlush, writing, rest, rows, lost, crashes>>

\* Mutant: the timeout flushes full batches only.
SessionTimeoutFull ==
    /\ worker = "recv"
    /\ channel = <<>>
    /\ Len(batch) >= BatchSize
    /\ Drain(batch)
    /\ UNCHANGED <<sender, waiters, permits, channel, lastFlush, writing, rest, rows,
                   lost, crashes>>

\* recv() saw nothing for 500 ms: only then is the age of the batch looked at.
SessionTimeout ==
    /\ worker = "recv"
    /\ channel = <<>>
    /\ batch # <<>> /\ lastFlush = "overdue"
    /\ Drain(batch)
    /\ UNCHANGED <<sender, waiters, permits, channel, lastFlush, writing, rest, rows,
                   lost, crashes>>

\* Five seconds have passed since last_flush.
IntervalElapses ==
    /\ lastFlush = "recent"
    /\ lastFlush' = "overdue"
    /\ UNCHANGED <<sender, waiters, permits, channel, batch, worker, drained, writing,
                   rest, rows, lost, crashes>>

-----------------------------------------------------------------------------
(* flush_sessions                                                          *)

\* The Vec of project p.  No property tells the order of its records apart.
Group(p) == {s \in drained : ProjectOf[s] = p}

\* One project's turn, in the order of a HashMap.  Without a pool, a connection
\* or a statement all of its records are dropped, and the cache is invalidated
\* all the same.
FlushOpen(p) ==
    /\ worker = "flush"
    /\ writing = NoProject
    /\ Group(p) # {}
    /\ writing' = p
    /\ drained' = drained \ Group(p)
    /\ \/ rest' = Group(p) /\ UNCHANGED lost
       \/ rest' = {} /\ lost' = lost \cup Group(p)
    /\ UNCHANGED <<sender, waiters, permits, channel, batch, lastFlush, worker, rows,
                   crashes>>

\* One INSERT, its result ignored
FlushRow ==
    /\ writing # NoProject
    /\ \E s \in rest :
          /\ rest' = rest \ {s}
          /\ \/ rows' = rows \cup {s} /\ UNCHANGED lost
             \/ lost' = lost \cup {s} /\ UNCHANGED rows
    /\ UNCHANGED <<sender, waiters, permits, channel, batch, lastFlush, worker, drained,
                   writing, crashes>>

\* The last record has been tried: invalidate_dashboard_cache, and the next
\* project.
TurnEnds ==
    /\ writing # NoProject
    /\ rest = {}
    /\ writing' = NoProject
    /\ UNCHANGED <<sender, waiters, permits, channel, batch, lastFlush, worker,
                   drained, rest, rows, lost, crashes>>

FlushEnd ==
    /\ worker = "flush"
    /\ writing = NoProject
    /\ drained = {}
    /\ worker' = "recv"
    /\ lastFlush' = "recent"
    /\ UNCHANGED <<sender, waiters, permits, channel, batch, drained, writing, rest,
                   rows, lost, crashes>>

-----------------------------------------------------------------------------
\* What a flush has still to write
InFlush == rest \cup drained
InMemory == ToSet(channel) \cup ToSet(batch) \cup InFlush

\* The process dies and starts again with empty channels and caches.  Rows
\* written so far were committed one by one and stay.
Crash ==
    /\ crashes < MaxCrashes
    /\ crashes' = crashes + 1
    /\ sender' = [s \in Sessions |-> IF sender[s] \in {"waiting", "granted"}
                                      THEN "cut" ELSE sender[s]]
    /\ waiters' = <<>>
    /\ permits' = ChannelCapacity
    /\ channel' = <<>>
    /\ batch' = <<>>
    /\ lastFlush' = "recent"
    /\ worker' = "recv"
    /\ drained' = {}
    /\ writing' = NoProject
    /\ rest' = {}
    /\ lost' = lost \cup InMemory
    /\ UNCHANGED rows

-----------------------------------------------------------------------------
WorkerStep ==
    \/ SessionReceive
    \/ SessionTimeout
    \/ \E p \in Projects : FlushOpen(p)
    \/ FlushRow
    \/ TurnEnds
    \/ FlushEnd

Next ==
    \/ \E s \in Sessions :
          Send(s) \/ SendResumes(s) \/ SendDropped(s) \/ NextRequest(s)
    \/ WorkerStep
    \/ IntervalElapses
    \/ Crash

Spec == Init /\ [][Next]_vars

\* tokio polls the worker and every sender it has given a permit to, and time
\* passes.  No client has to call, to stop calling, or to hang up.
FairSpec ==
    /\ Spec
    /\ WF_vars(WorkerStep)
    /\ \A s \in Sessions : WF_vars(SendResumes(s))
    /\ WF_vars(IntervalElapses)

-----------------------------------------------------------------------------
(* Safety                                                                  *)

\* A record handed over is in one place, and once: the channel, the batch, the
\* flush, the table, or lost.  A sender that has not put it there keeps its own.
SessionsAccounted ==
    /\ \A s \in Sessions :
          /\ sender[s] = "sent" <=> s \in InMemory \cup rows \cup lost
          /\ sender[s] = "waiting" <=> s \in ToSet(waiters)
    /\ InMemory \cap (rows \cup lost) = {}
    /\ rows \cap lost = {}
    /\ ToSet(channel) \cap ToSet(batch) = {}
    /\ InFlush \cap (ToSet(channel) \cup ToSet(batch)) = {}
    /\ IsInjective(waiters) /\ IsInjective(channel) /\ IsInjective(batch)

\* The records being written are those of the project whose turn it is, and
\* that turn will not come again.
TurnRule ==
    /\ \A s \in rest : ProjectOf[s] = writing
    /\ \A s \in drained : ProjectOf[s] # writing

\* No permit is made up or lost, by a sender that is cancelled with one in hand
\* either, and nobody waits while there is one to be had.
PermitRule ==
    /\ IsFiniteSet(Granted)
    /\ permits + Cardinality(Granted) + Len(channel) = ChannelCapacity
    /\ waiters # <<>> => permits = 0

\* Backpressure bounds memory: beside the channel, which keeps to its capacity,
\* there is a batch below its size, or a flush of at most one batch.
SessionsBounded ==
    /\ Len(batch) < BatchSize
    /\ IsFiniteSet(InFlush) /\ Cardinality(InFlush) <= BatchSize

\* Accounting and bounds hold together, in well-typed states: no cancelled
\* sender, failed flush or crash duplicates a record, loses track of one,
\* narrows the channel, or lets the worker hold more than it should.
SessionInv ==
    TypeOK /\ SessionsAccounted /\ TurnRule /\ PermitRule /\ SessionsBounded

-----------------------------------------------------------------------------
(* Liveness, under FairSpec                                                *)

\* A handler waiting in send() gets through, or is cut off by its client or a
\* crash: the session channel never blocks ingestion for good.
SendReturns ==
    \A s \in Sessions :
        (sender[s] = "waiting") ~> (sender[s] \notin {"waiting", "granted"})

\* A record handed over is written or lost even if traffic never pauses for
\* the 500 ms after which the worker looks at the age of its batch.
SessionsDrain ==
    \A s \in Sessions :
        (sender[s] = "sent") ~> (sender[s] # "sent" \/ s \in rows \cup lost)
=============================================================================
