--------------------------- MODULE IngestPipeline ---------------------------
(***************************************************************************)
(* The ingestion path: the two public endpoints (sentry_envelope and       *)
(* posthog_capture), the bounded channel they fill, and the background      *)
(* worker that drains the channel, batches, and flushes to the project     *)
(* databases.                                                              *)
(*                                                                         *)
(* A request is one HTTP call.  An event is a pair <<request, index>>: an  *)
(* envelope carries no event (a session heartbeat) or one (an error        *)
(* report), a capture call carries a batch.  What an event contains does   *)
(* not matter here (IssueStore models what a flush writes); what matters   *)
(* is where each event is, and what its client has been told.              *)
(*                                                                         *)
(* The limiters and validations in front of the handlers appear as a       *)
(* nondeterministic verdict (RateLimits models the limiters).              *)
(***************************************************************************)
EXTENDS Integers, Sequences, FiniteSets

CONSTANTS
    Envelopes,          \* POST /api/:project/envelope/ requests
    Captures,           \* POST /capture/ requests
    Projects,
    UserFps,            \* "fingerprint-user" keys of stack_cache
    ProjectOf,          \* the project a request reports to
    UserFpOf,           \* the stack_cache key of a request's events
    ItemCount,          \* how many events a request carries
    ChannelCapacity,    \* INGEST_CHANNEL_CAPACITY
    BatchSize,          \* effective batch size, batch_size.max(500)
    ThrottleLimit,      \* 50 in the code
    MaxCrashes          \* bound on the number of process crashes

Requests == Envelopes \cup Captures

ASSUME RequestAssumption ==
    /\ IsFiniteSet(Envelopes)
    /\ IsFiniteSet(Captures)
    /\ Envelopes \cap Captures = {}
    /\ ProjectOf \in [Requests -> Projects]
    /\ UserFpOf \in [Requests -> UserFps]
    /\ ItemCount \in [Requests -> Nat]
    /\ \A r \in Envelopes : ItemCount[r] \in {0, 1}

ASSUME SizeAssumption ==
    /\ ChannelCapacity \in Nat \ {0}
    /\ BatchSize \in Nat \ {0}
    /\ ThrottleLimit \in Nat
    /\ MaxCrashes \in Nat

Events == UNION {{r} \X (1 .. ItemCount[r]) : r \in Requests}

EventProject(e) == ProjectOf[e[1]]

VARIABLES
    stage,          \* where each request's handler stands
    answer,         \* what the client of each request has been told
    item,           \* index of the event a handler is working on
    current,        \* current_count, as a handler read it from stack_cache
    stackCache,     \* AppState.stack_cache
    channel,        \* ingest_tx / rx
    batch,          \* the ingestion worker's Vec
    flushing,       \* the drained batch during flush_batch
    todo,           \* projects of the drained batch still to be written
    worker,         \* where the ingestion worker stands in its loop
    lastFlush,      \* last_flush: "recent", or "overdue" after the interval
    metrics,        \* IngestionPerformanceMetrics
    stored,         \* events committed to a project database
    crashes,        \* number of crashes so far
    throttled,      \* history: events answered 200 without being enqueued
    lost,           \* history: enqueued events that will never be stored
    ticket,         \* history: order in which try_send took the events
    clock           \* history: number of events try_send has taken

handlerVars == <<stage, answer, item, current, stackCache>>
workerVars  == <<batch, flushing, todo, worker, lastFlush>>
historyVars == <<throttled, lost, ticket, clock>>
vars == <<handlerVars, channel, workerVars, metrics, stored,
          crashes, historyVars>>

-----------------------------------------------------------------------------
Stages == {"new", "received", "session", "loop", "throttle", "enqueue",
           "queued", "full", "answered", "cut", "gone"}
\* A handler is running in these stages.
Running == Stages \ {"new", "answered", "cut", "gone"}
\* "iplimit" is the 429 of the per-address limiter, "limited" the 429 of the
\* 10 minute and daily limiters, "full" the 429 of a full channel, "refused"
\* any other error answer; "reset" is a connection cut by the client or a crash.
Answers == {"none", "ok", "refused", "iplimit", "limited", "full", "reset"}
ErrorAnswers == {"refused", "iplimit", "limited", "full"}
WorkerStages == {"recv", "fill", "check", "flush"}
Counters == {"received", "processed", "dropped", "rateLimited",
             "flushOk", "flushFailed"}

Bump(c) == metrics' = [metrics EXCEPT ![c] = @ + 1]
Goto(r, s) == stage' = [stage EXCEPT ![r] = s]
Reply(r, a) ==
    /\ stage' = [stage EXCEPT ![r] = "answered"]
    /\ answer' = [answer EXCEPT ![r] = a]

Elements(s) == {s[i] : i \in 1 .. Len(s)}

TypeOK ==
    /\ stage \in [Requests -> Stages]
    /\ answer \in [Requests -> Answers]
    /\ item \in [Requests -> Nat]
    /\ current \in [Requests -> Nat]
    /\ stackCache \in [UserFps -> Nat]
    /\ channel \in Seq(Events)
    /\ batch \in Seq(Events)
    /\ flushing \in Seq(Events)
    /\ todo \in SUBSET Projects
    /\ worker \in WorkerStages
    /\ lastFlush \in {"recent", "overdue"}
    /\ metrics \in [Counters -> Nat]
    /\ stored \in SUBSET Events
    /\ crashes \in 0 .. MaxCrashes
    /\ throttled \in SUBSET Events
    /\ lost \in SUBSET Events
    /\ ticket \in [Events -> Nat]
    /\ clock \in Nat

Init ==
    /\ stage = [r \in Requests |-> "new"]
    /\ answer = [r \in Requests |-> "none"]
    /\ item = [r \in Requests |-> 1]
    /\ current = [r \in Requests |-> 0]
    /\ stackCache = [u \in UserFps |-> 0]
    /\ channel = <<>>
    /\ batch = <<>>
    /\ flushing = <<>>
    /\ todo = {}
    /\ worker = "recv"
    /\ lastFlush = "recent"
    /\ metrics = [c \in Counters |-> 0]
    /\ stored = {}
    /\ crashes = 0
    /\ throttled = {}
    /\ lost = {}
    /\ ticket = [e \in Events |-> 0]
    /\ clock = 0

-----------------------------------------------------------------------------
(* sentry_envelope                                                         *)

\* total_received is bumped before anything is looked at.
EnvelopeReceive(r) ==
    /\ stage[r] = "new"
    /\ Goto(r, "received")
    /\ Bump("received")
    /\ UNCHANGED <<answer, item, current, stackCache, channel, workerVars,
                   stored, crashes, historyVars>>

\* The early returns, in the order of the code: what the client is told, and the
\* counter each bumps on its own.
Refusal == [
    ipLimit        |-> [answer |-> "iplimit", counter |-> "rateLimited"],
    noConnection   |-> [answer |-> "refused", counter |-> "dropped"],
    noProject      |-> [answer |-> "refused", counter |-> "dropped"],
    wrongKey       |-> [answer |-> "refused", counter |-> "dropped"],
    emptyBody      |-> [answer |-> "refused", counter |-> "dropped"],
    tooManyLines   |-> [answer |-> "refused", counter |-> "dropped"],
    lineTooLong    |-> [answer |-> "refused", counter |-> "dropped"],
    limits         |-> [answer |-> "limited", counter |-> "rateLimited"],
    nothingToStore |-> [answer |-> "refused", counter |-> "dropped"]]

\* Mutant: one of the early returns forgets its counter.
EnvelopeVerdictForgets(r) ==
    /\ stage[r] = "received"
    /\ \/ \E why \in DOMAIN Refusal \ {"lineTooLong"} :
             Reply(r, Refusal[why].answer) /\ Bump(Refusal[why].counter)
       \/ Reply(r, Refusal.lineTooLong.answer) /\ UNCHANGED metrics
       \/ Goto(r, "session") /\ UNCHANGED <<answer, metrics>>
    /\ UNCHANGED <<item, current, stackCache, channel, workerVars,
                   stored, crashes, historyVars>>

\* The request is refused for one of these reasons, or goes on.
EnvelopeVerdict(r) ==
    /\ stage[r] = "received"
    /\ \/ \E why \in DOMAIN Refusal :
             Reply(r, Refusal[why].answer) /\ Bump(Refusal[why].counter)
       \/ Goto(r, "session") /\ UNCHANGED <<answer, metrics>>
    /\ UNCHANGED <<item, current, stackCache, channel, workerVars,
                   stored, crashes, historyVars>>

\* session_tx.send(..).await returns once the session channel has room, which
\* SessionPipeline shows it always has again; a heartbeat is answered here.
EnvelopeSession(r) ==
    /\ stage[r] = "session"
    /\ \/ ItemCount[r] = 0 /\ Reply(r, "ok") /\ Bump("processed")
       \/ ItemCount[r] > 0 /\ Goto(r, "throttle") /\ UNCHANGED <<answer, metrics>>
    /\ UNCHANGED <<item, current, stackCache, channel, workerVars, stored,
                   crashes, historyVars>>

\* Mutant: the 200 of a throttled event is not counted.
EnvelopeThrottleUncounted(r) ==
    /\ stage[r] = "throttle"
    /\ \/ /\ stackCache[UserFpOf[r]] > ThrottleLimit
          /\ Reply(r, "ok")
          /\ throttled' = throttled \cup {<<r, 1>>}
          /\ UNCHANGED current
       \/ /\ stackCache[UserFpOf[r]] <= ThrottleLimit
          /\ current' = [current EXCEPT ![r] = stackCache[UserFpOf[r]]]
          /\ Goto(r, "enqueue")
          /\ UNCHANGED <<answer, throttled>>
    /\ UNCHANGED <<item, stackCache, channel, workerVars, metrics, stored,
                   crashes, lost, ticket, clock>>

\* stack_cache.get: more than ThrottleLimit is answered 200 and forgotten.
EnvelopeThrottle(r) ==
    /\ stage[r] = "throttle"
    /\ \/ /\ stackCache[UserFpOf[r]] > ThrottleLimit
          /\ Reply(r, "ok")
          /\ Bump("processed")
          /\ throttled' = throttled \cup {<<r, 1>>}
          /\ UNCHANGED current
       \/ /\ stackCache[UserFpOf[r]] <= ThrottleLimit
          /\ current' = [current EXCEPT ![r] = stackCache[UserFpOf[r]]]
          /\ Goto(r, "enqueue")
          /\ UNCHANGED <<answer, metrics, throttled>>
    /\ UNCHANGED <<item, stackCache, channel, workerVars, stored,
                   crashes, lost, ticket, clock>>

\* stack_cache.insert with the count read earlier.
CountOccurrence(r) ==
    stackCache' = [stackCache EXCEPT ![UserFpOf[r]] = current[r] + 1]

HasRoom == Len(channel) < ChannelCapacity

\* ingest_tx.try_send(event) = Ok
Enqueue(e) ==
    /\ HasRoom
    /\ channel' = Append(channel, e)
    /\ clock' = clock + 1
    /\ ticket' = [ticket EXCEPT ![e] = clock + 1]

EnvelopeEnqueue(r) ==
    /\ stage[r] = "enqueue"
    /\ CountOccurrence(r)
    /\ \/ /\ Enqueue(<<r, 1>>)
          /\ Goto(r, "queued")
       \/ /\ ~HasRoom
          /\ Goto(r, "full")
          /\ UNCHANGED <<channel, ticket, clock>>
    /\ UNCHANGED <<answer, item, current, workerVars, metrics,
                   stored, crashes, throttled, lost>>

\* Mutant: a full channel is answered 200.
EnvelopeReplyAlwaysOk(r) ==
    /\ stage[r] \in {"queued", "full"} /\ Reply(r, "ok") /\ Bump("processed")
    /\ UNCHANGED <<item, current, stackCache, channel, workerVars,
                   stored, crashes, historyVars>>

\* Mutant: nobody answers for a full channel.
EnvelopeReplyOnlyQueued(r) ==
    /\ stage[r] = "queued" /\ Reply(r, "ok") /\ Bump("processed")
    /\ UNCHANGED <<item, current, stackCache, channel, workerVars,
                   stored, crashes, historyVars>>

EnvelopeReply(r) ==
    /\ \/ stage[r] = "queued" /\ Reply(r, "ok") /\ Bump("processed")
       \/ stage[r] = "full" /\ Reply(r, "full") /\ Bump("dropped")
    /\ UNCHANGED <<item, current, stackCache, channel, workerVars,
                   stored, crashes, historyVars>>

-----------------------------------------------------------------------------
(* posthog_capture                                                         *)

CaptureReceive(r) ==
    /\ stage[r] = "new"
    /\ \/ Reply(r, "iplimit") /\ Bump("rateLimited")
       \/ Reply(r, "refused") /\ UNCHANGED metrics
       \/ Goto(r, "loop") /\ UNCHANGED <<answer, metrics>>
    /\ UNCHANGED <<item, current, stackCache, channel, workerVars,
                   stored, crashes, historyVars>>

MoreItems(r) == item[r] <= ItemCount[r]

\* One round of the loop up to stack_cache.get: the limiters may refuse the
\* rest of the batch, a throttled event is skipped.
CaptureItem(r) ==
    /\ stage[r] = "loop"
    /\ MoreItems(r)
    /\ \/ /\ Reply(r, "limited")
          /\ UNCHANGED <<item, current, throttled>>
       \/ /\ stackCache[UserFpOf[r]] > ThrottleLimit
          /\ throttled' = throttled \cup {<<r, item[r]>>}
          /\ item' = [item EXCEPT ![r] = @ + 1]
          /\ UNCHANGED <<stage, answer, current>>
       \/ /\ stackCache[UserFpOf[r]] <= ThrottleLimit
          /\ current' = [current EXCEPT ![r] = stackCache[UserFpOf[r]]]
          /\ Goto(r, "enqueue")
          /\ UNCHANGED <<answer, item, throttled>>
    /\ UNCHANGED <<stackCache, channel, workerVars, metrics,
                   stored, crashes, lost, ticket, clock>>

\* Mutant: an event the full channel refuses is skipped, and the batch goes on.
CaptureEnqueueSkips(r) ==
    /\ stage[r] = "enqueue"
    /\ CountOccurrence(r)
    /\ Enqueue(<<r, item[r]>>) \/ (~HasRoom /\ UNCHANGED <<channel, ticket, clock>>)
    /\ item' = [item EXCEPT ![r] = @ + 1]
    /\ Goto(r, "loop")
    /\ UNCHANGED <<answer, current, workerVars, metrics, stored, crashes,
                   throttled, lost>>

\* A full channel ends the call with a 429, after earlier events of the same
\* batch have been taken.
CaptureEnqueue(r) ==
    /\ stage[r] = "enqueue"
    /\ CountOccurrence(r)
    /\ \/ /\ Enqueue(<<r, item[r]>>)
          /\ item' = [item EXCEPT ![r] = @ + 1]
          /\ Goto(r, "loop")
          /\ UNCHANGED answer
       \/ /\ ~HasRoom
          /\ Reply(r, "full")
          /\ UNCHANGED <<item, channel, ticket, clock>>
    /\ UNCHANGED <<current, workerVars, metrics, stored, crashes,
                   throttled, lost>>

CaptureDone(r) ==
    /\ stage[r] = "loop"
    /\ ~MoreItems(r)
    /\ Reply(r, "ok")
    /\ UNCHANGED <<item, current, stackCache, channel, workerVars,
                   metrics, stored, crashes, historyVars>>

\* Mutant: the handler runs on after its client has gone.
DisconnectRunsOn(r) ==
    /\ stage[r] \in {"received", "session"} \/ (stage[r] = "loop" /\ MoreItems(r))
    /\ answer' = [answer EXCEPT ![r] = "reset"]
    /\ UNCHANGED <<stage, item, current, stackCache, channel, workerVars,
                   metrics, stored, crashes, historyVars>>

\* The client closes the connection while the handler is suspended at an
\* .await, of a limiter's cache or of the session channel: its future is
\* dropped, and nothing after that line runs.
Disconnect(r) ==
    /\ stage[r] \in {"received", "session"} \/ (stage[r] = "loop" /\ MoreItems(r))
    /\ stage' = [stage EXCEPT ![r] = "cut"]
    /\ answer' = [answer EXCEPT ![r] = "reset"]
    /\ UNCHANGED <<item, current, stackCache, channel, workerVars, metrics,
                   stored, crashes, historyVars>>

\* An entry of stack_cache expires (time_to_live of one hour).
ThrottleExpires(u) ==
    /\ stackCache[u] # 0
    /\ stackCache' = [stackCache EXCEPT ![u] = 0]
    /\ UNCHANGED <<stage, answer, item, current, channel, workerVars,
                   metrics, stored, crashes, historyVars>>

-----------------------------------------------------------------------------
(* ingestion_worker and flush_batch                                        *)

WorkerTake ==
    /\ channel # <<>>
    /\ batch' = Append(batch, Head(channel))
    /\ channel' = Tail(channel)

\* rx.recv() yields an event ...
WorkerReceive ==
    /\ worker = "recv"
    /\ WorkerTake
    /\ worker' = "fill"
    /\ UNCHANGED <<handlerVars, flushing, todo, lastFlush, metrics,
                   stored, crashes, historyVars>>

\* ... and try_recv tops the batch up while it is short.
WorkerFill ==
    /\ worker = "fill"
    /\ Len(batch) < BatchSize
    /\ WorkerTake
    /\ UNCHANGED <<handlerVars, worker, flushing, todo, lastFlush,
                   metrics, stored, crashes, historyVars>>

\* The batch is full, try_recv finds nothing, or recv timed out (200 ms).
WorkerCheck ==
    /\ \/ worker = "fill" /\ (Len(batch) >= BatchSize \/ channel = <<>>)
       \/ worker = "recv" /\ channel = <<>>
    /\ worker' = "check"
    /\ UNCHANGED <<handlerVars, channel, batch, flushing, todo, lastFlush,
                   metrics, stored, crashes, historyVars>>

\* Mutant: only a full batch is flushed.
ShouldFlushFull == Len(batch) >= BatchSize

ShouldFlush == Len(batch) >= BatchSize \/ (batch # <<>> /\ lastFlush = "overdue")

WorkerLoop ==
    /\ worker = "check"
    /\ ~ShouldFlush
    /\ worker' = "recv"
    /\ UNCHANGED <<handlerVars, channel, batch, flushing, todo, lastFlush,
                   metrics, stored, crashes, historyVars>>

\* Mutant: the batch is copied, and not drained.
FlushBeginCopies ==
    /\ worker = "check"
    /\ ShouldFlush
    /\ flushing' = batch
    /\ todo' = {EventProject(e) : e \in Elements(batch)}
    /\ worker' = "flush"
    /\ UNCHANGED <<handlerVars, channel, batch, lastFlush, metrics, stored,
                   crashes, historyVars>>

\* batch.drain(..), grouped by project
FlushBegin ==
    /\ worker = "check"
    /\ ShouldFlush
    /\ flushing' = batch
    /\ todo' = {EventProject(e) : e \in Elements(batch)}
    /\ batch' = <<>>
    /\ worker' = "flush"
    /\ UNCHANGED <<handlerVars, channel, lastFlush, metrics, stored,
                   crashes, historyVars>>

Group(p) == {e \in Elements(flushing) : EventProject(e) = p}

\* Mutant: the events of a failed transaction are queued again.
FlushProjectRetries(p) ==
    /\ worker = "flush"
    /\ p \in todo
    /\ todo' = todo \ {p}
    /\ \/ /\ stored' = stored \cup Group(p)
          /\ Bump("flushOk")
          /\ UNCHANGED channel
       \/ /\ channel' = channel \o SelectSeq(flushing, LAMBDA e : EventProject(e) = p)
          /\ Bump("flushFailed")
          /\ UNCHANGED stored
    /\ UNCHANGED <<handlerVars, batch, flushing, worker, lastFlush, lost,
                   crashes, throttled, ticket, clock>>

\* One project's events go into one transaction.  A missing pool, connection
\* or transaction, a failed statement or a failed commit loses all of them.
FlushProject(p) ==
    /\ worker = "flush"
    /\ p \in todo
    /\ todo' = todo \ {p}
    /\ \/ stored' = stored \cup Group(p) /\ Bump("flushOk") /\ UNCHANGED lost
       \/ lost' = lost \cup Group(p) /\ Bump("flushFailed") /\ UNCHANGED stored
    /\ UNCHANGED <<handlerVars, channel, batch, flushing, worker, lastFlush,
                   crashes, throttled, ticket, clock>>

\* Mutant: the flushed events are kept.
FlushEndKeeps ==
    /\ worker = "flush"
    /\ todo = {}
    /\ worker' = "recv"
    /\ lastFlush' = "recent"
    /\ UNCHANGED <<handlerVars, channel, batch, flushing, todo, metrics,
                   stored, crashes, historyVars>>

FlushEnd ==
    /\ worker = "flush"
    /\ todo = {}
    /\ flushing' = <<>>
    /\ worker' = "recv"
    /\ lastFlush' = "recent"
    /\ UNCHANGED <<handlerVars, channel, batch, todo, metrics,
                   stored, crashes, historyVars>>

\* batch_interval_secs have passed since last_flush.
IntervalElapses ==
    /\ lastFlush = "recent"
    /\ lastFlush' = "overdue"
    /\ UNCHANGED <<handlerVars, channel, batch, flushing, todo, worker,
                   metrics, stored, crashes, historyVars>>

-----------------------------------------------------------------------------
\* Events the server holds in memory only.
Pending == {e \in Elements(flushing) : EventProject(e) \in todo}
InMemory == Elements(channel) \cup Elements(batch) \cup Pending

\* The process is killed and started again: main spawns fresh workers over
\* empty channels, empty caches and zeroed metrics.  SQLite rolls an open
\* transaction back; what was committed stays.
Crash ==
    /\ crashes < MaxCrashes
    /\ crashes' = crashes + 1
    /\ stage' = [r \in Requests |-> IF stage[r] = "new" THEN "new" ELSE "gone"]
    /\ answer' = [r \in Requests |->
                    IF stage[r] \in Running THEN "reset" ELSE answer[r]]
    /\ stackCache' = [u \in UserFps |-> 0]
    /\ channel' = <<>>
    /\ batch' = <<>>
    /\ flushing' = <<>>
    /\ todo' = {}
    /\ worker' = "recv"
    /\ lastFlush' = "recent"
    /\ metrics' = [c \in Counters |-> 0]
    /\ lost' = lost \cup InMemory
    /\ UNCHANGED <<item, current, stored, throttled, ticket, clock>>

-----------------------------------------------------------------------------
EnvelopeStep(r) ==
    \/ EnvelopeVerdict(r)
    \/ EnvelopeSession(r)
    \/ EnvelopeThrottle(r)
    \/ EnvelopeEnqueue(r)
    \/ EnvelopeReply(r)

CaptureStep(r) ==
    \/ CaptureItem(r)
    \/ CaptureEnqueue(r)
    \/ CaptureDone(r)

WorkerStep ==
    \/ WorkerReceive
    \/ WorkerFill
    \/ WorkerCheck
    \/ WorkerLoop
    \/ FlushBegin
    \/ \E p \in Projects : FlushProject(p)
    \/ FlushEnd

Next ==
    \/ \E r \in Envelopes : EnvelopeReceive(r) \/ EnvelopeStep(r)
    \/ \E r \in Captures : CaptureReceive(r) \/ CaptureStep(r)
    \/ \E r \in Requests : Disconnect(r)
    \/ \E u \in UserFps : ThrottleExpires(u)
    \/ WorkerStep
    \/ IntervalElapses
    \/ Crash

Spec == Init /\ [][Next]_vars

\* tokio keeps polling the handlers of accepted requests and both workers,
\* and time passes.  Nothing obliges a client to call or to hang up, an
\* entry of the throttle to expire, or the process to crash.
Fairness ==
    /\ \A r \in Envelopes : WF_vars(EnvelopeStep(r))
    /\ \A r \in Captures : WF_vars(CaptureStep(r))
    /\ WF_vars(WorkerStep)
    /\ WF_vars(IntervalElapses)

FairSpec == Spec /\ Fairness

-----------------------------------------------------------------------------
(* Safety                                                                  *)

Taken(e) == ticket[e] # 0

\* Memory stays bounded whatever the clients do: the channel does not outgrow
\* its capacity, and the worker, which adds to its batch in two places and may
\* carry it over many rounds of the loop, not its batch size.
BuffersBounded ==
    /\ Len(channel) <= ChannelCapacity
    /\ Len(batch) <= BatchSize
    /\ Len(flushing) <= BatchSize

\* The counters of IngestionPerformanceMetrics add up: every envelope received
\* since boot is counted processed, dropped or rate limited exactly once, is
\* still being handled, or was cut off by its client.  total_rate_limited also
\* counts the capture calls the address limiter refuses, total_received does not.
MetricsBalance ==
    metrics["received"] +
        Cardinality({r \in Captures : stage[r] = "answered" /\ answer[r] = "iplimit"})
  = metrics["processed"] + metrics["dropped"] + metrics["rateLimited"] +
        Cardinality({r \in Envelopes : stage[r] \in Running \cup {"cut"}})

\* Each event try_send took is in exactly one place, and once: waiting in the
\* channel, in the batch, in the unfinished part of a flush, committed, or lost.
Distinct(s) == \A i, j \in 1 .. Len(s) : s[i] = s[j] => i = j
EventsAccounted ==
    /\ Distinct(channel) /\ Distinct(batch) /\ Distinct(flushing)
    /\ \A e \in Events :
          Taken(e) <=> \/ e \in InMemory
                       \/ e \in stored
                       \/ e \in lost
    /\ Elements(channel) \cap Elements(batch) = {}
    /\ (Elements(channel) \cup Elements(batch)) \cap Elements(flushing) = {}
    /\ InMemory \cap (stored \cup lost) = {}
    /\ stored \cap lost = {}
    /\ throttled \cap (stored \cup lost \cup InMemory) = {}

EventsOfRequest(r) == {r} \X (1 .. ItemCount[r])

\* A 200 never hides a refused event: every event of a request answered "ok"
\* was taken by the channel or was deliberately throttled.
OkMeansTaken ==
    \A r \in Requests : answer[r] = "ok" =>
        \A e \in EventsOfRequest(r) : Taken(e) \/ e \in throttled

\* An error answer cuts a request at a definite point: the events before it
\* were taken or throttled, the events from it on were not and never will be.
\* For an envelope this means that nothing of it is kept.
ErrorMeansPrefix ==
    \A r \in Requests : answer[r] \in ErrorAnswers =>
        /\ answer[r] = "full" => item[r] <= ItemCount[r]
        /\ \A i \in 1 .. ItemCount[r] :
              (Taken(<<r, i>>) \/ <<r, i>> \in throttled) <=> i < item[r]

\* Flushes keep the order in which the channel took the events: what a commit
\* adds to a project is younger than everything the project already holds.
StoresInOrder ==
    [][\A e \in stored' \ stored, d \in stored :
          EventProject(d) = EventProject(e) => ticket[d] < ticket[e]]_vars

-----------------------------------------------------------------------------
(* The inductive strengthening of the invariants above                     *)

\* Where a handler stands determines how far it is in its request.
StageInv ==
    /\ \A r \in Envelopes :
          /\ stage[r] # "loop"
          /\ item[r] = 1
          /\ stage[r] \in {"throttle", "enqueue", "queued", "full"} => ItemCount[r] = 1
    /\ \A r \in Captures :
          /\ stage[r] \in {"new", "loop", "enqueue", "answered", "cut", "gone"}
          /\ item[r] \in 1 .. ItemCount[r] + 1
          /\ stage[r] = "new" => item[r] = 1
          /\ stage[r] = "enqueue" => item[r] <= ItemCount[r]

\* The client has an answer exactly when the handler has ended, and the answer
\* says how far the handler came.
AnswerRule(r) ==
    /\ answer[r] = "none" <=> stage[r] \in Running \cup {"new"}
    /\ answer[r] = "reset" => stage[r] \in {"cut", "gone"}
    /\ answer[r] = "full" => item[r] <= ItemCount[r]
    /\ r \in Captures /\ answer[r] = "ok" => item[r] = ItemCount[r] + 1

\* What a handler has done with the events of its request so far.
Handled(e) == Taken(e) \/ e \in throttled
ProgressRule(r) ==
    /\ r \in Captures =>
          \A i \in 1 .. ItemCount[r] : Handled(<<r, i>>) <=> i < item[r]
    /\ r \in Envelopes /\ ItemCount[r] = 1 =>
          /\ stage[r] = "queued" \/ answer[r] = "ok" => Handled(<<r, 1>>)
          /\ stage[r] # "queued" /\ answer[r] \notin {"ok", "reset"} =>
                ~Handled(<<r, 1>>)

RequestInv == \A r \in Requests : AnswerRule(r) /\ ProgressRule(r)

\* Tickets are handed out in order, and each stretch of the pipeline holds
\* younger events than the stretches after it.
Sorted(s) == \A i, j \in 1 .. Len(s) : i < j => ticket[s[i]] < ticket[s[j]]
Older(S, T) == \A d \in S, e \in T : ticket[d] < ticket[e]
OrderInv ==
    /\ \A e \in Events : ticket[e] <= clock
    /\ Sorted(channel) /\ Sorted(batch) /\ Sorted(flushing)
    /\ Older(Elements(batch), Elements(channel))
    /\ Older(Elements(flushing), Elements(batch) \cup Elements(channel))
    /\ Older(stored, Elements(batch) \cup Elements(channel))
    /\ \A d \in stored, e \in Pending :
          EventProject(d) = EventProject(e) => ticket[d] < ticket[e]

\* The worker takes an event only while its batch has room.
RoomInv ==
    /\ BuffersBounded
    /\ worker = "recv" => Len(batch) < BatchSize
    /\ worker = "flush" => batch = <<>>

\* A drained batch exists only during a flush, and the events of the projects
\* already written are settled.
FlushInv ==
    /\ worker # "flush" => flushing = <<>> /\ todo = {}
    /\ \A e \in Elements(flushing) :
          EventProject(e) \notin todo => e \in stored \cup lost

IInv ==
    /\ TypeOK
    /\ StageInv
    /\ RequestInv
    /\ RoomInv
    /\ FlushInv
    /\ EventsAccounted
    /\ OrderInv
    /\ MetricsBalance

-----------------------------------------------------------------------------
(* Liveness, under FairSpec                                                *)

\* An event the channel took does not linger: it is committed, or lost with
\* a failed flush or a crash.
TakenIsSettled ==
    \A e \in Events : Taken(e) ~> (e \in stored \/ e \in lost)

\* Every request that reached a handler is answered, unless a crash cuts it.
RequestIsAnswered ==
    \A r \in Requests : (stage[r] \in Running) ~> (answer[r] # "none")

-----------------------------------------------------------------------------
(* Refinement                                                              *)

StatusOf(e) ==
    IF e \in stored THEN "stored"
    ELSE IF e \in lost THEN "lost"
    ELSE IF e \in throttled THEN "skipped"
    ELSE IF Taken(e) THEN "queued"
    ELSE "unsent"

VerdictOf(r) ==
    IF answer[r] \in ErrorAnswers THEN "error" ELSE answer[r]

Delivery == INSTANCE EventDelivery WITH
    Owners <- Requests,
    OwnerOf <- [e \in Events |-> e[1]],
    status <- [e \in Events |-> StatusOf(e)],
    verdict <- [r \in Requests |-> VerdictOf(r)]

\* The pipeline keeps the promise of EventDelivery: at most one fate per
\* event, settled in groups, and no event taken after its client was answered.
RefinesDelivery == Delivery!DeliverySpec
=============================================================================
