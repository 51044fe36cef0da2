----------------------------- MODULE RateLimits -----------------------------
(***************************************************************************)
(* The limiters in front of the ingestion endpoints, for one client        *)
(* address and one project: ip_rate_limit, ingest_rate_limit_10m and       *)
(* ingest_rate_limit_day.                                                  *)
(*                                                                         *)
(* Each limiter is a moka cache read with get().await and written back     *)
(* with insert().await; nothing makes the two one step, so calls of the    *)
(* same client overwrite each other's counts.  Time is discrete, and kept  *)
(* as ages and times to live, so that it may go on for ever.               *)
(*                                                                         *)
(* A call is an envelope or a capture request.  The address limiter counts *)
(* calls; the other two count an envelope, and each event of a capture     *)
(* batch, which goes on as long as its events are allowed.  IngestPipeline *)
(* has these limiters as refusals of a request.                            *)
(***************************************************************************)
EXTENDS Integers, FiniteSets

CONSTANTS
    Calls,          \* calls a client has in flight
    Sizes,          \* what payload_len may be
    IpLimit,        \* 100 requests ...
    IpWindow,       \* ... in 60 seconds
    TenLimit,       \* 5 issues ...
    TenBytes,       \* ... and 200 kB ...
    TenWindow,      \* ... in 10 minutes, the time_to_live of the cache
    DayLimit,       \* 10 issues ...
    DayWindow       \* ... in 24 hours

ASSUME LimitAssumption ==
    /\ IsFiniteSet(Calls)
    /\ {IpLimit, TenLimit, DayLimit} \subseteq Nat \ {0}
    /\ {IpWindow, TenWindow, DayWindow} \subseteq Nat \ {0}
    /\ TenBytes \in Nat
    /\ Sizes \subseteq Nat

VARIABLES
    ip,         \* ip_rate_limit: requests counted, and the age of the window
    ten,        \* ingest_rate_limit_10m: count, bytes, and time left to live
    day,        \* ingest_rate_limit_day: count, and time left to live
    stage,      \* where each call stands
    seen,       \* the entry a call has read, and not yet written back
    allow,      \* the local "allow" of a call
    passed,     \* history: calls that passed ip, by age
    granted,    \* history: events the 10 minute limiter let through, by age
    admitted    \* history: events that passed everything, by age

limiters == <<ip, ten, day>>
calls == <<stage, seen, allow>>
history == <<passed, granted, admitted>>
limitVars == <<limiters, calls, history>>

Stages == {"idle", "ip", "ipPut", "ten", "tenPut", "day", "dayPut"}
Least(a, b) == IF a <= b THEN a ELSE b
Nothing == [count |-> 0, bytes |-> 0, age |-> 0]

\* The age beyond which a window of ip_rate_limit is over; the eviction times
\* of that cache, 10 minutes idle and one hour, are longer and change nothing.
Over == IpWindow + 1

\* How many of h are younger than each age up to width.
Younger(h, width) ==
    LET sum[n \in 0 .. width] == IF n = 0 THEN 0 ELSE sum[n - 1] + h[n - 1]
    IN  sum
InLast(width, h) == Younger(h, width)[width]

LimitTypeOK ==
    /\ ip \in [count : 0 .. IpLimit + 1, age : 0 .. Over]
    /\ ten \in [count : 0 .. TenLimit, bytes : 0 .. TenBytes, left : 0 .. TenWindow]
    /\ day \in [count : 0 .. DayLimit, left : 0 .. DayWindow]
    /\ stage \in [Calls -> Stages]
    /\ seen \in [Calls -> [count : Nat, bytes : Nat, age : 0 .. Over]]
    /\ allow \in [Calls -> BOOLEAN]
    /\ passed \in [0 .. IpWindow - 1 -> Nat]
    /\ granted \in [0 .. TenWindow - 1 -> Nat]
    /\ admitted \in [0 .. DayWindow - 1 -> Nat]

LimitInit ==
    /\ ip = [count |-> 0, age |-> Over]
    /\ ten = [count |-> 0, bytes |-> 0, left |-> 0]
    /\ day = [count |-> 0, left |-> 0]
    /\ stage = [c \in Calls |-> "idle"]
    /\ seen = [c \in Calls |-> Nothing]
    /\ allow = [c \in Calls |-> TRUE]
    /\ passed = [a \in 0 .. IpWindow - 1 |-> 0]
    /\ granted = [a \in 0 .. TenWindow - 1 |-> 0]
    /\ admitted = [a \in 0 .. DayWindow - 1 |-> 0]

-----------------------------------------------------------------------------
Goto(c, s) == stage' = [stage EXCEPT ![c] = s]
Recall(c, entry) == seen' = [seen EXCEPT ![c] = entry]
Forget(c) == seen' = [seen EXCEPT ![c] = Nothing]

Arrive(c) ==
    /\ stage[c] = "idle"
    /\ Goto(c, "ip")
    /\ allow' = [allow EXCEPT ![c] = TRUE]
    /\ UNCHANGED <<limiters, seen, history>>

\* Without an entry the handler starts from (0, now), as after a window's end.
IpGet(c) ==
    /\ stage[c] = "ip"
    /\ Recall(c, [Nothing EXCEPT !.count = ip.count, !.age = ip.age])
    /\ Goto(c, "ipPut")
    /\ UNCHANGED <<limiters, allow, history>>

\* Mutant: a new window starts from zero.
IpPutFromZero(c) ==
    /\ stage[c] = "ipPut"
    /\ ip' = IF seen[c].age > IpWindow
             THEN [count |-> 0, age |-> 0]
             ELSE [count |-> Least(seen[c].count, IpLimit) + 1, age |-> seen[c].age]
    /\ \/ ip'.count > IpLimit /\ Goto(c, "idle") /\ UNCHANGED passed
       \/ /\ ip'.count <= IpLimit
          /\ Goto(c, "ten") \/ Goto(c, "idle")
          /\ passed' = [passed EXCEPT ![0] = @ + 1]
    /\ Forget(c)
    /\ UNCHANGED <<ten, day, allow, granted, admitted>>

\* The count is written back even if it refuses the request.  (Counts beyond
\* the limit are all alike here.)  A request that passes may still have a wrong
\* key or nothing to store, and never come to the other limiters.
IpPut(c) ==
    /\ stage[c] = "ipPut"
    /\ ip' = IF seen[c].age > IpWindow
             THEN [count |-> 1, age |-> 0]
             ELSE [count |-> Least(seen[c].count, IpLimit) + 1, age |-> seen[c].age]
    /\ \/ ip'.count > IpLimit /\ Goto(c, "idle") /\ UNCHANGED passed
       \/ /\ ip'.count <= IpLimit
          /\ Goto(c, "ten") \/ Goto(c, "idle")
          /\ passed' = [passed EXCEPT ![0] = @ + 1]
    /\ Forget(c)
    /\ UNCHANGED <<ten, day, allow, granted, admitted>>

TenGet(c) ==
    /\ stage[c] = "ten"
    /\ Recall(c, [Nothing EXCEPT !.count = ten.count, !.bytes = ten.bytes])
    /\ Goto(c, "tenPut")
    /\ UNCHANGED <<limiters, allow, history>>

\* Mutant: a refused request prolongs the entry that refuses it.
TenPutProlongs(c) ==
    /\ stage[c] = "tenPut"
    /\ \E len \in Sizes :
       LET n == seen[c].count + 1
           b == seen[c].bytes + len IN
       \/ /\ n > TenLimit \/ b > TenBytes
          /\ allow' = [allow EXCEPT ![c] = FALSE]
          /\ ten' = [count |-> seen[c].count, bytes |-> seen[c].bytes, left |-> TenWindow]
       \/ /\ n <= TenLimit /\ b <= TenBytes
          /\ ten' = [count |-> n, bytes |-> b, left |-> TenWindow]
          /\ UNCHANGED allow
    /\ Goto(c, "day")
    /\ Forget(c)
    /\ UNCHANGED <<ip, day, history>>

\* Within the limits the entry is written back, and lives TenWindow from now;
\* a refused request leaves it alone, and goes on to the daily limiter.
TenPut(c) ==
    /\ stage[c] = "tenPut"
    /\ \E len \in Sizes :
       LET n == seen[c].count + 1
           b == seen[c].bytes + len IN
       \/ /\ n > TenLimit \/ b > TenBytes
          /\ allow' = [allow EXCEPT ![c] = FALSE]
          /\ UNCHANGED <<ten, granted>>
       \/ /\ n <= TenLimit /\ b <= TenBytes
          /\ ten' = [count |-> n, bytes |-> b, left |-> TenWindow]
          /\ granted' = [granted EXCEPT ![0] = @ + 1]
          /\ UNCHANGED allow
    /\ Goto(c, "day")
    /\ Forget(c)
    /\ UNCHANGED <<ip, day, passed, admitted>>

DayGet(c) ==
    /\ stage[c] = "day"
    /\ Recall(c, [Nothing EXCEPT !.count = day.count])
    /\ Goto(c, "dayPut")
    /\ UNCHANGED <<limiters, allow, history>>

\* Mutant: a refused request prolongs the entry that refuses it.
DayPutProlongs(c) ==
    /\ stage[c] = "dayPut"
    /\ LET n == seen[c].count + 1 IN
       \/ /\ n > DayLimit
          /\ day' = [count |-> seen[c].count, left |-> DayWindow]
       \/ /\ n <= DayLimit
          /\ day' = [count |-> n, left |-> DayWindow]
    /\ Goto(c, "idle")
    /\ Forget(c)
    /\ UNCHANGED <<ip, ten, allow, history>>

\* The daily limiter counts the event whatever the other one said.  After an
\* event that both allow a capture batch may go on with the next.
DayPut(c) ==
    /\ stage[c] = "dayPut"
    /\ LET n == seen[c].count + 1 IN
       \/ /\ n > DayLimit
          /\ Goto(c, "idle")
          /\ UNCHANGED <<day, admitted>>
       \/ /\ n <= DayLimit
          /\ Goto(c, "idle") \/ (allow[c] /\ Goto(c, "ten"))
          /\ day' = [count |-> n, left |-> DayWindow]
          /\ admitted' = [admitted EXCEPT ![0] = IF allow[c] THEN @ + 1 ELSE @]
    /\ Forget(c)
    /\ UNCHANGED <<ip, ten, allow, passed, granted>>

Aged(h) == [a \in DOMAIN h |-> IF a = 0 THEN 0 ELSE h[a - 1]]

\* An entry whose time to live runs out is gone.
TickLimits ==
    /\ ip' = [ip EXCEPT !.age = Least(@ + 1, Over)]
    /\ ten' = IF ten.left <= 1 THEN [count |-> 0, bytes |-> 0, left |-> 0]
              ELSE [ten EXCEPT !.left = @ - 1]
    /\ day' = IF day.left <= 1 THEN [count |-> 0, left |-> 0]
              ELSE [day EXCEPT !.left = @ - 1]
    /\ seen' = [c \in Calls |->
                  IF stage[c] = "ipPut" THEN [seen[c] EXCEPT !.age = Least(@ + 1, Over)]
                  ELSE seen[c]]
    /\ passed' = Aged(passed)
    /\ granted' = Aged(granted)
    /\ admitted' = Aged(admitted)
    /\ UNCHANGED <<stage, allow>>

CallStep(c) ==
    \/ IpGet(c) \/ IpPut(c)
    \/ TenGet(c) \/ TenPut(c)
    \/ DayGet(c) \/ DayPut(c)

LimitNext == TickLimits \/ \E c \in Calls : Arrive(c) \/ CallStep(c)

LimitSpec == LimitInit /\ [][LimitNext]_limitVars

\* tokio polls the handlers, and time passes; no client has to call.
LimitFairSpec ==
    LimitSpec /\ WF_limitVars(TickLimits) /\ \A c \in Calls : WF_limitVars(CallStep(c))

-----------------------------------------------------------------------------
(* Safety                                                                  *)

\* The limits a client that waits for each answer meets: in no stretch of
\* TenWindow does the 10 minute limiter let more than TenLimit events through, ...
TenBound == InLast(TenWindow, granted) <= TenLimit

\* ... and in no DayWindow are more than DayLimit admitted, however the two
\* limiters, which count different things, expire.
DayBound == InLast(DayWindow, admitted) <= DayLimit

\* A window of ip_rate_limit starts with a request and ends regardless of the
\* next, so two of them may meet (it does not slide, as SYSTEM_ARCHITECTURE.md
\* says it does): at most twice the limit passes.
IpBound == InLast(IpWindow, passed) <= 2 * IpLimit

\* The three limits hold together, in well-typed states, for a client that
\* waits for each answer: none undoes another by counting differently.
RateInv == LimitTypeOK /\ TenBound /\ DayBound /\ IpBound

-----------------------------------------------------------------------------
(* Liveness, under LimitFairSpec                                           *)

Reached(s) == \E c \in Calls : stage[c] = s

\* A client that keeps calling passes ip_rate_limit again and again, though each
\* refused request is counted and written back.
RetrierPassesIp == ([]<>Reached("ip")) => []<>(passed[0] > 0)

\* Trying again does not keep the 10 minute limiter shut, ...
RetrierPassesTen ==
    ([]<>Reached("ten")) => []<>(\E c \in Calls : stage[c] = "day" /\ allow[c])

\* ... nor the daily one.
RetrierPassesDay ==
    ([]<>Reached("day")) =>
        []<>(\E c \in Calls : stage[c] = "dayPut" /\ seen[c].count < DayLimit)

\* None of the three limiters refuses a client for ever because it keeps trying:
\* each, for itself, lets it through again and again.  They need not do so at the
\* same time: see RetrierIsAdmitted.
RetrierPasses == RetrierPassesIp /\ RetrierPassesTen /\ RetrierPassesDay

\* What the code does not guarantee.  The daily limiter counts what the 10 minute
\* limiter refused, so a client that keeps trying can use up the count of every
\* day with refused requests, and never be admitted.
RetrierIsAdmitted == ([]<>Reached("ten")) => []<>(admitted[0] > 0)
=============================================================================
