----------------------- MODULE IngestPipeline_proofs -----------------------
(***************************************************************************)
(* Proofs about IngestPipeline, for any number of requests, projects and   *)
(* any channel and batch size.                                             *)
(***************************************************************************)
EXTENDS IngestPipeline, FiniteSetTheorems, TLAPS

-----------------------------------------------------------------------------
(* Sequences used as queues                                                *)

\* Appending adds exactly the new element.
LEMMA ElementsAppend ==
    ASSUME NEW S, NEW s \in Seq(S), NEW x \in S
    PROVE  /\ Append(s, x) \in Seq(S)
           /\ Elements(Append(s, x)) = Elements(s) \cup {x}
           /\ Len(Append(s, x)) = Len(s) + 1
BY DEF Elements

\* Taking the head removes exactly it from a sequence without repetitions.
LEMMA ElementsTail ==
    ASSUME NEW S, NEW s \in Seq(S), s # <<>>, Distinct(s)
    PROVE  /\ Head(s) \in S /\ Tail(s) \in Seq(S)
           /\ Elements(s) = Elements(Tail(s)) \cup {Head(s)}
           /\ Head(s) \notin Elements(Tail(s))
           /\ Distinct(Tail(s))
           /\ Len(Tail(s)) = Len(s) - 1
BY DEF Elements, Distinct

\* A fresh element keeps a sequence without repetitions.
LEMMA DistinctAppend ==
    ASSUME NEW S, NEW s \in Seq(S), NEW x \in S, Distinct(s), x \notin Elements(s)
    PROVE  Distinct(Append(s, x))
BY DEF Elements, Distinct

\* The elements of a sequence over S are in S.
LEMMA ElementsType ==
    ASSUME NEW S, NEW s \in Seq(S)
    PROVE  Elements(s) \subseteq S
BY DEF Elements

LEMMA EmptySequence ==
    ASSUME NEW S
    PROVE  /\ <<>> \in Seq(S)
           /\ Elements(<<>>) = {}
           /\ Len(<<>>) = 0
           /\ Distinct(<<>>)
BY DEF Elements, Distinct

-----------------------------------------------------------------------------
(* Facts about events                                                      *)

LEMMA EventFacts ==
    /\ \A r \in Requests : \A i \in 1 .. ItemCount[r] : <<r, i>> \in Events
    /\ \A e \in Events : /\ e[1] \in Requests /\ e[2] \in 1 .. ItemCount[e[1]]
                         /\ e = <<e[1], e[2]>>
                         /\ EventProject(e) \in Projects
    /\ \A r \in Requests : /\ ItemCount[r] \in Nat /\ ProjectOf[r] \in Projects
                           /\ UserFpOf[r] \in UserFps
BY RequestAssumption DEF Events, EventProject

-----------------------------------------------------------------------------
(* What the building blocks of the actions do to the types                 *)

LEMMA ReplyType ==
    ASSUME TypeOK, NEW r \in Requests, NEW a \in Answers, Reply(r, a)
    PROVE  stage' \in [Requests -> Stages] /\ answer' \in [Requests -> Answers]
BY DEF Reply, TypeOK, Stages

LEMMA GotoType ==
    ASSUME TypeOK, NEW r \in Requests, NEW s \in Stages, Goto(r, s)
    PROVE  stage' \in [Requests -> Stages]
BY DEF Goto, TypeOK

LEMMA BumpType ==
    ASSUME TypeOK, NEW c \in Counters, Bump(c)
    PROVE  metrics' \in [Counters -> Nat]
BY DEF Bump, TypeOK

LEMMA ItemType ==
    ASSUME TypeOK, NEW r \in Requests, item' = [item EXCEPT ![r] = item[r] + 1]
    PROVE  item' \in [Requests -> Nat]
BY DEF TypeOK

LEMMA EnqueueType ==
    ASSUME TypeOK, NEW e \in Events, Enqueue(e)
    PROVE  /\ channel' \in Seq(Events)
           /\ ticket' \in [Events -> Nat]
           /\ clock' \in Nat
BY DEF Enqueue, TypeOK

LEMMA CountType ==
    ASSUME TypeOK, NEW r \in Requests, CountOccurrence(r)
    PROVE  stackCache' \in [UserFps -> Nat]
BY EventFacts DEF CountOccurrence, TypeOK

LEMMA TakeType ==
    ASSUME TypeOK, WorkerTake
    PROVE  channel' \in Seq(Events) /\ batch' \in Seq(Events)
BY DEF WorkerTake, TypeOK

\* The events the worker holds are events.
LEMMA HeldType ==
    ASSUME TypeOK
    PROVE  /\ Elements(channel) \subseteq Events
           /\ Elements(batch) \subseteq Events
           /\ Elements(flushing) \subseteq Events
           /\ Pending \subseteq Events /\ InMemory \subseteq Events
           /\ \A p : Group(p) \subseteq Events
BY ElementsType DEF TypeOK, InMemory, Pending, Group

\* Each early return of sentry_envelope tells the client one of three things, and
\* bumps the counter that goes with it.
LEMMA VerdictCases ==
    ASSUME NEW r, EnvelopeVerdict(r)
    PROVE  /\ stage[r] = "received"
           /\ \/ Reply(r, "iplimit") /\ Bump("rateLimited")
              \/ Reply(r, "limited") /\ Bump("rateLimited")
              \/ Reply(r, "refused") /\ Bump("dropped")
              \/ Goto(r, "session") /\ UNCHANGED <<answer, metrics>>
           /\ UNCHANGED <<item, current, stackCache, channel, workerVars,
                          stored, crashes, historyVars>>
<1>1. \A why \in DOMAIN Refusal :
         Refusal[why] \in {[answer |-> "iplimit", counter |-> "rateLimited"],
                          [answer |-> "limited", counter |-> "rateLimited"],
                          [answer |-> "refused", counter |-> "dropped"]}
  BY DEF Refusal
<1>2. CASE \E why \in DOMAIN Refusal :
              Reply(r, Refusal[why].answer) /\ Bump(Refusal[why].counter)
  <2>1. PICK why \in DOMAIN Refusal :
               Reply(r, Refusal[why].answer) /\ Bump(Refusal[why].counter)
    BY <1>2
  <2>2. \/ Refusal[why].answer = "iplimit" /\ Refusal[why].counter = "rateLimited"
        \/ Refusal[why].answer = "limited" /\ Refusal[why].counter = "rateLimited"
        \/ Refusal[why].answer = "refused" /\ Refusal[why].counter = "dropped"
    BY <1>1
  <2>3. \/ Reply(r, "iplimit") /\ Bump("rateLimited")
        \/ Reply(r, "limited") /\ Bump("rateLimited")
        \/ Reply(r, "refused") /\ Bump("dropped")
    BY <2>1, <2>2
  <2>. QED BY <2>3 DEF EnvelopeVerdict
<1>. QED BY <1>2 DEF EnvelopeVerdict

-----------------------------------------------------------------------------
(* Types and handler stages                                                *)

TypeStage == TypeOK /\ StageInv

LEMMA TypeStageInit == Init => TypeStage
<1>1. Init => TypeOK
  BY SizeAssumption DEF Init, TypeOK, Stages, Answers, WorkerStages
<1>2. Init => StageInv
  BY RequestAssumption DEF Init, StageInv, Requests
<1>. QED BY <1>1, <1>2 DEF TypeStage

LEMMA TypeStageEnvelope ==
    ASSUME TypeOK, StageInv, NEW r \in Envelopes,
           EnvelopeReceive(r) \/ EnvelopeStep(r)
    PROVE  TypeOK' /\ StageInv'
<1> r \in Requests
  BY DEF Requests
<1>1. CASE EnvelopeReceive(r)
  <2>1. metrics' \in [Counters -> Nat] /\ stage' \in [Requests -> Stages]
    BY <1>1, BumpType, GotoType DEF EnvelopeReceive, Counters, Stages
  <2>2. TypeOK'
    BY <1>1, <2>1 DEF EnvelopeReceive, TypeOK, workerVars, historyVars
  <2>3. StageInv'
    BY <1>1, RequestAssumption
       DEF EnvelopeReceive, Goto, TypeOK, StageInv, Stages, Requests
  <2>. QED BY <2>2, <2>3
<1>2. CASE EnvelopeVerdict(r)
  <2>1. metrics' \in [Counters -> Nat]
    BY <1>2, VerdictCases, BumpType DEF TypeOK, Counters
  <2>2. stage' \in [Requests -> Stages] /\ answer' \in [Requests -> Answers]
    BY <1>2, VerdictCases, ReplyType, GotoType DEF TypeOK, Stages, Answers
  <2>3. TypeOK'
    BY <1>2, <2>1, <2>2, VerdictCases DEF TypeOK, workerVars, historyVars
  <2>4. StageInv'
    BY <1>2, VerdictCases, RequestAssumption
       DEF Reply, Goto, TypeOK, StageInv, Stages, Requests
  <2>. QED BY <2>3, <2>4
<1>3. CASE EnvelopeSession(r)
  <2>1. metrics' \in [Counters -> Nat]
    BY <1>3, BumpType DEF EnvelopeSession, TypeOK, Counters
  <2>2. stage' \in [Requests -> Stages] /\ answer' \in [Requests -> Answers]
    BY <1>3, ReplyType, GotoType DEF EnvelopeSession, TypeOK, Stages, Answers
  <2>3. TypeOK'
    BY <1>3, <2>1, <2>2 DEF EnvelopeSession, TypeOK, workerVars, historyVars
  <2>4. \/ stage' = [stage EXCEPT ![r] = "answered"]
        \/ ItemCount[r] = 1 /\ stage' = [stage EXCEPT ![r] = "throttle"]
    BY <1>3, RequestAssumption DEF EnvelopeSession, Reply, Goto
  <2>5. StageInv'
    BY <1>3, <2>4, RequestAssumption
       DEF EnvelopeSession, TypeOK, StageInv, Stages, Requests
  <2>. QED BY <2>3, <2>5
<1>4. CASE EnvelopeThrottle(r)
  <2>1. <<r, 1>> \in Events
    BY <1>4, EventFacts DEF EnvelopeThrottle, StageInv
  <2>2. metrics' \in [Counters -> Nat]
    BY <1>4, BumpType DEF EnvelopeThrottle, TypeOK, Counters
  <2>3. stage' \in [Requests -> Stages] /\ answer' \in [Requests -> Answers]
    BY <1>4, ReplyType, GotoType DEF EnvelopeThrottle, TypeOK, Stages, Answers
  <2>4. current' \in [Requests -> Nat]
    BY <1>4, EventFacts DEF EnvelopeThrottle, TypeOK
  <2>5. TypeOK'
    BY <1>4, <2>1, <2>2, <2>3, <2>4 DEF EnvelopeThrottle, TypeOK, workerVars
  <2>6. StageInv'
    BY <1>4, RequestAssumption
       DEF EnvelopeThrottle, Reply, Goto, TypeOK, StageInv, Stages, Requests
  <2>. QED BY <2>5, <2>6
<1>5. CASE EnvelopeEnqueue(r)
  <2>1. <<r, 1>> \in Events
    BY <1>5, EventFacts DEF EnvelopeEnqueue, StageInv
  <2>2. stage' \in [Requests -> Stages]
    BY <1>5, GotoType DEF EnvelopeEnqueue, Stages
  <2>3. channel' \in Seq(Events) /\ ticket' \in [Events -> Nat] /\ clock' \in Nat
    BY <1>5, <2>1, EnqueueType DEF EnvelopeEnqueue, TypeOK
  <2>4. TypeOK'
    BY <1>5, <2>2, <2>3, CountType DEF EnvelopeEnqueue, TypeOK, workerVars
  <2>5. StageInv'
    BY <1>5, RequestAssumption
       DEF EnvelopeEnqueue, Goto, TypeOK, StageInv, Stages, Requests
  <2>. QED BY <2>4, <2>5
<1>6. CASE EnvelopeReply(r)
  <2>1. metrics' \in [Counters -> Nat]
    BY <1>6, BumpType DEF EnvelopeReply, Counters
  <2>2. stage' \in [Requests -> Stages] /\ answer' \in [Requests -> Answers]
    BY <1>6, ReplyType DEF EnvelopeReply, Answers
  <2>3. TypeOK'
    BY <1>6, <2>1, <2>2 DEF EnvelopeReply, TypeOK, workerVars, historyVars
  <2>4. StageInv'
    BY <1>6, RequestAssumption
       DEF EnvelopeReply, Reply, TypeOK, StageInv, Stages, Requests
  <2>. QED BY <2>3, <2>4
<1>. QED BY <1>1, <1>2, <1>3, <1>4, <1>5, <1>6 DEF EnvelopeStep

\* The ways a capture call moves on keep its stage and its item in step.
LEMMA CaptureStageStep ==
    ASSUME TypeOK, StageInv, NEW r \in Captures,
           item[r] \in 1 .. ItemCount[r],
           \/ item' = item /\ stage' = [stage EXCEPT ![r] = "answered"]
           \/ item' = item /\ stage' = [stage EXCEPT ![r] = "enqueue"]
           \/ item' = [item EXCEPT ![r] = item[r] + 1] /\ stage' = stage /\ stage[r] = "loop"
           \/ item' = [item EXCEPT ![r] = item[r] + 1] /\ stage' = [stage EXCEPT ![r] = "loop"]
    PROVE  StageInv'
<1>1. r \in Requests /\ r \notin Envelopes /\ ItemCount[r] \in Nat
  BY RequestAssumption DEF Requests
<1>2. ASSUME NEW q \in Envelopes
      PROVE  stage'[q] = stage[q] /\ item'[q] = item[q]
  BY <1>1 DEF TypeOK, Requests
<1>3. ASSUME NEW q \in Captures, q # r
      PROVE  stage'[q] = stage[q] /\ item'[q] = item[q]
  BY <1>1, <1>3 DEF TypeOK, Requests
<1>4. /\ stage'[r] \in {"loop", "enqueue", "answered"}
      /\ item'[r] \in 1 .. ItemCount[r] + 1
      /\ stage'[r] = "enqueue" => item'[r] <= ItemCount[r]
  BY <1>1 DEF TypeOK
<1>. QED BY <1>2, <1>3, <1>4 DEF StageInv

LEMMA TypeStageCapture ==
    ASSUME TypeOK, StageInv, NEW r \in Captures,
           CaptureReceive(r) \/ CaptureStep(r)
    PROVE  TypeOK' /\ StageInv'
<1> r \in Requests /\ r \notin Envelopes
  BY RequestAssumption DEF Requests
<1>1. CASE CaptureReceive(r)
  <2>1. metrics' \in [Counters -> Nat]
    BY <1>1, BumpType DEF CaptureReceive, TypeOK, Counters
  <2>2. stage' \in [Requests -> Stages] /\ answer' \in [Requests -> Answers]
    BY <1>1, ReplyType, GotoType DEF CaptureReceive, TypeOK, Stages, Answers
  <2>3. TypeOK'
    BY <1>1, <2>1, <2>2 DEF CaptureReceive, TypeOK, workerVars, historyVars
  <2>4. StageInv'
    BY <1>1, RequestAssumption
       DEF CaptureReceive, Reply, Goto, TypeOK, StageInv, Stages, Requests
  <2>. QED BY <2>3, <2>4
<1>2. CASE CaptureItem(r)
  <2>1. /\ <<r, item[r]>> \in Events
        /\ item[r] \in 1 .. ItemCount[r]
    BY <1>2, EventFacts DEF CaptureItem, MoreItems, StageInv
  <2>2. stage' \in [Requests -> Stages] /\ answer' \in [Requests -> Answers]
    BY <1>2, ReplyType, GotoType DEF CaptureItem, TypeOK, Stages, Answers
  <2>3. current' \in [Requests -> Nat]
    BY <1>2, EventFacts DEF CaptureItem, TypeOK
  <2>4. item' = item \/ (item' = [item EXCEPT ![r] = item[r] + 1] /\ stage' = stage)
    BY <1>2 DEF CaptureItem
  <2>t. item' \in [Requests -> Nat] /\ throttled' \subseteq Events
    <3>1. item' \in [Requests -> Nat]
      BY <2>4, ItemType DEF TypeOK
    <3>2. throttled' \subseteq Events
      BY <1>2, <2>1 DEF CaptureItem, TypeOK
    <3>. QED BY <3>1, <3>2
  <2>5. TypeOK'
    BY <1>2, <2>2, <2>3, <2>t DEF CaptureItem, TypeOK, workerVars
  <2>7. StageInv'
    BY <1>2, <2>1, CaptureStageStep DEF CaptureItem, Reply, Goto
  <2>. QED BY <2>5, <2>7
<1>3. CASE CaptureEnqueue(r)
  <2>1. /\ <<r, item[r]>> \in Events
        /\ item[r] \in 1 .. ItemCount[r]
    BY <1>3, EventFacts DEF CaptureEnqueue, StageInv
  <2>2. stage' \in [Requests -> Stages] /\ answer' \in [Requests -> Answers]
    BY <1>3, ReplyType, GotoType DEF CaptureEnqueue, TypeOK, Stages, Answers
  <2>3. channel' \in Seq(Events) /\ ticket' \in [Events -> Nat] /\ clock' \in Nat
    BY <1>3, <2>1, EnqueueType DEF CaptureEnqueue, TypeOK
  <2>6. \/ item' = item /\ stage' = [stage EXCEPT ![r] = "answered"]
        \/ item' = [item EXCEPT ![r] = item[r] + 1] /\ stage' = [stage EXCEPT ![r] = "loop"]
    BY <1>3 DEF CaptureEnqueue, Reply, Goto
  <2>4. item' \in [Requests -> Nat]
    BY <2>6, ItemType DEF TypeOK
  <2>5. TypeOK'
    BY <1>3, <2>2, <2>3, <2>4, CountType DEF CaptureEnqueue, TypeOK, workerVars
  <2>7. StageInv'
    BY <1>3, <2>1, <2>6, CaptureStageStep DEF CaptureEnqueue
  <2>. QED BY <2>5, <2>7
<1>4. CASE CaptureDone(r)
  <2>1. stage' \in [Requests -> Stages] /\ answer' \in [Requests -> Answers]
    BY <1>4, ReplyType DEF CaptureDone, Answers
  <2>2. TypeOK'
    BY <1>4, <2>1 DEF CaptureDone, TypeOK, workerVars, historyVars
  <2>3. StageInv'
    BY <1>4, RequestAssumption
       DEF CaptureDone, Reply, TypeOK, StageInv, Stages, Requests
  <2>. QED BY <2>2, <2>3
<1>. QED BY <1>1, <1>2, <1>3, <1>4 DEF CaptureStep

LEMMA TypeStageWorker ==
    ASSUME TypeOK, StageInv, WorkerStep \/ IntervalElapses
    PROVE  TypeOK' /\ StageInv'
<1>1. CASE WorkerReceive \/ WorkerFill
  BY <1>1, TakeType DEF WorkerReceive, WorkerFill, TypeOK, StageInv,
                        WorkerStages, handlerVars, historyVars
<1>2. CASE WorkerCheck \/ WorkerLoop \/ IntervalElapses
  BY <1>2 DEF WorkerCheck, WorkerLoop, IntervalElapses, TypeOK, StageInv,
              WorkerStages, handlerVars, historyVars
<1>3. CASE FlushBegin
  <2>1. todo' \subseteq Projects
    BY <1>3, HeldType, EventFacts DEF FlushBegin
  <2>. QED BY <1>3, <2>1 DEF FlushBegin, TypeOK, StageInv, WorkerStages,
                             handlerVars, historyVars
<1>4. ASSUME NEW p \in Projects, FlushProject(p)
      PROVE  TypeOK' /\ StageInv'
  <2>1. stored' \subseteq Events /\ lost' \subseteq Events
    BY <1>4, HeldType DEF FlushProject, TypeOK
  <2>2. metrics' \in [Counters -> Nat]
    BY <1>4, BumpType DEF FlushProject, Counters
  <2>. QED BY <1>4, <2>1, <2>2 DEF FlushProject, TypeOK, StageInv, handlerVars
<1>5. CASE FlushEnd
  BY <1>5 DEF FlushEnd, TypeOK, StageInv, WorkerStages, handlerVars, historyVars
<1>. QED BY <1>1, <1>2, <1>3, <1>4, <1>5 DEF WorkerStep

LEMMA TypeStageCrash ==
    ASSUME TypeOK, StageInv, Crash
    PROVE  TypeOK' /\ StageInv'
<1>1. TypeOK'
  BY HeldType, SizeAssumption
     DEF Crash, TypeOK, Stages, Answers, WorkerStages, Counters
<1>2. StageInv'
  BY RequestAssumption DEF Crash, TypeOK, StageInv, Requests, Stages
<1>. QED BY <1>1, <1>2

LEMMA TypeStageNext == TypeStage /\ [Next]_vars => TypeStage'
<1> SUFFICES ASSUME TypeOK, StageInv, [Next]_vars
             PROVE  TypeOK' /\ StageInv'
  BY DEF TypeStage
<1>1. ASSUME NEW u \in UserFps, ThrottleExpires(u)
      PROVE  TypeOK' /\ StageInv'
  BY <1>1 DEF ThrottleExpires, TypeOK, StageInv, workerVars, historyVars
<1>2. CASE UNCHANGED vars
  BY <1>2 DEF vars, handlerVars, workerVars, historyVars, TypeOK, StageInv
<1>3. ASSUME NEW r \in Requests, Disconnect(r)
      PROVE  TypeOK' /\ StageInv'
  <2>1. stage' \in [Requests -> Stages] /\ answer' \in [Requests -> Answers]
    BY <1>3 DEF Disconnect, TypeOK, Stages, Answers
  <2>2. TypeOK'
    BY <1>3, <2>1 DEF Disconnect, TypeOK, workerVars, historyVars
  <2>3. StageInv'
    BY <1>3, RequestAssumption DEF Disconnect, TypeOK, StageInv, Requests
  <2>. QED BY <2>2, <2>3
<1>. QED BY <1>1, <1>2, <1>3, TypeStageEnvelope, TypeStageCapture, TypeStageWorker,
            TypeStageCrash DEF Next

\* Every variable keeps its type, and a handler's stage determines how far it
\* is in its request.
THEOREM TypeCorrect == Spec => [](TypeOK /\ StageInv)
<1>1. Init => TypeStage
  BY TypeStageInit
<1>2. TypeStage /\ [Next]_vars => TypeStage'
  BY TypeStageNext
<1>. QED BY <1>1, <1>2, PTL DEF Spec, TypeStage

-----------------------------------------------------------------------------
(* Requests, their answers and their events                                *)

\* The parts of the state RequestInv speaks about are the same for q.
Same(q) ==
    /\ stage'[q] = stage[q] /\ answer'[q] = answer[q] /\ item'[q] = item[q]
    /\ \A i \in 1 .. ItemCount[q] : Handled(<<q, i>>)' <=> Handled(<<q, i>>)

LEMMA SameRules ==
    ASSUME NEW q \in Requests, Same(q), AnswerRule(q), ProgressRule(q)
    PROVE  AnswerRule(q)' /\ ProgressRule(q)'
<1>1. AnswerRule(q)'
  BY DEF Same, AnswerRule
<1>2. ProgressRule(q)'
  BY DEF Same, ProgressRule
<1>. QED BY <1>1, <1>2

\* Enqueue handles its event and no other.
LEMMA EnqueueHandles ==
    ASSUME TypeOK, NEW e \in Events, Enqueue(e), UNCHANGED throttled
    PROVE  /\ Handled(e)'
           /\ \A d \in Events \ {e} : Handled(d)' <=> Handled(d)
BY DEF Enqueue, TypeOK, Handled, Taken

LEMMA RequestEnvelope ==
    ASSUME TypeOK, StageInv, RequestInv, NEW r \in Envelopes,
           EnvelopeReceive(r) \/ EnvelopeStep(r)
    PROVE  RequestInv'
<1>0. /\ r \in Requests /\ r \notin Captures
      /\ \A q \in Requests : \A i \in 1 .. ItemCount[q] : <<q, i>> \in Events
      /\ item[r] = 1
  BY RequestAssumption, EventFacts DEF Requests, StageInv
<1>s. SUFFICES ASSUME NEW q \in Requests
               PROVE  AnswerRule(q)' /\ ProgressRule(q)'
  BY DEF RequestInv
<1>r. AnswerRule(q) /\ ProgressRule(q)
  BY DEF RequestInv
<1>1. CASE EnvelopeReceive(r)
  <2>1. CASE q # r
    BY <1>0, <1>1, <2>1, <1>r, SameRules
       DEF EnvelopeReceive, Goto, Same, historyVars, Handled, Taken, TypeOK
  <2>2. CASE q = r
    BY <1>0, <1>1, <2>2, <1>r
       DEF EnvelopeReceive, Goto, historyVars, Handled, Taken, TypeOK,
           AnswerRule, ProgressRule, Running, Stages
  <2>. QED BY <2>1, <2>2
<1>2. CASE EnvelopeVerdict(r)
  <2>1. CASE q # r
    BY <1>0, <1>2, <2>1, <1>r, VerdictCases, SameRules
       DEF Goto, Reply, Same, historyVars, Handled, Taken, TypeOK
  <2>2. CASE q = r
    BY <1>0, <1>2, <2>2, <1>r, VerdictCases
       DEF Goto, Reply, historyVars, Handled, Taken, TypeOK,
           AnswerRule, ProgressRule, Running, Stages
  <2>. QED BY <2>1, <2>2
<1>3. CASE EnvelopeSession(r)
  <2>1. CASE q # r
    BY <1>0, <1>3, <2>1, <1>r, SameRules
       DEF EnvelopeSession, Goto, Reply, Same, historyVars, Handled, Taken, TypeOK
  <2>2. CASE q = r
    BY <1>0, <1>3, <2>2, <1>r
       DEF EnvelopeSession, Goto, Reply, historyVars, Handled, Taken, TypeOK,
           AnswerRule, ProgressRule, Running, Stages
  <2>. QED BY <2>1, <2>2
<1>4. CASE EnvelopeThrottle(r)
  <2>1. CASE q # r
    BY <1>0, <1>4, <2>1, <1>r, SameRules
       DEF EnvelopeThrottle, Goto, Reply, Same, Handled, Taken, TypeOK
  <2>2. CASE q = r
    BY <1>0, <1>4, <2>2, <1>r
       DEF EnvelopeThrottle, Goto, Reply, Handled, Taken, TypeOK,
           AnswerRule, ProgressRule, Running, Stages
  <2>. QED BY <2>1, <2>2
<1>5. CASE EnvelopeEnqueue(r)
  <2>0. <<r, 1>> \in Events /\ ItemCount[r] = 1
    BY <1>5, <1>0, EventFacts DEF EnvelopeEnqueue, StageInv
  <2>1. CASE q # r
    <3>1. \A i \in 1 .. ItemCount[q] : Handled(<<q, i>>)' <=> Handled(<<q, i>>)
      BY <1>0, <1>5, <2>0, <2>1, EnqueueHandles DEF EnvelopeEnqueue, Handled, Taken
    <3>. QED BY <1>0, <1>5, <2>1, <3>1, <1>r, SameRules
             DEF EnvelopeEnqueue, Goto, Same, TypeOK
  <2>2. CASE q = r
    <3>1. CASE Enqueue(<<r, 1>>) /\ Goto(r, "queued")
      BY <1>0, <1>5, <2>0, <2>2, <3>1, <1>r, EnqueueHandles
         DEF EnvelopeEnqueue, Goto, TypeOK, AnswerRule, ProgressRule, Running, Stages
    <3>2. CASE Goto(r, "full") /\ UNCHANGED <<channel, ticket, clock>>
      BY <1>0, <1>5, <2>2, <3>2, <1>r
         DEF EnvelopeEnqueue, Goto, TypeOK, Handled, Taken, AnswerRule,
             ProgressRule, Running, Stages
    <3>. QED BY <1>5, <3>1, <3>2 DEF EnvelopeEnqueue
  <2>. QED BY <2>1, <2>2
<1>6. CASE EnvelopeReply(r)
  <2>1. CASE q # r
    BY <1>0, <1>6, <2>1, <1>r, SameRules
       DEF EnvelopeReply, Reply, Same, historyVars, Handled, Taken, TypeOK
  <2>2. CASE q = r
    BY <1>0, <1>6, <2>2, <1>r
       DEF EnvelopeReply, Reply, historyVars, Handled, Taken, TypeOK, StageInv,
           AnswerRule, ProgressRule, Running, Stages
  <2>. QED BY <2>1, <2>2
<1>. QED BY <1>1, <1>2, <1>3, <1>4, <1>5, <1>6 DEF EnvelopeStep

LEMMA RequestCapture ==
    ASSUME TypeOK, StageInv, RequestInv, NEW r \in Captures,
           CaptureReceive(r) \/ CaptureStep(r)
    PROVE  RequestInv'
<1>0. /\ r \in Requests /\ r \notin Envelopes
      /\ \A q \in Requests : \A i \in 1 .. ItemCount[q] : <<q, i>> \in Events
      /\ item[r] \in 1 .. ItemCount[r] + 1 /\ ItemCount[r] \in Nat
  BY RequestAssumption, EventFacts DEF Requests, StageInv
<1>s. SUFFICES ASSUME NEW q \in Requests
               PROVE  AnswerRule(q)' /\ ProgressRule(q)'
  BY DEF RequestInv
<1>r. AnswerRule(q) /\ ProgressRule(q)
  BY DEF RequestInv
<1>1. CASE CaptureReceive(r)
  <2>1. CASE q # r
    BY <1>0, <1>1, <2>1, <1>r, SameRules
       DEF CaptureReceive, Goto, Reply, Same, historyVars, Handled, Taken, TypeOK
  <2>2. CASE q = r
    BY <1>0, <1>1, <2>2, <1>r
       DEF CaptureReceive, Goto, Reply, historyVars, Handled, Taken, TypeOK,
           AnswerRule, ProgressRule, Running, Stages
  <2>. QED BY <2>1, <2>2
<1>2. CASE CaptureItem(r)
  <2>0. item[r] \in 1 .. ItemCount[r]
    BY <1>0, <1>2 DEF CaptureItem, MoreItems
  <2>1. CASE q # r
    <3>1. \A i \in 1 .. ItemCount[q] : Handled(<<q, i>>)' <=> Handled(<<q, i>>)
      BY <1>2, <2>1 DEF CaptureItem, Handled, Taken
    <3>. QED BY <1>0, <1>2, <2>1, <3>1, <1>r, SameRules
             DEF CaptureItem, Goto, Reply, Same, TypeOK
  <2>2. CASE q = r
    <3>1. CASE /\ Reply(r, "limited")
               /\ UNCHANGED <<item, throttled, ticket>>
      BY <1>0, <1>2, <2>0, <2>2, <3>1, <1>r
         DEF CaptureItem, Reply, Handled, Taken, TypeOK, AnswerRule,
             ProgressRule, Running, Stages
    <3>2. CASE /\ throttled' = throttled \cup {<<r, item[r]>>}
               /\ item' = [item EXCEPT ![r] = item[r] + 1]
               /\ UNCHANGED <<stage, answer, ticket>>
      <4>1. \A i \in 1 .. ItemCount[r] :
               Handled(<<r, i>>)' <=> Handled(<<r, i>>) \/ i = item[r]
        BY <3>2 DEF Handled, Taken
      <4>. QED BY <1>0, <1>2, <2>0, <2>2, <3>2, <4>1, <1>r
               DEF CaptureItem, TypeOK, AnswerRule, ProgressRule, Running, Stages
    <3>3. CASE /\ Goto(r, "enqueue")
               /\ UNCHANGED <<answer, item, throttled, ticket>>
      BY <1>0, <1>2, <2>0, <2>2, <3>3, <1>r
         DEF CaptureItem, Goto, Handled, Taken, TypeOK, AnswerRule,
             ProgressRule, Running, Stages
    <3>. QED BY <1>2, <3>1, <3>2, <3>3 DEF CaptureItem
  <2>. QED BY <2>1, <2>2
<1>3. CASE CaptureEnqueue(r)
  <2>0. <<r, item[r]>> \in Events /\ item[r] \in 1 .. ItemCount[r]
    BY <1>0, <1>3 DEF CaptureEnqueue, StageInv
  <2>1. CASE q # r
    <3>1. \A i \in 1 .. ItemCount[q] : Handled(<<q, i>>)' <=> Handled(<<q, i>>)
      BY <1>0, <1>3, <2>0, <2>1, EnqueueHandles DEF CaptureEnqueue, Handled, Taken
    <3>. QED BY <1>0, <1>3, <2>1, <3>1, <1>r, SameRules
             DEF CaptureEnqueue, Goto, Reply, Same, TypeOK
  <2>2. CASE q = r
    <3>1. CASE /\ Enqueue(<<r, item[r]>>)
               /\ item' = [item EXCEPT ![r] = item[r] + 1]
               /\ Goto(r, "loop")
               /\ UNCHANGED answer
      <4>1. \A i \in 1 .. ItemCount[r] :
               Handled(<<r, i>>)' <=> Handled(<<r, i>>) \/ i = item[r]
        BY <1>0, <1>3, <2>0, <3>1, EnqueueHandles DEF CaptureEnqueue
      <4>. QED BY <1>0, <1>3, <2>0, <2>2, <3>1, <4>1, <1>r
               DEF CaptureEnqueue, Goto, TypeOK, AnswerRule, ProgressRule,
                   Running, Stages
    <3>2. CASE Reply(r, "full") /\ UNCHANGED <<item, channel, ticket, clock>>
      BY <1>0, <1>3, <2>0, <2>2, <3>2, <1>r
         DEF CaptureEnqueue, Reply, TypeOK, Handled, Taken, AnswerRule,
             ProgressRule, Running, Stages
    <3>. QED BY <1>3, <3>1, <3>2 DEF CaptureEnqueue
  <2>. QED BY <2>1, <2>2
<1>4. CASE CaptureDone(r)
  <2>1. CASE q # r
    BY <1>0, <1>4, <2>1, <1>r, SameRules
       DEF CaptureDone, Reply, Same, historyVars, Handled, Taken, TypeOK
  <2>2. CASE q = r
    BY <1>0, <1>4, <2>2, <1>r
       DEF CaptureDone, MoreItems, Reply, historyVars, Handled, Taken, TypeOK,
           AnswerRule, ProgressRule, Running, Stages
  <2>. QED BY <2>1, <2>2
<1>. QED BY <1>1, <1>2, <1>3, <1>4 DEF CaptureStep

LEMMA RequestNext == TypeStage /\ RequestInv /\ [Next]_vars => RequestInv'
<1> SUFFICES ASSUME TypeOK, StageInv, RequestInv, [Next]_vars
             PROVE  RequestInv'
  BY DEF TypeStage
<1>u. ASSUME UNCHANGED <<stage, answer, item, ticket, throttled>>
      PROVE  RequestInv'
  BY <1>u DEF RequestInv, AnswerRule, ProgressRule, Handled, Taken
<1>1. ASSUME NEW u \in UserFps, ThrottleExpires(u)
      PROVE  RequestInv'
  BY <1>1, <1>u DEF ThrottleExpires, historyVars
<1>2. CASE WorkerStep \/ IntervalElapses \/ UNCHANGED vars
  BY <1>2, <1>u
     DEF WorkerStep, WorkerReceive, WorkerFill, WorkerCheck, WorkerLoop, FlushBegin,
         FlushProject, FlushEnd, IntervalElapses, vars, handlerVars, historyVars
<1>3. CASE Crash
  BY <1>3 DEF Crash, RequestInv, AnswerRule, ProgressRule, Handled, Taken, TypeOK,
              Running, Stages
<1>4. ASSUME NEW r \in Requests, Disconnect(r)
      PROVE  RequestInv'
  <2>1. /\ stage'[r] = "cut" /\ answer'[r] = "reset" /\ stage[r] # "queued"
        /\ \A q \in Requests \ {r} : stage'[q] = stage[q] /\ answer'[q] = answer[q]
        /\ item' = item /\ \A e : Handled(e)' <=> Handled(e)
    BY <1>4 DEF Disconnect, TypeOK, Handled, Taken, historyVars
  <2>. QED BY <1>4, <2>1 DEF RequestInv, AnswerRule, ProgressRule, Running, Stages
<1>. QED BY <1>1, <1>2, <1>3, <1>4, RequestEnvelope, RequestCapture DEF Next

LEMMA RequestInit == Init => TypeStage /\ RequestInv
<1>1. ASSUME Init, NEW r \in Requests
      PROVE  AnswerRule(r) /\ ProgressRule(r)
  <2>1. \A i \in 1 .. ItemCount[r] : ~Handled(<<r, i>>)
    BY <1>1, EventFacts DEF Init, Handled, Taken
  <2>2. /\ stage[r] = "new" /\ answer[r] = "none" /\ item[r] = 1
        /\ ItemCount[r] \in Nat
    BY <1>1, EventFacts DEF Init
  <2>. QED BY <2>1, <2>2 DEF AnswerRule, ProgressRule, Running, Stages
<1>. QED BY <1>1, TypeStageInit DEF RequestInv

\* The answer a client gets tells the truth about its events.
THEOREM AnswersAreTrue == Spec => [](OkMeansTaken /\ ErrorMeansPrefix)
<1>1. Init => TypeStage /\ RequestInv
  BY RequestInit
<1>2. TypeStage /\ RequestInv /\ [Next]_vars => (TypeStage /\ RequestInv)'
  BY TypeStageNext, RequestNext
<1>3. TypeStage /\ RequestInv => OkMeansTaken /\ ErrorMeansPrefix
  <2> SUFFICES ASSUME TypeOK, StageInv, RequestInv, NEW r \in Requests
               PROVE  /\ answer[r] = "ok" =>
                           \A e \in EventsOfRequest(r) : Taken(e) \/ e \in throttled
                      /\ answer[r] \in ErrorAnswers =>
                           /\ answer[r] = "full" => item[r] <= ItemCount[r]
                           /\ \A i \in 1 .. ItemCount[r] :
                                (Taken(<<r, i>>) \/ <<r, i>> \in throttled) <=> i < item[r]
    BY DEF TypeStage, OkMeansTaken, ErrorMeansPrefix
  <2>1. AnswerRule(r) /\ ProgressRule(r) /\ ItemCount[r] \in Nat
    BY EventFacts DEF RequestInv
  <2>2. CASE r \in Captures
    BY <2>1, <2>2 DEF AnswerRule, ProgressRule, Handled, EventsOfRequest, ErrorAnswers
  <2>3. CASE r \in Envelopes
    BY <2>1, <2>3, RequestAssumption
       DEF AnswerRule, ProgressRule, Handled, EventsOfRequest, ErrorAnswers, StageInv,
           Running, Stages
  <2>. QED BY <2>2, <2>3 DEF Requests
<1>. QED BY <1>1, <1>2, <1>3, PTL DEF Spec

\* An error stops an envelope at the item it is about: the events before it are
\* queued or were throttled, none after it is, and "queue full" names an item
\* that exists (handle_sentry_envelope returns from inside its loop).
THEOREM ErrorTheorem == Spec => []ErrorMeansPrefix
BY AnswersAreTrue, PTL

-----------------------------------------------------------------------------
(* Bounded buffers                                                         *)

LEMMA RoomNext == TypeStage /\ RoomInv /\ [Next]_vars => RoomInv'
<1> SUFFICES ASSUME TypeOK, RoomInv, [Next]_vars
             PROVE  RoomInv'
  BY DEF TypeStage
<1> USE SizeAssumption DEF RoomInv, BuffersBounded
<1>u. ASSUME UNCHANGED <<channel, batch, flushing, worker>>
      PROVE  RoomInv'
  BY <1>u
<1>t. ASSUME WorkerTake, UNCHANGED flushing, worker' = "fill", Len(batch) < BatchSize
      PROVE  RoomInv'
  <2>1. /\ Len(channel') < Len(channel)
        /\ Len(batch') = Len(batch) + 1
    BY <1>t DEF WorkerTake, TypeOK
  <2>2. Len(batch) \in Nat /\ Len(channel) \in Nat /\ Len(channel') \in Nat
    BY <1>t, TakeType DEF TypeOK
  <2>. QED BY <1>t, <2>1, <2>2
<1>1. ASSUME NEW r \in Envelopes, EnvelopeReceive(r) \/ EnvelopeStep(r)
      PROVE  RoomInv'
  <2>1. CASE EnvelopeEnqueue(r)
    <3>1. CASE Enqueue(<<r, 1>>)
      BY <2>1, <3>1 DEF EnvelopeEnqueue, Enqueue, HasRoom, TypeOK, workerVars
    <3>2. CASE UNCHANGED channel
      BY <2>1, <3>2, <1>u DEF EnvelopeEnqueue, workerVars
    <3>. QED BY <2>1, <3>1, <3>2 DEF EnvelopeEnqueue
  <2>2. CASE ~EnvelopeEnqueue(r)
    BY <1>1, <2>2, <1>u
       DEF EnvelopeStep, EnvelopeReceive, EnvelopeVerdict, EnvelopeSession,
           EnvelopeThrottle, EnvelopeReply, workerVars
  <2>. QED BY <2>1, <2>2
<1>2. ASSUME NEW r \in Captures, CaptureReceive(r) \/ CaptureStep(r)
      PROVE  RoomInv'
  <2>1. CASE CaptureEnqueue(r)
    <3>1. CASE Enqueue(<<r, item[r]>>)
      BY <2>1, <3>1 DEF CaptureEnqueue, Enqueue, HasRoom, TypeOK, workerVars
    <3>2. CASE UNCHANGED channel
      BY <2>1, <3>2, <1>u DEF CaptureEnqueue, workerVars
    <3>. QED BY <2>1, <3>1, <3>2 DEF CaptureEnqueue
  <2>2. CASE ~CaptureEnqueue(r)
    BY <1>2, <2>2, <1>u
       DEF CaptureStep, CaptureReceive, CaptureItem, CaptureDone, workerVars
  <2>. QED BY <2>1, <2>2
<1>3. ASSUME NEW u \in UserFps, ThrottleExpires(u)
      PROVE  RoomInv'
  BY <1>3, <1>u DEF ThrottleExpires, workerVars
<1>4. CASE WorkerReceive \/ WorkerFill
  BY <1>4, <1>t DEF WorkerReceive, WorkerFill
<1>5. CASE WorkerCheck \/ WorkerLoop \/ IntervalElapses
  <2>1. Len(batch) \in Nat
    BY DEF TypeOK
  <2>2. UNCHANGED <<channel, batch, flushing>>
    BY <1>5 DEF WorkerCheck, WorkerLoop, IntervalElapses
  <2>3. worker' = "recv" => Len(batch) < BatchSize
    BY <1>5, <2>1 DEF WorkerCheck, WorkerLoop, IntervalElapses, ShouldFlush
  <2>4. worker' = "flush" => batch = <<>>
    BY <1>5 DEF WorkerCheck, WorkerLoop, IntervalElapses
  <2>. QED BY <2>2, <2>3, <2>4
<1>e. Len(<<>>) = 0
  BY EmptySequence
<1>f. CASE FlushBegin
  BY <1>f, <1>e DEF FlushBegin
<1>g. CASE FlushEnd
  BY <1>g, <1>e DEF FlushEnd
<1>6. CASE Crash
  BY <1>6, <1>e DEF Crash
<1>7. ASSUME NEW p \in Projects, FlushProject(p)
      PROVE  RoomInv'
  BY <1>7, <1>u DEF FlushProject
<1>8. CASE UNCHANGED vars
  BY <1>8, <1>u DEF vars, workerVars
<1>9. ASSUME NEW r \in Requests, Disconnect(r)
      PROVE  RoomInv'
  BY <1>9, <1>u DEF Disconnect, workerVars
<1>. QED BY <1>1, <1>2, <1>3, <1>4, <1>5, <1>f, <1>g, <1>6, <1>7, <1>8, <1>9
         DEF Next, WorkerStep

LEMMA RoomInit == Init => RoomInv
BY SizeAssumption, EmptySequence DEF Init, RoomInv, BuffersBounded

\* The memory the pipeline needs is bounded by its two size parameters.
THEOREM PipelineBounded == Spec => []BuffersBounded
<1>1. Init => TypeStage /\ RoomInv
  BY TypeStageInit, RoomInit
<1>2. TypeStage /\ RoomInv /\ [Next]_vars => (TypeStage /\ RoomInv)'
  BY TypeStageNext, RoomNext
<1>3. RoomInv => BuffersBounded
  BY DEF RoomInv
<1>. QED BY <1>1, <1>2, <1>3, PTL DEF Spec

-----------------------------------------------------------------------------
(* Where the events are                                                    *)

AccountInv == EventsAccounted /\ FlushInv

LEMMA AccountSame ==
    ASSUME AccountInv,
           UNCHANGED <<channel, batch, flushing, todo, stored, lost, throttled, ticket>>,
           worker' = worker \/ (worker # "flush" /\ worker' # "flush")
    PROVE  AccountInv'
<1>1. /\ Elements(channel') = Elements(channel) /\ Elements(batch') = Elements(batch)
      /\ Elements(flushing') = Elements(flushing) /\ Pending' = Pending
      /\ InMemory' = InMemory
      /\ Distinct(channel') /\ Distinct(batch') /\ Distinct(flushing')
      /\ \A d \in Events : Taken(d)' <=> Taken(d)
  BY DEF Elements, Pending, InMemory, AccountInv, EventsAccounted, Taken
<1>2. EventsAccounted'
  BY <1>1 DEF AccountInv, EventsAccounted
<1>3. FlushInv'
  BY <1>1 DEF AccountInv, FlushInv
<1>. QED BY <1>2, <1>3 DEF AccountInv

\* An event that was not handled yet enters the channel.
LEMMA AccountEnqueue ==
    ASSUME TypeOK, AccountInv, NEW e \in Events, ~Handled(e), Enqueue(e),
           UNCHANGED <<batch, flushing, todo, worker, stored, lost, throttled>>
    PROVE  AccountInv'
<1>1. /\ Elements(channel') = Elements(channel) \cup {e}
      /\ \A d \in Events : Taken(d)' <=> Taken(d) \/ d = e
  BY ElementsAppend DEF Enqueue, TypeOK, Taken
<1>2. /\ e \notin Elements(channel) /\ e \notin Elements(batch)
      /\ e \notin Pending /\ e \notin stored /\ e \notin lost /\ e \notin throttled
  BY DEF AccountInv, EventsAccounted, Handled, InMemory
<1>3. e \notin Elements(flushing)
  BY <1>2 DEF AccountInv, FlushInv, Pending
<1>4. Distinct(channel')
  BY <1>2, DistinctAppend DEF Enqueue, TypeOK, AccountInv, EventsAccounted
<1>5. /\ Elements(batch') = Elements(batch) /\ Elements(flushing') = Elements(flushing)
      /\ Pending' = Pending /\ Distinct(batch') /\ Distinct(flushing')
  BY DEF Elements, Pending, AccountInv, EventsAccounted
<1>6. EventsAccounted'
  BY <1>1, <1>2, <1>3, <1>4, <1>5 DEF AccountInv, EventsAccounted, InMemory
<1>7. FlushInv'
  BY <1>5 DEF AccountInv, FlushInv
<1>. QED BY <1>6, <1>7 DEF AccountInv

\* An event that was not handled yet is throttled.
LEMMA AccountThrottle ==
    ASSUME TypeOK, AccountInv, NEW e \in Events, ~Handled(e),
           throttled' = throttled \cup {e},
           UNCHANGED <<channel, batch, flushing, todo, worker, stored, lost, ticket>>
    PROVE  AccountInv'
<1>1. /\ Elements(channel') = Elements(channel) /\ Elements(batch') = Elements(batch)
      /\ Elements(flushing') = Elements(flushing) /\ Pending' = Pending
      /\ InMemory' = InMemory
      /\ Distinct(channel') /\ Distinct(batch') /\ Distinct(flushing')
      /\ \A d \in Events : Taken(d)' <=> Taken(d)
  BY DEF Elements, Pending, InMemory, AccountInv, EventsAccounted, Taken
<1>2. e \notin InMemory /\ e \notin stored /\ e \notin lost
  BY DEF AccountInv, EventsAccounted, Handled
<1>3. EventsAccounted'
  BY <1>1, <1>2 DEF AccountInv, EventsAccounted
<1>4. FlushInv'
  BY <1>1 DEF AccountInv, FlushInv
<1>. QED BY <1>3, <1>4 DEF AccountInv

LEMMA AccountTake ==
    ASSUME TypeOK, AccountInv, WorkerTake, worker # "flush", worker' # "flush",
           UNCHANGED <<flushing, todo, stored, lost, throttled, ticket>>
    PROVE  AccountInv'
<1> DEFINE e == Head(channel)
<1>1. /\ Elements(channel) = Elements(channel') \cup {e} /\ e \in Events
      /\ e \notin Elements(channel') /\ Distinct(channel')
  BY ElementsTail DEF WorkerTake, TypeOK, AccountInv, EventsAccounted
<1>2. /\ Elements(batch') = Elements(batch) \cup {e}
      /\ Distinct(batch')
  BY <1>1, ElementsAppend, DistinctAppend DEF WorkerTake, TypeOK, AccountInv, EventsAccounted
<1>3. /\ Elements(flushing') = Elements(flushing) /\ Pending' = Pending
      /\ Distinct(flushing') /\ \A d \in Events : Taken(d)' <=> Taken(d)
  BY DEF Elements, Pending, AccountInv, EventsAccounted, Taken
<1>4. InMemory' = InMemory
  BY <1>1, <1>2, <1>3 DEF InMemory
<1>5. EventsAccounted'
  BY <1>1, <1>2, <1>3, <1>4 DEF AccountInv, EventsAccounted
<1>6. FlushInv'
  BY <1>3 DEF AccountInv, FlushInv
<1>. QED BY <1>5, <1>6 DEF AccountInv

LEMMA AccountFlush ==
    ASSUME TypeOK, AccountInv,
           \/ FlushBegin \/ FlushEnd
           \/ \E p \in Projects : FlushProject(p)
    PROVE  AccountInv'
<1>c. /\ Elements(channel') = Elements(channel) /\ Distinct(channel')
      /\ \A d \in Events : Taken(d)' <=> Taken(d)
      /\ throttled' = throttled
  BY DEF FlushBegin, FlushEnd, FlushProject, Elements, AccountInv, EventsAccounted,
         Taken, historyVars
<1>1. CASE FlushBegin
  <2>e. Elements(<<>>) = {} /\ Distinct(<<>>)
    BY EmptySequence
  <2>f. flushing' = batch /\ batch' = <<>> /\ flushing = <<>> /\ Distinct(batch)
    BY <1>1 DEF FlushBegin, AccountInv, EventsAccounted, FlushInv
  <2>1. /\ Elements(flushing') = Elements(batch) /\ Distinct(flushing')
        /\ Elements(batch') = {} /\ Distinct(batch')
        /\ Elements(flushing) = {}
    BY <2>e, <2>f
  <2>2. Pending' = Elements(batch) /\ Pending = {}
    BY <1>1, <2>1 DEF FlushBegin, Pending
  <2>3. InMemory' = InMemory
    BY <1>c, <2>1, <2>2 DEF InMemory
  <2>4. EventsAccounted'
    BY <1>1, <1>c, <2>1, <2>3 DEF FlushBegin, historyVars, AccountInv, EventsAccounted
  <2>5. FlushInv'
    BY <1>1, <2>1 DEF FlushBegin, FlushInv
  <2>. QED BY <2>4, <2>5 DEF AccountInv
<1>2. CASE FlushEnd
  <2>e. Elements(<<>>) = {} /\ Distinct(<<>>)
    BY EmptySequence
  <2>f. flushing' = <<>> /\ batch' = batch /\ Distinct(batch)
    BY <1>2 DEF FlushEnd, AccountInv, EventsAccounted
  <2>1. /\ Elements(flushing') = {} /\ Distinct(flushing')
        /\ Elements(batch') = Elements(batch) /\ Distinct(batch')
    BY <2>e, <2>f
  <2>2. Pending' = {} /\ Pending = {}
    BY <1>2, <2>1 DEF FlushEnd, Pending
  <2>3. InMemory' = InMemory
    BY <1>c, <2>1, <2>2 DEF InMemory
  <2>4. EventsAccounted'
    BY <1>2, <1>c, <2>1, <2>3 DEF FlushEnd, historyVars, AccountInv, EventsAccounted
  <2>5. FlushInv'
    BY <1>2, <2>1 DEF FlushEnd, FlushInv
  <2>. QED BY <2>4, <2>5 DEF AccountInv
<1>3. ASSUME NEW p \in Projects, FlushProject(p)
      PROVE  AccountInv'
  <2>1. /\ Elements(flushing') = Elements(flushing) /\ Distinct(flushing')
        /\ Elements(batch') = Elements(batch) /\ Distinct(batch')
    BY <1>3 DEF FlushProject, Elements, AccountInv, EventsAccounted
  <2>2. /\ Pending' = Pending \ Group(p) /\ Group(p) \subseteq Pending
    BY <1>3, <2>1 DEF FlushProject, Pending, Group
  <2>3. InMemory' = InMemory \ Group(p) /\ Group(p) \subseteq InMemory
        /\ InMemory \subseteq Events
    BY <1>c, <2>1, <2>2, HeldType DEF InMemory, AccountInv, EventsAccounted, Pending
  <2>4. EventsAccounted'
    BY <1>3, <1>c, <2>1, <2>3 DEF FlushProject, AccountInv, EventsAccounted
  <2>5. FlushInv'
    BY <1>3, <2>1 DEF FlushProject, AccountInv, FlushInv, Group
  <2>. QED BY <2>4, <2>5 DEF AccountInv
<1>. QED BY <1>1, <1>2, <1>3

LEMMA AccountCrash ==
    ASSUME TypeOK, AccountInv, Crash
    PROVE  AccountInv'
<1>1. Elements(<<>>) = {} /\ Distinct(<<>>)
  BY EmptySequence
<1>2. /\ channel' = <<>> /\ batch' = <<>> /\ flushing' = <<>> /\ todo' = {}
      /\ lost' = lost \cup InMemory /\ stored' = stored
      /\ throttled' = throttled /\ ticket' = ticket
  BY DEF Crash
<1>3. /\ Elements(channel') = {} /\ Elements(batch') = {} /\ Elements(flushing') = {}
      /\ Distinct(channel') /\ Distinct(batch') /\ Distinct(flushing')
  BY <1>1, <1>2
<1>4. Pending' = {}
  BY <1>3 DEF Pending
<1>5. InMemory' = {}
  BY <1>3, <1>4 DEF InMemory
<1>6. \A d \in Events : Taken(d)' <=> Taken(d)
  BY <1>2 DEF Taken
<1>7. EventsAccounted'
  BY <1>2, <1>3, <1>5, <1>6 DEF AccountInv, EventsAccounted
<1>8. FlushInv'
  BY <1>2, <1>3 DEF FlushInv
<1>. QED BY <1>7, <1>8 DEF AccountInv

\* What a handler enqueues or throttles was not handled before.
LEMMA FreshEvent ==
    ASSUME TypeOK, StageInv, RequestInv
    PROVE  /\ \A r \in Envelopes : stage[r] \in {"throttle", "enqueue"} =>
                 <<r, 1>> \in Events /\ ~Handled(<<r, 1>>)
           /\ \A r \in Captures :
                 stage[r] \in {"loop", "enqueue"} /\ item[r] <= ItemCount[r] =>
                 <<r, item[r]>> \in Events /\ ~Handled(<<r, item[r]>>)
<1>1. ASSUME NEW r \in Envelopes, stage[r] \in {"throttle", "enqueue"}
      PROVE  <<r, 1>> \in Events /\ ~Handled(<<r, 1>>)
  <2>1. r \in Requests /\ ItemCount[r] = 1
    BY <1>1 DEF StageInv, Requests
  <2>2. AnswerRule(r) /\ ProgressRule(r)
    BY <2>1 DEF RequestInv
  <2>3. answer[r] = "none"
    BY <1>1, <2>2 DEF AnswerRule, Running, Stages
  <2>4. <<r, 1>> \in Events
    BY <2>1, EventFacts
  <2>5. ~Handled(<<r, 1>>)
    BY <1>1, <2>1, <2>2, <2>3 DEF ProgressRule
  <2>. QED BY <2>4, <2>5
<1>2. ASSUME NEW r \in Captures, item[r] <= ItemCount[r]
      PROVE  <<r, item[r]>> \in Events /\ ~Handled(<<r, item[r]>>)
  <2>1. r \in Requests /\ item[r] \in 1 .. ItemCount[r]
    BY <1>2, EventFacts DEF StageInv, Requests, TypeOK
  <2>2. ProgressRule(r)
    BY <2>1 DEF RequestInv
  <2>3. <<r, item[r]>> \in Events
    BY <2>1, EventFacts
  <2>4. ~Handled(<<r, item[r]>>)
    BY <1>2, <2>1, <2>2 DEF ProgressRule
  <2>. QED BY <2>3, <2>4
<1>. QED BY <1>1, <1>2

LEMMA AccountNext == TypeStage /\ RequestInv /\ AccountInv /\ [Next]_vars => AccountInv'
<1> SUFFICES ASSUME TypeOK, StageInv, RequestInv, AccountInv, [Next]_vars
             PROVE  AccountInv'
  BY DEF TypeStage
<1>1. ASSUME NEW r \in Envelopes, EnvelopeReceive(r) \/ EnvelopeStep(r)
      PROVE  AccountInv'
  <2>1. CASE EnvelopeThrottle(r)
    <3>1. <<r, 1>> \in Events /\ ~Handled(<<r, 1>>)
      BY <2>1, FreshEvent DEF EnvelopeThrottle
    <3>2. CASE throttled' = throttled \cup {<<r, 1>>}
      BY <2>1, <3>1, <3>2, AccountThrottle DEF EnvelopeThrottle, workerVars
    <3>3. CASE UNCHANGED throttled
      BY <2>1, <3>3, AccountSame DEF EnvelopeThrottle, workerVars
    <3>. QED BY <2>1, <3>2, <3>3 DEF EnvelopeThrottle
  <2>2. CASE EnvelopeEnqueue(r)
    <3>1. <<r, 1>> \in Events /\ ~Handled(<<r, 1>>)
      BY <2>2, FreshEvent DEF EnvelopeEnqueue
    <3>2. CASE Enqueue(<<r, 1>>)
      BY <2>2, <3>1, <3>2, AccountEnqueue DEF EnvelopeEnqueue, workerVars
    <3>3. CASE UNCHANGED <<channel, ticket>>
      BY <2>2, <3>3, AccountSame DEF EnvelopeEnqueue, workerVars
    <3>. QED BY <2>2, <3>2, <3>3 DEF EnvelopeEnqueue
  <2>3. CASE ~EnvelopeThrottle(r) /\ ~EnvelopeEnqueue(r)
    BY <1>1, <2>3, AccountSame
       DEF EnvelopeStep, EnvelopeReceive, EnvelopeVerdict, EnvelopeSession,
           EnvelopeReply, workerVars, historyVars
  <2>. QED BY <2>1, <2>2, <2>3
<1>2. ASSUME NEW r \in Captures, CaptureReceive(r) \/ CaptureStep(r)
      PROVE  AccountInv'
  <2>1. CASE CaptureItem(r)
    <3>1. <<r, item[r]>> \in Events /\ ~Handled(<<r, item[r]>>)
      BY <2>1, FreshEvent DEF CaptureItem, MoreItems
    <3>2. CASE throttled' = throttled \cup {<<r, item[r]>>}
      BY <2>1, <3>1, <3>2, AccountThrottle DEF CaptureItem, workerVars
    <3>3. CASE UNCHANGED throttled
      BY <2>1, <3>3, AccountSame DEF CaptureItem, workerVars
    <3>. QED BY <2>1, <3>2, <3>3 DEF CaptureItem
  <2>2. CASE CaptureEnqueue(r)
    <3>1. item[r] <= ItemCount[r]
      BY <2>2 DEF CaptureEnqueue, StageInv
    <3>2. <<r, item[r]>> \in Events /\ ~Handled(<<r, item[r]>>)
      BY <2>2, <3>1, FreshEvent DEF CaptureEnqueue
    <3>3. CASE Enqueue(<<r, item[r]>>)
      BY <2>2, <3>2, <3>3, AccountEnqueue DEF CaptureEnqueue, workerVars
    <3>4. CASE UNCHANGED <<channel, ticket>>
      BY <2>2, <3>4, AccountSame DEF CaptureEnqueue, workerVars
    <3>. QED BY <2>2, <3>3, <3>4 DEF CaptureEnqueue
  <2>3. CASE CaptureReceive(r) \/ CaptureDone(r)
    BY <2>3, AccountSame
       DEF CaptureReceive, CaptureDone, workerVars, historyVars
  <2>. QED BY <1>2, <2>1, <2>2, <2>3 DEF CaptureStep
<1>3. ASSUME NEW u \in UserFps, ThrottleExpires(u)
      PROVE  AccountInv'
  BY <1>3, AccountSame DEF ThrottleExpires, workerVars, historyVars
<1>4. CASE WorkerReceive \/ WorkerFill
  BY <1>4, AccountTake DEF WorkerReceive, WorkerFill, historyVars
<1>5. CASE WorkerCheck \/ WorkerLoop \/ IntervalElapses
  BY <1>5, AccountSame
     DEF WorkerCheck, WorkerLoop, IntervalElapses, handlerVars, historyVars
<1>6. CASE FlushBegin \/ FlushEnd \/ \E p \in Projects : FlushProject(p)
  BY <1>6, AccountFlush
<1>7. CASE Crash
  BY <1>7, AccountCrash
<1>8. CASE UNCHANGED vars
  BY <1>8, AccountSame DEF vars, workerVars, historyVars
<1>9. ASSUME NEW r \in Requests, Disconnect(r)
      PROVE  AccountInv'
  BY <1>9, AccountSame DEF Disconnect, workerVars, historyVars
<1>. QED BY <1>1, <1>2, <1>3, <1>4, <1>5, <1>6, <1>7, <1>8, <1>9 DEF Next, WorkerStep

LEMMA AccountInit == Init => AccountInv
<1> SUFFICES ASSUME Init PROVE AccountInv
  OBVIOUS
<1>1. Elements(<<>>) = {} /\ Distinct(<<>>)
  BY EmptySequence
<1>2. InMemory = {}
  BY <1>1 DEF Init, InMemory, Pending
<1>. QED BY <1>1, <1>2 DEF Init, AccountInv, EventsAccounted, FlushInv, Taken

\* No event is lost silently, duplicated, or counted in two places: whatever
\* the interleaving of handlers, flushes, failures and crashes, an event the
\* channel took is held exactly once, or stored, or known to be lost.
THEOREM EventsNeverMisplaced == Spec => []EventsAccounted
<1>1. Init => TypeStage /\ RequestInv /\ AccountInv
  BY RequestInit, AccountInit
<1>2. TypeStage /\ RequestInv /\ AccountInv /\ [Next]_vars
        => (TypeStage /\ RequestInv /\ AccountInv)'
  BY TypeStageNext, RequestNext, AccountNext
<1>3. AccountInv => EventsAccounted
  BY DEF AccountInv
<1>. QED BY <1>1, <1>2, <1>3, PTL DEF Spec

-----------------------------------------------------------------------------
(* Order                                                                   *)

LEMMA SortedAppend ==
    ASSUME NEW s \in Seq(Events), NEW x \in Events, Sorted(s),
           \A d \in Elements(s) : ticket[d] < ticket[x]
    PROVE  Sorted(Append(s, x))
BY DEF Sorted, Elements

LEMMA SortedTail ==
    ASSUME NEW s \in Seq(Events), s # <<>>, Sorted(s)
    PROVE  /\ Sorted(Tail(s))
           /\ \A d \in Elements(Tail(s)) : ticket[Head(s)] < ticket[d]
<1>1. Sorted(Tail(s))
  BY DEF Sorted
<1>2. ASSUME NEW i \in 1 .. Len(Tail(s))
      PROVE  ticket[Head(s)] < ticket[Tail(s)[i]]
  <2>1. /\ i + 1 \in 1 .. Len(s) /\ 1 \in 1 .. Len(s) /\ 1 < i + 1
        /\ Tail(s)[i] = s[i + 1] /\ Head(s) = s[1]
    OBVIOUS
  <2>. QED BY <2>1 DEF Sorted
<1>. QED BY <1>1, <1>2 DEF Elements

LEMMA SortedEmpty == Sorted(<<>>)
BY DEF Sorted

LEMMA OrderSame ==
    ASSUME OrderInv,
           UNCHANGED <<channel, batch, flushing, todo, stored, ticket, clock>>
    PROVE  OrderInv'
<1>1. /\ Elements(channel') = Elements(channel) /\ Elements(batch') = Elements(batch)
      /\ Elements(flushing') = Elements(flushing) /\ Pending' = Pending
  BY DEF Elements, Pending
<1>2. Sorted(channel)' /\ Sorted(batch)' /\ Sorted(flushing)'
  BY DEF OrderInv, Sorted
<1>. QED BY <1>1, <1>2 DEF OrderInv, Older

\* The youngest event so far joins the end of the channel.
LEMMA OrderEnqueue ==
    ASSUME TypeOK, AccountInv, OrderInv, NEW e \in Events, ~Handled(e), Enqueue(e),
           UNCHANGED <<batch, flushing, todo, stored, lost>>
    PROVE  OrderInv'
<1>1. /\ ticket'[e] = clock + 1 /\ clock' = clock + 1 /\ clock \in Nat
      /\ \A d \in Events : ticket[d] \in Nat /\ ticket[d] <= clock
      /\ \A d \in Events \ {e} : ticket'[d] = ticket[d]
  BY DEF Enqueue, TypeOK, OrderInv
<1>2. /\ e \notin Elements(channel) /\ e \notin Elements(batch)
      /\ e \notin Pending /\ e \notin stored /\ e \notin lost
  BY DEF AccountInv, EventsAccounted, Handled, InMemory
<1>3. e \notin Elements(flushing)
  BY <1>2 DEF AccountInv, FlushInv, Pending
<1>4. /\ Elements(channel) \subseteq Events /\ Elements(batch) \subseteq Events
      /\ Elements(flushing) \subseteq Events /\ Pending \subseteq Events
      /\ stored \subseteq Events
  BY HeldType DEF TypeOK
<1>5. /\ Elements(channel') = Elements(channel) \cup {e}
      /\ Elements(batch') = Elements(batch) /\ Elements(flushing') = Elements(flushing)
      /\ Pending' = Pending /\ stored' = stored
  <2>1. Elements(channel') = Elements(channel) \cup {e}
    BY ElementsAppend DEF Enqueue, TypeOK
  <2>. QED BY <2>1 DEF Elements, Pending
<1>6. ASSUME NEW s \in Seq(Events), Sorted(s), e \notin Elements(s)
      PROVE  \A i, j \in 1 .. Len(s) : i < j => ticket'[s[i]] < ticket'[s[j]]
  <2>1. \A i \in 1 .. Len(s) : s[i] \in Events /\ s[i] # e
    BY <1>6 DEF Elements
  <2>. QED BY <1>1, <1>6, <2>1 DEF Sorted
<1>7. Sorted(batch)' /\ Sorted(flushing)'
  BY <1>2, <1>3, <1>6 DEF OrderInv, TypeOK, Sorted
<1>8. Sorted(channel)'
  <2> DEFINE c == Append(channel, e)
  <2>1. channel' = c /\ channel \in Seq(Events) /\ Len(c) = Len(channel) + 1
    BY DEF Enqueue, TypeOK
  <2>2. ASSUME NEW i \in 1 .. Len(c), NEW j \in 1 .. Len(c), i < j
        PROVE  ticket'[c[i]] < ticket'[c[j]]
    <3>1. i \in 1 .. Len(channel) /\ c[i] = channel[i]
      BY <2>1, <2>2
    <3>2. CASE j \in 1 .. Len(channel)
      <4>1. c[j] = channel[j]
        BY <2>1, <3>2
      <4>. QED BY <1>2, <1>6, <2>1, <2>2, <3>1, <3>2, <4>1 DEF OrderInv
    <3>3. CASE j = Len(channel) + 1
      <4>1. c[j] = e
        BY <2>1, <3>3
      <4>2. channel[i] \in Events /\ channel[i] # e
        BY <1>2, <2>1, <3>1 DEF Elements
      <4>. QED BY <1>1, <3>1, <4>1, <4>2
    <3>. QED BY <2>1, <3>2, <3>3
  <2>. QED BY <2>1, <2>2 DEF Sorted
<1>9. \A d \in Events : ticket'[d] <= clock'
  BY <1>1
<1>10. \A d \in Events \ {e} : ticket'[d] < ticket'[e]
  BY <1>1
<1>11. /\ Older(Elements(batch), Elements(channel))'
       /\ Older(Elements(flushing), Elements(batch) \cup Elements(channel))'
       /\ Older(stored, Elements(batch) \cup Elements(channel))'
  BY <1>1, <1>2, <1>3, <1>4, <1>5, <1>10 DEF OrderInv, Older
<1>12. \A d \in stored', f \in Pending' :
         EventProject(d) = EventProject(f) => ticket'[d] < ticket'[f]
  BY <1>1, <1>2, <1>4, <1>5 DEF OrderInv
<1>. QED BY <1>7, <1>8, <1>9, <1>11, <1>12 DEF OrderInv

LEMMA OrderTake ==
    ASSUME TypeOK, AccountInv, OrderInv, WorkerTake,
           UNCHANGED <<flushing, todo, stored, ticket, clock>>
    PROVE  OrderInv'
<1> DEFINE e == Head(channel)
<1>1. /\ Elements(channel) = Elements(channel') \cup {e} /\ e \in Events
      /\ channel' = Tail(channel) /\ channel # <<>> /\ channel \in Seq(Events)
  BY ElementsTail DEF WorkerTake, TypeOK, AccountInv, EventsAccounted
<1>2. /\ Elements(batch') = Elements(batch) \cup {e}
      /\ batch' = Append(batch, e) /\ batch \in Seq(Events)
  BY <1>1, ElementsAppend DEF WorkerTake, TypeOK
<1>3. Elements(flushing') = Elements(flushing) /\ Pending' = Pending
  BY DEF Elements, Pending
<1>4. Sorted(Tail(channel)) /\ \A d \in Elements(channel') : ticket[e] < ticket[d]
  BY <1>1, SortedTail DEF OrderInv
<1>5. Sorted(Append(batch, e))
  <2>1. \A d \in Elements(batch) : ticket[d] < ticket[e]
    BY <1>1 DEF OrderInv, Older
  <2>. QED BY <1>1, <1>2, <2>1, SortedAppend DEF OrderInv
<1>6. Sorted(channel)' /\ Sorted(batch)' /\ Sorted(flushing)'
  BY <1>1, <1>2, <1>4, <1>5 DEF OrderInv, Sorted
<1>7. Older(Elements(batch), Elements(channel))'
  BY <1>1, <1>2, <1>4 DEF OrderInv, Older
<1>8. Elements(batch') \cup Elements(channel') = Elements(batch) \cup Elements(channel)
  BY <1>1, <1>2
<1>9. /\ Older(Elements(flushing), Elements(batch) \cup Elements(channel))'
      /\ Older(stored, Elements(batch) \cup Elements(channel))'
  BY <1>3, <1>8 DEF OrderInv, Older
<1>. QED BY <1>3, <1>6, <1>7, <1>9 DEF OrderInv

LEMMA OrderFlush ==
    ASSUME TypeOK, AccountInv, OrderInv,
           \/ FlushBegin \/ FlushEnd
           \/ \E p \in Projects : FlushProject(p)
    PROVE  OrderInv'
<1>1. /\ Elements(channel') = Elements(channel) /\ Sorted(channel)'
      /\ UNCHANGED <<ticket, clock>>
  BY DEF FlushBegin, FlushEnd, FlushProject, Elements, OrderInv, Sorted, historyVars
<1>2. Elements(<<>>) = {} /\ Sorted(<<>>)'
  BY EmptySequence DEF Sorted
<1>3. CASE FlushBegin
  <2>1. /\ flushing' = batch /\ batch' = <<>> /\ stored' = stored
    BY <1>3 DEF FlushBegin
  <2>2. Elements(flushing') = Elements(batch) /\ Elements(batch') = {}
    BY <1>2, <2>1
  <2>3. Pending' \subseteq Elements(batch)
    BY <2>2 DEF Pending
  <2>4. Sorted(flushing)' /\ Sorted(batch)'
    BY <1>1, <1>2, <2>1 DEF OrderInv, Sorted
  <2>5. /\ Older(Elements(batch), Elements(channel))'
        /\ Older(Elements(flushing), Elements(batch) \cup Elements(channel))'
        /\ Older(stored, Elements(batch) \cup Elements(channel))'
    BY <1>1, <2>1, <2>2 DEF OrderInv, Older
  <2>6. \A d \in stored', f \in Pending' : ticket'[d] < ticket'[f]
    BY <1>1, <2>1, <2>3 DEF OrderInv, Older
  <2>. QED BY <1>1, <2>4, <2>5, <2>6 DEF OrderInv
<1>4. CASE FlushEnd
  <2>1. flushing' = <<>> /\ batch' = batch /\ stored' = stored
    BY <1>4 DEF FlushEnd
  <2>2. Elements(flushing') = {} /\ Elements(batch') = Elements(batch)
    BY <1>2, <2>1
  <2>3. Pending' = {}
    BY <2>2 DEF Pending
  <2>4. Sorted(flushing)' /\ Sorted(batch)'
    BY <1>1, <1>2, <2>1 DEF OrderInv, Sorted
  <2>. QED BY <1>1, <2>1, <2>2, <2>3, <2>4 DEF OrderInv, Older
<1>5. ASSUME NEW p \in Projects, FlushProject(p)
      PROVE  OrderInv'
  <2>1. /\ Elements(flushing') = Elements(flushing) /\ Elements(batch') = Elements(batch)
        /\ Sorted(flushing)' /\ Sorted(batch)'
    BY <1>1, <1>5 DEF FlushProject, Elements, OrderInv, Sorted
  <2>2. /\ Pending' = Pending \ Group(p) /\ Group(p) \subseteq Elements(flushing)
        /\ \A d \in Group(p), f \in Pending' : EventProject(d) # EventProject(f)
    BY <1>5, <2>1 DEF FlushProject, Pending, Group
  <2>3. stored' \subseteq stored \cup Group(p)
    BY <1>5 DEF FlushProject
  <2>4. /\ Older(Elements(batch), Elements(channel))'
        /\ Older(Elements(flushing), Elements(batch) \cup Elements(channel))'
    BY <1>1, <2>1 DEF OrderInv, Older
  <2>5. Older(stored, Elements(batch) \cup Elements(channel))'
    BY <1>1, <2>1, <2>2, <2>3 DEF OrderInv, Older
  <2>6. \A d \in stored', f \in Pending' :
          EventProject(d) = EventProject(f) => ticket'[d] < ticket'[f]
    BY <1>1, <2>2, <2>3 DEF OrderInv
  <2>. QED BY <1>1, <2>1, <2>4, <2>5, <2>6 DEF OrderInv
<1>. QED BY <1>3, <1>4, <1>5

LEMMA OrderCrash ==
    ASSUME OrderInv, Crash
    PROVE  OrderInv'
<1>1. Elements(<<>>) = {} /\ Sorted(<<>>)'
  BY EmptySequence DEF Sorted
<1>2. /\ channel' = <<>> /\ batch' = <<>> /\ flushing' = <<>> /\ todo' = {}
      /\ UNCHANGED <<ticket, clock>>
  BY DEF Crash
<1>3. /\ Elements(channel') = {} /\ Elements(batch') = {} /\ Elements(flushing') = {}
      /\ Pending' = {}
  BY <1>1, <1>2 DEF Pending
<1>4. Sorted(channel)' /\ Sorted(batch)' /\ Sorted(flushing)'
  BY <1>1, <1>2
<1>. QED BY <1>2, <1>3, <1>4 DEF OrderInv, Older

LEMMA OrderNext ==
    TypeStage /\ RequestInv /\ AccountInv /\ OrderInv /\ [Next]_vars => OrderInv'
<1> SUFFICES ASSUME TypeOK, StageInv, RequestInv, AccountInv, OrderInv, [Next]_vars
             PROVE  OrderInv'
  BY DEF TypeStage
<1>1. ASSUME NEW r \in Envelopes, EnvelopeReceive(r) \/ EnvelopeStep(r)
      PROVE  OrderInv'
  <2>1. CASE EnvelopeEnqueue(r)
    <3>1. <<r, 1>> \in Events /\ ~Handled(<<r, 1>>)
      BY <2>1, FreshEvent DEF EnvelopeEnqueue
    <3>2. CASE Enqueue(<<r, 1>>)
      BY <2>1, <3>1, <3>2, OrderEnqueue DEF EnvelopeEnqueue, workerVars
    <3>3. CASE UNCHANGED <<channel, ticket, clock>>
      BY <2>1, <3>3, OrderSame DEF EnvelopeEnqueue, workerVars
    <3>. QED BY <2>1, <3>2, <3>3 DEF EnvelopeEnqueue
  <2>2. CASE ~EnvelopeEnqueue(r)
    BY <1>1, <2>2, OrderSame
       DEF EnvelopeStep, EnvelopeReceive, EnvelopeVerdict, EnvelopeSession,
           EnvelopeThrottle, EnvelopeReply, workerVars, historyVars
  <2>. QED BY <2>1, <2>2
<1>2. ASSUME NEW r \in Captures, CaptureReceive(r) \/ CaptureStep(r)
      PROVE  OrderInv'
  <2>1. CASE CaptureEnqueue(r)
    <3>1. item[r] <= ItemCount[r]
      BY <2>1 DEF CaptureEnqueue, StageInv
    <3>2. <<r, item[r]>> \in Events /\ ~Handled(<<r, item[r]>>)
      BY <2>1, <3>1, FreshEvent DEF CaptureEnqueue
    <3>3. CASE Enqueue(<<r, item[r]>>)
      BY <2>1, <3>2, <3>3, OrderEnqueue DEF CaptureEnqueue, workerVars
    <3>4. CASE UNCHANGED <<channel, ticket, clock>>
      BY <2>1, <3>4, OrderSame DEF CaptureEnqueue, workerVars
    <3>. QED BY <2>1, <3>3, <3>4 DEF CaptureEnqueue
  <2>2. CASE ~CaptureEnqueue(r)
    BY <1>2, <2>2, OrderSame
       DEF CaptureStep, CaptureReceive, CaptureItem, CaptureDone, workerVars, historyVars
  <2>. QED BY <2>1, <2>2
<1>3. ASSUME NEW u \in UserFps, ThrottleExpires(u)
      PROVE  OrderInv'
  BY <1>3, OrderSame DEF ThrottleExpires, workerVars, historyVars
<1>4. CASE WorkerReceive \/ WorkerFill
  BY <1>4, OrderTake DEF WorkerReceive, WorkerFill, historyVars
<1>5. CASE WorkerCheck \/ WorkerLoop \/ IntervalElapses
  BY <1>5, OrderSame DEF WorkerCheck, WorkerLoop, IntervalElapses, historyVars
<1>6. CASE FlushBegin \/ FlushEnd \/ \E p \in Projects : FlushProject(p)
  BY <1>6, OrderFlush
<1>7. CASE Crash
  BY <1>7, OrderCrash
<1>8. CASE UNCHANGED vars
  BY <1>8, OrderSame DEF vars, workerVars, historyVars
<1>9. ASSUME NEW r \in Requests, Disconnect(r)
      PROVE  OrderInv'
  BY <1>9, OrderSame DEF Disconnect, workerVars, historyVars
<1>. QED BY <1>1, <1>2, <1>3, <1>4, <1>5, <1>6, <1>7, <1>8, <1>9 DEF Next, WorkerStep

LEMMA OrderInit == Init => OrderInv
<1> SUFFICES ASSUME Init PROVE OrderInv
  OBVIOUS
<1>1. Elements(<<>>) = {} /\ Sorted(<<>>)
  BY EmptySequence, SortedEmpty
<1>2. Pending = {}
  BY <1>1 DEF Init, Pending
<1>. QED BY <1>1, <1>2 DEF Init, OrderInv, Older

\* A project's database receives its events in the order the channel took
\* them, although they pass through a channel, a batch that survives many
\* rounds of the worker loop, and flushes that may fail in between.
THEOREM CommitsInOrder == Spec => StoresInOrder
<1> DEFINE Inv == TypeStage /\ RequestInv /\ AccountInv /\ OrderInv
<1>1. Init => Inv
  BY RequestInit, AccountInit, OrderInit
<1>2. Inv /\ [Next]_vars => Inv'
  BY TypeStageNext, RequestNext, AccountNext, OrderNext
<1>3. Inv /\ [Next]_vars =>
        [\A e \in stored' \ stored, d \in stored :
            EventProject(d) = EventProject(e) => ticket[d] < ticket[e]]_vars
  <2> SUFFICES ASSUME Inv, [Next]_vars,
                      NEW e \in stored' \ stored, NEW d \in stored,
                      EventProject(d) = EventProject(e)
               PROVE  ticket[d] < ticket[e]
    OBVIOUS
  <2>1. PICK p \in Projects : FlushProject(p)
    <3>1. stored' # stored
      OBVIOUS
    <3>. QED
      BY <3>1
         DEF Next, vars, EnvelopeReceive, EnvelopeStep, EnvelopeVerdict, EnvelopeSession,
             EnvelopeThrottle, EnvelopeEnqueue, EnvelopeReply, CaptureReceive,
             CaptureStep, CaptureItem, CaptureEnqueue, CaptureDone, ThrottleExpires,
             WorkerStep, WorkerReceive, WorkerFill, WorkerCheck, WorkerLoop, FlushBegin,
             FlushEnd, IntervalElapses, Crash, Disconnect
  <2>2. e \in Group(p) /\ p \in todo
    BY <2>1 DEF FlushProject
  <2>3. e \in Pending
    BY <2>2 DEF Group, Pending
  <2>. QED BY <2>3 DEF OrderInv
<1>. QED BY <1>1, <1>2, <1>3, PTL DEF Spec, StoresInOrder

-----------------------------------------------------------------------------
(* The counters                                                            *)

Open == {r \in Envelopes : stage[r] \in Running \cup {"cut"}}
Refused == {r \in Captures : stage[r] = "answered" /\ answer[r] = "iplimit"}

LEMMA OpenFinite ==
    /\ IsFiniteSet(Open) /\ IsFiniteSet(Refused)
    /\ Cardinality(Open) \in Nat /\ Cardinality(Refused) \in Nat
<1>1. IsFiniteSet(Open) /\ IsFiniteSet(Refused)
  BY RequestAssumption, FS_Subset DEF Open, Refused
<1>. QED BY <1>1, FS_CardinalityType

\* What an answer or a step of an envelope does to the two sets.
LEMMA EnvelopeMoves ==
    ASSUME TypeOK, NEW r \in Envelopes
    PROVE  /\ \A a \in Answers : Reply(r, a) =>
                 Open' = Open \ {r} /\ Refused' = Refused
           /\ \A s \in Running : Goto(r, s) /\ UNCHANGED answer =>
                 Open' = Open \cup {r} /\ Refused' = Refused
<1> r \in Requests /\ r \notin Captures
  BY RequestAssumption DEF Requests
<1>1. ASSUME NEW a \in Answers, Reply(r, a)
      PROVE  Open' = Open \ {r} /\ Refused' = Refused
  <2>1. /\ stage'[r] = "answered"
        /\ \A x \in Requests \ {r} : stage'[x] = stage[x] /\ answer'[x] = answer[x]
    BY <1>1 DEF Reply, TypeOK
  <2>. QED BY <2>1 DEF Open, Refused, Requests, Running
<1>2. ASSUME NEW s \in Running, Goto(r, s), UNCHANGED answer
      PROVE  Open' = Open \cup {r} /\ Refused' = Refused
  <2>1. /\ stage'[r] = s
        /\ \A x \in Requests \ {r} : stage'[x] = stage[x] /\ answer'[x] = answer[x]
    BY <1>2 DEF Goto, TypeOK
  <2>. QED BY <2>1 DEF Open, Refused, Requests
<1>. QED BY <1>1, <1>2

LEMMA CaptureMoves ==
    ASSUME TypeOK, NEW r \in Captures, stage[r] # "answered"
    PROVE  /\ r \notin Refused
           /\ Reply(r, "iplimit") => Open' = Open /\ Refused' = Refused \cup {r}
           /\ \A a \in Answers \ {"iplimit"} : Reply(r, a) =>
                 Open' = Open /\ Refused' = Refused
           /\ \A s \in Running : Goto(r, s) /\ UNCHANGED answer =>
                 Open' = Open /\ Refused' = Refused
<1> r \in Requests /\ r \notin Envelopes
  BY RequestAssumption DEF Requests
<1>1. r \notin Refused
  BY DEF Refused
<1>2. ASSUME NEW a \in Answers, Reply(r, a)
      PROVE  /\ Open' = Open
             /\ Refused' = IF a = "iplimit" THEN Refused \cup {r} ELSE Refused
  <2>1. /\ stage'[r] = "answered" /\ answer'[r] = a
        /\ \A x \in Requests \ {r} : stage'[x] = stage[x] /\ answer'[x] = answer[x]
    BY <1>2 DEF Reply, TypeOK
  <2>. QED BY <1>1, <2>1 DEF Open, Refused, Requests
<1>3. ASSUME NEW s \in Running, Goto(r, s), UNCHANGED answer
      PROVE  Open' = Open /\ Refused' = Refused
  <2>1. /\ stage'[r] # "answered"
        /\ \A x \in Requests \ {r} : stage'[x] = stage[x] /\ answer'[x] = answer[x]
    BY <1>3 DEF Goto, TypeOK, Running
  <2>. QED BY <1>1, <2>1 DEF Open, Refused, Requests
<1>4. "iplimit" \in Answers
  BY DEF Answers
<1>. QED BY <1>1, <1>2, <1>3, <1>4

LEMMA BalanceSame ==
    ASSUME MetricsBalance, UNCHANGED metrics, Open' = Open, Refused' = Refused
    PROVE  MetricsBalance'
BY DEF MetricsBalance, Open, Refused

\* One more envelope is open and one more is counted as received.
LEMMA BalanceOpened ==
    ASSUME TypeOK, MetricsBalance, NEW r, r \notin Open, Bump("received"),
           Open' = Open \cup {r}, Refused' = Refused
    PROVE  MetricsBalance'
<1>1. Cardinality(Open') = Cardinality(Open) + 1 /\ Cardinality(Refused') = Cardinality(Refused)
  BY OpenFinite, FS_AddElement
<1>2. /\ metrics'["received"] = metrics["received"] + 1
      /\ \A c \in Counters \ {"received"} : metrics'[c] = metrics[c]
      /\ \A c \in Counters : metrics[c] \in Nat
  BY DEF Bump, TypeOK, Counters
<1>. QED BY <1>1, <1>2, OpenFinite DEF MetricsBalance, Open, Refused, Counters

\* One envelope is answered and counted under one heading.
LEMMA BalanceClosed ==
    ASSUME TypeOK, MetricsBalance, NEW r \in Open,
           NEW c \in {"processed", "dropped", "rateLimited"}, Bump(c),
           Open' = Open \ {r}, Refused' = Refused
    PROVE  MetricsBalance'
<1>1. Cardinality(Open') = Cardinality(Open) - 1 /\ Cardinality(Refused') = Cardinality(Refused)
  BY OpenFinite, FS_RemoveElement
<1>2. /\ metrics'[c] = metrics[c] + 1
      /\ \A d \in Counters \ {c} : metrics'[d] = metrics[d]
      /\ \A d \in Counters : metrics[d] \in Nat
  BY DEF Bump, TypeOK, Counters
<1>. QED BY <1>1, <1>2, OpenFinite DEF MetricsBalance, Open, Refused, Counters

LEMMA BalanceRefused ==
    ASSUME TypeOK, MetricsBalance, NEW r, r \notin Refused, Bump("rateLimited"),
           Open' = Open, Refused' = Refused \cup {r}
    PROVE  MetricsBalance'
<1>1. Cardinality(Open') = Cardinality(Open) /\ Cardinality(Refused') = Cardinality(Refused) + 1
  BY OpenFinite, FS_AddElement
<1>2. /\ metrics'["rateLimited"] = metrics["rateLimited"] + 1
      /\ \A c \in Counters \ {"rateLimited"} : metrics'[c] = metrics[c]
      /\ \A c \in Counters : metrics[c] \in Nat
  BY DEF Bump, TypeOK, Counters
<1>. QED BY <1>1, <1>2, OpenFinite DEF MetricsBalance, Open, Refused, Counters

\* The flush counters are no part of the balance.
LEMMA BalanceFlush ==
    ASSUME TypeOK, MetricsBalance, NEW c \in {"flushOk", "flushFailed"}, Bump(c),
           Open' = Open, Refused' = Refused
    PROVE  MetricsBalance'
<1>1. \A d \in Counters \ {c} : metrics'[d] = metrics[d]
  BY DEF Bump, TypeOK, Counters
<1>. QED BY <1>1 DEF MetricsBalance, Open, Refused, Counters

LEMMA BalanceEnvelope ==
    ASSUME TypeOK, StageInv, MetricsBalance, NEW r \in Envelopes,
           EnvelopeReceive(r) \/ EnvelopeStep(r)
    PROVE  MetricsBalance'
<1> USE DEF Running, Stages
<1>0. {"ok", "full", "refused", "limited", "iplimit"} \subseteq Answers
  BY DEF Answers
<1>1. CASE EnvelopeReceive(r)
  <2>1. r \notin Open
    BY <1>1 DEF EnvelopeReceive, Open
  <2>. QED BY <1>1, <2>1, EnvelopeMoves, BalanceOpened DEF EnvelopeReceive
<1>2. ASSUME stage[r] \in Running, NEW a \in Answers, Reply(r, a),
             NEW c \in {"processed", "dropped", "rateLimited"}, Bump(c)
      PROVE  MetricsBalance'
  <2>1. r \in Open
    BY <1>2 DEF Open
  <2>. QED BY <1>2, <2>1, EnvelopeMoves, BalanceClosed
<1>3. ASSUME stage[r] \in Running, NEW s \in Running, Goto(r, s),
             UNCHANGED <<answer, metrics>>
      PROVE  MetricsBalance'
  <2>1. r \in Open
    BY <1>3 DEF Open
  <2>2. Open' = Open /\ Refused' = Refused
    BY <1>3, <2>1, EnvelopeMoves
  <2>. QED BY <1>3, <2>2, BalanceSame
<1>4. CASE EnvelopeVerdict(r)
  BY <1>4, <1>0, <1>2, <1>3, VerdictCases
<1>5. CASE EnvelopeSession(r)
  BY <1>5, <1>0, <1>2, <1>3 DEF EnvelopeSession
<1>6. CASE EnvelopeThrottle(r)
  BY <1>6, <1>0, <1>2, <1>3 DEF EnvelopeThrottle
<1>7. CASE EnvelopeEnqueue(r)
  BY <1>7, <1>0, <1>2, <1>3 DEF EnvelopeEnqueue
<1>8. CASE EnvelopeReply(r)
  BY <1>8, <1>0, <1>2, <1>3 DEF EnvelopeReply
<1>. QED BY <1>1, <1>4, <1>5, <1>6, <1>7, <1>8 DEF EnvelopeStep

LEMMA BalanceCapture ==
    ASSUME TypeOK, StageInv, MetricsBalance, NEW r \in Captures,
           CaptureReceive(r) \/ CaptureStep(r)
    PROVE  MetricsBalance'
<1>0. /\ {"ok", "full", "refused", "limited"} \subseteq Answers \ {"iplimit"}
      /\ {"loop", "enqueue"} \subseteq Running
  BY DEF Answers, Running, Stages
<1>1. stage[r] # "answered"
  BY DEF CaptureReceive, CaptureStep, CaptureItem, CaptureEnqueue, CaptureDone
<1>2. ASSUME NEW a \in Answers \ {"iplimit"}, Reply(r, a), UNCHANGED metrics
      PROVE  MetricsBalance'
  BY <1>1, <1>2, CaptureMoves, BalanceSame
<1>3. ASSUME NEW s \in Running, Goto(r, s), UNCHANGED <<answer, metrics>>
      PROVE  MetricsBalance'
  BY <1>1, <1>3, CaptureMoves, BalanceSame
<1>4. ASSUME Reply(r, "iplimit"), Bump("rateLimited")
      PROVE  MetricsBalance'
  BY <1>1, <1>4, CaptureMoves, BalanceRefused
<1>5. ASSUME UNCHANGED <<stage, answer, metrics>>
      PROVE  MetricsBalance'
  BY <1>5 DEF MetricsBalance
<1>6. CASE CaptureReceive(r)
  BY <1>6, <1>0, <1>2, <1>3, <1>4 DEF CaptureReceive
<1>7. CASE CaptureItem(r)
  BY <1>7, <1>0, <1>2, <1>3, <1>5 DEF CaptureItem
<1>8. CASE CaptureEnqueue(r)
  BY <1>8, <1>0, <1>2, <1>3 DEF CaptureEnqueue
<1>9. CASE CaptureDone(r)
  BY <1>9, <1>0, <1>2 DEF CaptureDone
<1>. QED BY <1>6, <1>7, <1>8, <1>9 DEF CaptureStep

LEMMA BalanceNext == TypeStage /\ MetricsBalance /\ [Next]_vars => MetricsBalance'
<1> SUFFICES ASSUME TypeOK, StageInv, MetricsBalance, [Next]_vars
             PROVE  MetricsBalance'
  BY DEF TypeStage
<1>1. ASSUME UNCHANGED <<stage, answer, metrics>>
      PROVE  MetricsBalance'
  BY <1>1 DEF MetricsBalance
<1>2. CASE \E r \in Envelopes : EnvelopeReceive(r) \/ EnvelopeStep(r)
  BY <1>2, BalanceEnvelope
<1>3. CASE \E r \in Captures : CaptureReceive(r) \/ CaptureStep(r)
  BY <1>3, BalanceCapture
<1>4. CASE \E u \in UserFps : ThrottleExpires(u)
  BY <1>4, <1>1 DEF ThrottleExpires
<1>5. ASSUME NEW p \in Projects, FlushProject(p)
      PROVE  MetricsBalance'
  <2>1. Open' = Open /\ Refused' = Refused
    BY <1>5 DEF FlushProject, handlerVars, Open, Refused
  <2>2. \E c \in {"flushOk", "flushFailed"} : Bump(c)
    BY <1>5 DEF FlushProject
  <2>. QED BY <2>1, <2>2, BalanceFlush
<1>6. CASE WorkerStep /\ ~\E p \in Projects : FlushProject(p)
  BY <1>6, <1>1
     DEF WorkerStep, WorkerReceive, WorkerFill, WorkerCheck, WorkerLoop, FlushBegin,
         FlushEnd, handlerVars
<1>7. CASE IntervalElapses
  BY <1>7, <1>1 DEF IntervalElapses, handlerVars
<1>8. CASE Crash
  <2>1. \A c \in Counters : metrics'[c] = 0
    BY <1>8 DEF Crash
  <2>2. Open' = {} /\ Refused' = {}
    BY <1>8 DEF Crash, Open, Refused, Running, Requests
  <2>. QED BY <2>1, <2>2, FS_EmptySet DEF MetricsBalance, Open, Refused, Counters
<1>9. CASE UNCHANGED vars
  BY <1>9, <1>1 DEF vars, handlerVars
<1>10. ASSUME NEW r \in Requests, Disconnect(r)
       PROVE  MetricsBalance'
  <2>1. /\ stage[r] \in Running /\ stage'[r] = "cut"
        /\ \A q \in Requests \ {r} : stage'[q] = stage[q] /\ answer'[q] = answer[q]
        /\ UNCHANGED metrics
    BY <1>10 DEF Disconnect, TypeOK, Running, Stages
  <2>2. Open' = Open
    BY <2>1 DEF Open, Requests
  <2>3. Refused' = Refused
    BY <2>1 DEF Refused, Requests, Running
  <2>. QED BY <2>1, <2>2, <2>3, BalanceSame
<1>. QED BY <1>2, <1>3, <1>4, <1>5, <1>6, <1>7, <1>8, <1>9, <1>10 DEF Next

LEMMA BalanceInit == Init => MetricsBalance
<1> SUFFICES ASSUME Init PROVE MetricsBalance
  OBVIOUS
<1>1. Open = {} /\ Refused = {} /\ \A c \in Counters : metrics[c] = 0
  BY DEF Init, Open, Refused, Running, Requests
<1>. QED BY <1>1, FS_EmptySet DEF MetricsBalance, Open, Refused, Counters

\* The counters shown to the operator add up: no path through the handlers
\* counts a request twice or forgets it.
THEOREM CountersBalance == Spec => []MetricsBalance
<1>1. Init => TypeStage /\ MetricsBalance
  BY TypeStageInit, BalanceInit
<1>2. TypeStage /\ MetricsBalance /\ [Next]_vars => (TypeStage /\ MetricsBalance)'
  BY TypeStageNext, BalanceNext
<1>. QED BY <1>1, <1>2, PTL DEF Spec

-----------------------------------------------------------------------------
(* All together                                                            *)

\* The inductive invariant behind the theorems above, as one statement.
THEOREM InductiveInvariant == Spec => []IInv
<1> DEFINE Inv == /\ TypeStage /\ RequestInv /\ RoomInv /\ AccountInv
                  /\ OrderInv /\ MetricsBalance
<1>1. Init => Inv
  BY RequestInit, RoomInit, AccountInit, OrderInit, BalanceInit
<1>2. Inv /\ [Next]_vars => Inv'
  BY TypeStageNext, RequestNext, RoomNext, AccountNext, OrderNext, BalanceNext
<1>3. Inv => IInv
  BY DEF IInv, TypeStage, AccountInv
<1>. QED BY <1>1, <1>2, <1>3, PTL DEF Spec

-----------------------------------------------------------------------------
(* The pipeline implements EventDelivery                                   *)

\* The mapped state of EventDelivery.
St == [e \in Events |-> StatusOf(e)]
Vd == [r \in Requests |-> VerdictOf(r)]

LEMMA StatusMeaning ==
    ASSUME TypeOK, EventsAccounted, NEW e \in Events
    PROVE  /\ St[e] = StatusOf(e)
           /\ St[e] = "unsent" <=> ~Handled(e)
           /\ St[e] = "queued" <=> e \in InMemory
BY DEF St, StatusOf, EventsAccounted, Handled

LEMMA VerdictMeaning ==
    ASSUME TypeOK, NEW r \in Requests
    PROVE  /\ Vd[r] = VerdictOf(r)
           /\ Vd[r] = "none" <=> answer[r] = "none"
BY DEF Vd, VerdictOf, ErrorAnswers, TypeOK, Answers

LEMMA EventsOfMeaning ==
    ASSUME NEW r \in Requests
    PROVE  /\ Delivery!EventsOf(r) = {e \in Events : e[1] = r}
           /\ \A e \in Delivery!EventsOf(r) : e[2] \in 1 .. ItemCount[r] /\ e = <<r, e[2]>>
           /\ \A i \in 1 .. ItemCount[r] : <<r, i>> \in Delivery!EventsOf(r)
<1>1. Delivery!EventsOf(r) = {e \in Events : e[1] = r}
  BY DEF Delivery!EventsOf
<1>. QED BY <1>1, EventFacts

LEMMA StatusSame ==
    ASSUME UNCHANGED <<stored, lost, throttled, ticket>>
    PROVE  St' = St
BY DEF St, StatusOf, Taken

LEMMA VerdictSame ==
    ASSUME UNCHANGED answer
    PROVE  Vd' = Vd
BY DEF Vd, VerdictOf

LEMMA VerdictReply ==
    ASSUME TypeOK, NEW r \in Requests, NEW a \in Answers, Reply(r, a)
    PROVE  Vd' = [Vd EXCEPT ![r] = IF a \in ErrorAnswers THEN "error" ELSE a]
<1>1. answer' = [answer EXCEPT ![r] = a]
  BY DEF Reply
<1>. QED BY <1>1 DEF Vd, VerdictOf, TypeOK

\* The channel takes an event: Accept.
LEMMA RefineAccept ==
    ASSUME TypeOK, EventsAccounted, NEW e \in Events, ~Handled(e), Enqueue(e),
           answer[e[1]] = "none", UNCHANGED <<stored, lost, throttled, answer>>
    PROVE  Delivery!Accept(e)
<1>1. e[1] \in Requests
  BY EventFacts
<1>2. St[e] = "unsent" /\ Vd[e[1]] = "none"
  BY <1>1, StatusMeaning, VerdictMeaning
<1>3. e \notin stored /\ e \notin lost /\ e \notin throttled
  BY DEF Handled, EventsAccounted
<1>4. ticket'[e] # 0 /\ \A d \in Events \ {e} : ticket'[d] = ticket[d]
  BY DEF Enqueue, TypeOK
<1>5. St' = [d \in Events |-> IF d \in {e} THEN "queued" ELSE St[d]]
  BY <1>3, <1>4 DEF St, StatusOf, Taken
<1>6. Vd' = Vd
  BY VerdictSame
<1>. QED BY <1>2, <1>5, <1>6 DEF Delivery!Accept, Delivery!Mark, St, Vd

\* A duplicate is forgotten: SkipEvent.
LEMMA RefineSkip ==
    ASSUME TypeOK, EventsAccounted, NEW e \in Events, ~Handled(e),
           throttled' = throttled \cup {e}, answer[e[1]] = "none",
           UNCHANGED <<stored, lost, ticket>>
    PROVE  Delivery!SkipEvent(e)
<1>1. e[1] \in Requests
  BY EventFacts
<1>2. St[e] = "unsent" /\ Vd[e[1]] = "none"
  BY <1>1, StatusMeaning, VerdictMeaning
<1>3. e \notin stored /\ e \notin lost
  BY DEF Handled, EventsAccounted
<1>4. St' = [d \in Events |-> IF d \in {e} THEN "skipped" ELSE St[d]]
  BY <1>3 DEF St, StatusOf, Taken
<1>. QED BY <1>2, <1>4 DEF Delivery!SkipEvent, Delivery!Mark, St, Vd

LEMMA RefineOk ==
    ASSUME TypeOK, EventsAccounted, NEW r \in Requests, Reply(r, "ok"),
           answer[r] = "none", \A i \in 1 .. ItemCount[r] : Handled(<<r, i>>),
           UNCHANGED <<stored, lost, throttled, ticket>>
    PROVE  Delivery!AnswerOk(r)
<1>1. "ok" \in Answers /\ "ok" \notin ErrorAnswers
  BY DEF Answers, ErrorAnswers
<1>2. Vd' = [Vd EXCEPT ![r] = "ok"]
  BY <1>1, VerdictReply
<1>3. St' = St /\ Vd[r] = "none"
  BY StatusSame, VerdictMeaning
<1>4. \A e \in Delivery!EventsOf(r) : St[e] # "unsent"
  BY EventsOfMeaning, StatusMeaning
<1>. QED BY <1>2, <1>3, <1>4 DEF Delivery!AnswerOk, St, Vd

LEMMA RefineError ==
    ASSUME TypeOK, EventsAccounted, NEW r \in Requests, NEW a \in ErrorAnswers,
           Reply(r, a), answer[r] = "none",
           ItemCount[r] # 0 => \E i \in 1 .. ItemCount[r] : ~Handled(<<r, i>>),
           UNCHANGED <<stored, lost, throttled, ticket>>
    PROVE  Delivery!AnswerError(r)
<1>1. a \in Answers
  BY DEF Answers, ErrorAnswers
<1>2. Vd' = [Vd EXCEPT ![r] = "error"]
  BY <1>1, VerdictReply
<1>3. St' = St /\ Vd[r] = "none"
  BY StatusSame, VerdictMeaning
<1>4. ASSUME Delivery!EventsOf(r) # {}
      PROVE  \E e \in Delivery!EventsOf(r) : St[e] = "unsent"
  <2>1. ItemCount[r] # 0
    BY <1>4, EventsOfMeaning
  <2>2. PICK i \in 1 .. ItemCount[r] : ~Handled(<<r, i>>)
    BY <2>1
  <2>3. <<r, i>> \in Events /\ <<r, i>> \in Delivery!EventsOf(r)
    BY EventFacts, EventsOfMeaning
  <2>. QED BY <2>2, <2>3, StatusMeaning
<1>. QED BY <1>2, <1>3, <1>4 DEF Delivery!AnswerError, St, Vd

\* Writing one project's part of a batch settles its events together.
LEMMA RefineSettle ==
    ASSUME TypeOK, EventsAccounted, NEW p \in Projects, FlushProject(p)
    PROVE  St' = St \/ \E S \in SUBSET Delivery!Queued : Delivery!Settle(S)
<1>1. Group(p) \subseteq InMemory /\ Group(p) \subseteq Events
  BY HeldType DEF FlushProject, Group, InMemory, Pending
<1>2. Group(p) \subseteq Delivery!Queued
  <2>1. ASSUME NEW e \in Group(p)
        PROVE  e \in Events /\ St[e] = "queued"
    BY <1>1, StatusMeaning
  <2>. QED BY <2>1 DEF Delivery!Queued, St
<1>3. \A e \in Group(p) : e \notin stored /\ e \notin lost /\ e \notin throttled
  BY <1>1 DEF EventsAccounted
<1>4. \/ St' = [e \in Events |-> IF e \in Group(p) THEN "stored" ELSE St[e]]
      \/ St' = [e \in Events |-> IF e \in Group(p) THEN "lost" ELSE St[e]]
  <2>1. CASE stored' = stored \cup Group(p) /\ UNCHANGED <<lost, throttled, ticket>>
    BY <1>3, <2>1 DEF St, StatusOf, Taken
  <2>2. CASE lost' = lost \cup Group(p) /\ UNCHANGED <<stored, throttled, ticket>>
    BY <1>3, <2>2 DEF St, StatusOf, Taken
  <2>. QED BY <2>1, <2>2 DEF FlushProject
<1>5. Vd' = Vd
  BY VerdictSame DEF FlushProject, handlerVars
<1>6. CASE Group(p) = {}
  BY <1>4, <1>6 DEF St
<1>7. CASE Group(p) # {}
  <2>1. Delivery!Settle(Group(p))
    BY <1>2, <1>4, <1>5, <1>7 DEF Delivery!Settle, Delivery!Mark, St, Vd
  <2>. QED BY <1>2, <2>1
<1>. QED BY <1>6, <1>7

LEMMA RefineCrash ==
    ASSUME TypeOK, RequestInv, EventsAccounted, Crash
    PROVE  Delivery!Crash
<1> DEFINE R == {r \in Requests : stage[r] \in Running}
<1>1. Delivery!Queued = InMemory
  <2>1. \A e \in Events : St[e] = "queued" <=> e \in InMemory
    BY StatusMeaning
  <2>2. InMemory \subseteq Events
    BY HeldType
  <2>. QED BY <2>1, <2>2 DEF Delivery!Queued, St
<1>2. \A e \in InMemory : e \notin stored /\ e \notin throttled
  BY DEF EventsAccounted
<1>3. St' = [e \in Events |-> IF e \in InMemory THEN "lost" ELSE St[e]]
  BY <1>2 DEF Crash, St, StatusOf, Taken
<1>4. R \subseteq {r \in Requests : Vd[r] = "none"}
  BY VerdictMeaning DEF RequestInv, AnswerRule
<1>5. Vd' = [r \in Requests |-> IF r \in R THEN "reset" ELSE Vd[r]]
  <2>1. answer' = [r \in Requests |-> IF r \in R THEN "reset" ELSE answer[r]]
    BY DEF Crash
  <2>. QED BY <2>1 DEF Vd, VerdictOf, ErrorAnswers
<1>. QED BY <1>1, <1>3, <1>4, <1>5 DEF Delivery!Crash, Delivery!Mark, St, Vd

\* A handler that is about to act has not answered yet.
LEMMA Unanswered ==
    ASSUME RequestInv, NEW r \in Requests, stage[r] \in Running \cup {"new"}
    PROVE  answer[r] = "none"
BY DEF RequestInv, AnswerRule

LEMMA RefineEnvelope ==
    ASSUME TypeOK, StageInv, RequestInv, EventsAccounted, NEW r \in Envelopes,
           EnvelopeReceive(r) \/ EnvelopeStep(r)
    PROVE  [Delivery!DeliveryNext]_Delivery!deliveryVars
<1>0. r \in Requests /\ ItemCount[r] \in {0, 1} /\ AnswerRule(r) /\ ProgressRule(r)
  BY RequestAssumption DEF Requests, RequestInv
<1>1. stage[r] \in Running \cup {"new"} /\ answer[r] = "none"
  BY <1>0, Unanswered
     DEF EnvelopeReceive, EnvelopeStep, EnvelopeVerdict, EnvelopeSession, EnvelopeThrottle,
         EnvelopeEnqueue, EnvelopeReply, Running, Stages
<1>2. ASSUME UNCHANGED <<answer, stored, lost, throttled, ticket>>
      PROVE  UNCHANGED Delivery!deliveryVars
  BY <1>2, StatusSame, VerdictSame DEF Delivery!deliveryVars, St, Vd
<1>3. ASSUME NEW a \in ErrorAnswers, Reply(r, a), stage[r] # "queued",
             UNCHANGED <<stored, lost, throttled, ticket>>
      PROVE  Delivery!AnswerError(r)
  <2>1. ItemCount[r] # 0 => ~Handled(<<r, 1>>) /\ 1 \in 1 .. ItemCount[r]
    BY <1>0, <1>1, <1>3 DEF ProgressRule
  <2>. QED BY <1>0, <1>1, <1>3, <2>1, RefineError
<1>4. ASSUME Reply(r, "ok"), ItemCount[r] = 0 \/ stage[r] = "queued",
             UNCHANGED <<stored, lost, throttled, ticket>>
      PROVE  Delivery!AnswerOk(r)
  <2>1. \A i \in 1 .. ItemCount[r] : Handled(<<r, i>>)
    BY <1>0, <1>4 DEF ProgressRule
  <2>. QED BY <1>0, <1>1, <1>4, <2>1, RefineOk
<1>5. CASE EnvelopeReceive(r)
  BY <1>5, <1>2 DEF EnvelopeReceive, historyVars
<1>6. CASE EnvelopeVerdict(r)
  <2>1. {"iplimit", "limited", "refused"} \subseteq ErrorAnswers
    BY DEF ErrorAnswers
  <2>2. UNCHANGED <<stored, lost, throttled, ticket>> /\ stage[r] # "queued"
    BY <1>6, VerdictCases DEF historyVars
  <2>3. UNCHANGED answer \/ Delivery!AnswerError(r)
    BY <1>6, <1>3, <2>1, <2>2, VerdictCases
  <2>. QED BY <1>0, <1>2, <2>2, <2>3 DEF Delivery!DeliveryNext
<1>7. CASE EnvelopeSession(r)
  <2>1. UNCHANGED <<stored, lost, throttled, ticket>>
    BY <1>7 DEF EnvelopeSession, historyVars
  <2>2. UNCHANGED answer \/ Delivery!AnswerOk(r)
    BY <1>7, <1>4, <2>1 DEF EnvelopeSession
  <2>. QED BY <1>0, <1>2, <2>1, <2>2 DEF Delivery!DeliveryNext
<1>8. CASE EnvelopeThrottle(r)
  <2> DEFINE e == <<r, 1>>
  <2>1. e \in Events /\ ~Handled(e)
    BY <1>8, FreshEvent DEF EnvelopeThrottle
  <2>2. CASE Reply(r, "ok") /\ throttled' = throttled \cup {e}
    <3>1. UNCHANGED <<stored, lost, ticket>> /\ ItemCount[r] = 1
      BY <1>8 DEF EnvelopeThrottle, StageInv
    <3>2. Delivery!SkipEvent(e)
      BY <1>1, <2>1, <2>2, <3>1, RefineSkip
    <3>3. Vd' = [Vd EXCEPT ![r] = "ok"]
      BY <1>0, <2>2, VerdictReply DEF Answers, ErrorAnswers
    <3>4. Delivery!EventsOf(r) \ {e} = {}
      BY <1>0, <3>1, EventsOfMeaning
    <3>5. Delivery!Skip(e)
      BY <2>1, <3>2, <3>3, <3>4 DEF Delivery!Skip, Vd
    <3>. QED BY <2>1, <3>5 DEF Delivery!DeliveryNext
  <2>3. CASE UNCHANGED <<answer, throttled>>
    BY <1>8, <1>2, <2>3 DEF EnvelopeThrottle
  <2>. QED BY <1>8, <2>2, <2>3 DEF EnvelopeThrottle
<1>9. CASE EnvelopeEnqueue(r)
  <2> DEFINE e == <<r, 1>>
  <2>1. e \in Events /\ ~Handled(e) /\ UNCHANGED <<stored, lost, throttled, answer>>
    BY <1>9, FreshEvent DEF EnvelopeEnqueue
  <2>2. CASE Enqueue(e)
    <3>1. Delivery!Accept(e)
      BY <1>1, <2>1, <2>2, RefineAccept
    <3>. QED BY <2>1, <3>1 DEF Delivery!DeliveryNext
  <2>3. CASE UNCHANGED ticket
    BY <1>2, <2>1, <2>3
  <2>. QED BY <1>9, <2>2, <2>3 DEF EnvelopeEnqueue
<1>10. CASE EnvelopeReply(r)
  <2>1. UNCHANGED <<stored, lost, throttled, ticket>> /\ "full" \in ErrorAnswers
    BY <1>10 DEF EnvelopeReply, historyVars, ErrorAnswers
  <2>2. Delivery!AnswerOk(r) \/ Delivery!AnswerError(r)
    BY <1>10, <1>3, <1>4, <2>1 DEF EnvelopeReply
  <2>. QED BY <1>0, <2>2 DEF Delivery!DeliveryNext
<1>. QED BY <1>5, <1>6, <1>7, <1>8, <1>9, <1>10 DEF EnvelopeStep

LEMMA RefineCapture ==
    ASSUME TypeOK, StageInv, RequestInv, EventsAccounted, NEW r \in Captures,
           CaptureReceive(r) \/ CaptureStep(r)
    PROVE  [Delivery!DeliveryNext]_Delivery!deliveryVars
<1>0. /\ r \in Requests /\ ItemCount[r] \in Nat /\ item[r] \in 1 .. ItemCount[r] + 1
      /\ \A i \in 1 .. ItemCount[r] : Handled(<<r, i>>) <=> i < item[r]
  BY EventFacts DEF Requests, RequestInv, ProgressRule, StageInv
<1>1. stage[r] \in Running \cup {"new"} /\ answer[r] = "none"
  BY <1>0, Unanswered
     DEF CaptureReceive, CaptureStep, CaptureItem, CaptureEnqueue, CaptureDone,
         Running, Stages
<1>2. ASSUME UNCHANGED <<answer, stored, lost, throttled, ticket>>
      PROVE  UNCHANGED Delivery!deliveryVars
  BY <1>2, StatusSame, VerdictSame DEF Delivery!deliveryVars, St, Vd
<1>3. ASSUME NEW a \in ErrorAnswers, Reply(r, a),
             item[r] <= ItemCount[r] \/ ItemCount[r] = 0,
             UNCHANGED <<stored, lost, throttled, ticket>>
      PROVE  Delivery!AnswerError(r)
  <2>1. ItemCount[r] # 0 => \E i \in 1 .. ItemCount[r] : ~Handled(<<r, i>>)
    <3>1. ItemCount[r] # 0 => item[r] \in 1 .. ItemCount[r] /\ ~(item[r] < item[r])
      BY <1>0, <1>3
    <3>. QED BY <1>0, <3>1
  <2>. QED BY <1>0, <1>1, <1>3, <2>1, RefineError
<1>4. {"iplimit", "limited", "refused", "full"} \subseteq ErrorAnswers
  BY DEF ErrorAnswers
<1>5. CASE CaptureReceive(r)
  <2>1. UNCHANGED <<stored, lost, throttled, ticket>>
    BY <1>5 DEF CaptureReceive, historyVars
  <2>2. item[r] <= ItemCount[r] \/ ItemCount[r] = 0
    BY <1>0, <1>5 DEF CaptureReceive, StageInv
  <2>3. UNCHANGED answer \/ Delivery!AnswerError(r)
    BY <1>3, <1>4, <1>5, <2>1, <2>2 DEF CaptureReceive
  <2>. QED BY <1>0, <1>2, <2>1, <2>3 DEF Delivery!DeliveryNext
<1>6. CASE CaptureItem(r)
  <2> DEFINE e == <<r, item[r]>>
  <2>1. /\ e \in Events /\ ~Handled(e) /\ item[r] <= ItemCount[r]
        /\ UNCHANGED <<stored, lost, ticket>>
    BY <1>6, FreshEvent DEF CaptureItem, MoreItems
  <2>2. CASE Reply(r, "limited") /\ UNCHANGED throttled
    <3>1. Delivery!AnswerError(r)
      BY <1>3, <1>4, <2>1, <2>2
    <3>. QED BY <1>0, <3>1 DEF Delivery!DeliveryNext
  <2>3. CASE throttled' = throttled \cup {e} /\ UNCHANGED answer
    <3>1. Delivery!SkipEvent(e)
      BY <1>1, <2>1, <2>3, RefineSkip
    <3>2. Vd' = Vd
      BY <2>3, VerdictSame
    <3>3. Delivery!Skip(e)
      BY <3>1, <3>2 DEF Delivery!Skip, Vd
    <3>. QED BY <2>1, <3>3 DEF Delivery!DeliveryNext
  <2>4. CASE UNCHANGED <<answer, throttled>>
    BY <1>2, <2>1, <2>4
  <2>. QED BY <1>6, <2>2, <2>3, <2>4 DEF CaptureItem
<1>7. CASE CaptureEnqueue(r)
  <2> DEFINE e == <<r, item[r]>>
  <2>1. item[r] <= ItemCount[r] /\ UNCHANGED <<stored, lost, throttled>>
    BY <1>7 DEF CaptureEnqueue, StageInv
  <2>2. e \in Events /\ ~Handled(e)
    BY <1>7, <2>1, FreshEvent DEF CaptureEnqueue
  <2>3. CASE Enqueue(e) /\ UNCHANGED answer
    <3>1. Delivery!Accept(e)
      BY <1>1, <2>1, <2>2, <2>3, RefineAccept
    <3>. QED BY <2>2, <3>1 DEF Delivery!DeliveryNext
  <2>4. CASE Reply(r, "full") /\ UNCHANGED ticket
    <3>1. Delivery!AnswerError(r)
      BY <1>3, <1>4, <2>1, <2>4
    <3>. QED BY <1>0, <3>1 DEF Delivery!DeliveryNext
  <2>. QED BY <1>7, <2>3, <2>4 DEF CaptureEnqueue
<1>8. CASE CaptureDone(r)
  <2>1. UNCHANGED <<stored, lost, throttled, ticket>> /\ Reply(r, "ok")
    BY <1>8 DEF CaptureDone, historyVars
  <2>2. \A i \in 1 .. ItemCount[r] : Handled(<<r, i>>)
    BY <1>0, <1>8 DEF CaptureDone, MoreItems
  <2>3. Delivery!AnswerOk(r)
    BY <1>0, <1>1, <2>1, <2>2, RefineOk
  <2>. QED BY <1>0, <2>3 DEF Delivery!DeliveryNext
<1>. QED BY <1>5, <1>6, <1>7, <1>8 DEF CaptureStep

LEMMA RefineNext ==
    ASSUME TypeStage, RequestInv, EventsAccounted, [Next]_vars
    PROVE  [Delivery!DeliveryNext]_Delivery!deliveryVars
<1> USE DEF TypeStage
<1>1. ASSUME UNCHANGED <<answer, stored, lost, throttled, ticket>>
      PROVE  UNCHANGED Delivery!deliveryVars
  BY <1>1, StatusSame, VerdictSame DEF Delivery!deliveryVars, St, Vd
<1>2. CASE \E r \in Envelopes : EnvelopeReceive(r) \/ EnvelopeStep(r)
  BY <1>2, RefineEnvelope
<1>3. CASE \E r \in Captures : CaptureReceive(r) \/ CaptureStep(r)
  BY <1>3, RefineCapture
<1>4. ASSUME NEW p \in Projects, FlushProject(p)
      PROVE  [Delivery!DeliveryNext]_Delivery!deliveryVars
  <2>1. Vd' = Vd
    BY <1>4, VerdictSame DEF FlushProject, handlerVars
  <2>2. CASE St' = St
    BY <2>1, <2>2 DEF Delivery!deliveryVars, St, Vd
  <2>3. CASE \E S \in SUBSET Delivery!Queued : Delivery!Settle(S)
    BY <2>3 DEF Delivery!DeliveryNext
  <2>. QED BY <1>4, <2>2, <2>3, RefineSettle
<1>5. CASE \/ \E u \in UserFps : ThrottleExpires(u)
           \/ WorkerStep /\ ~\E p \in Projects : FlushProject(p)
           \/ IntervalElapses
           \/ UNCHANGED vars
  BY <1>5, <1>1
     DEF ThrottleExpires, WorkerStep, WorkerReceive, WorkerFill, WorkerCheck, WorkerLoop,
         FlushBegin, FlushEnd, IntervalElapses, vars, handlerVars, historyVars
<1>6. CASE Crash
  BY <1>6, RefineCrash DEF Delivery!DeliveryNext
<1>7. ASSUME NEW r \in Requests, Disconnect(r)
      PROVE  [Delivery!DeliveryNext]_Delivery!deliveryVars
  <2>1. answer[r] = "none"
    BY <1>7, Unanswered DEF Disconnect, Running, Stages
  <2>2. St' = St /\ Vd[r] = "none"
    BY <1>7, <2>1, StatusSame, VerdictMeaning DEF Disconnect, historyVars
  <2>3. Vd' = [Vd EXCEPT ![r] = "reset"]
    BY <1>7 DEF Disconnect, Vd, VerdictOf, ErrorAnswers, TypeOK
  <2>4. Delivery!Abandon(r)
    BY <2>2, <2>3 DEF Delivery!Abandon, St, Vd
  <2>. QED BY <2>4 DEF Delivery!DeliveryNext
<1>. QED BY <1>2, <1>3, <1>4, <1>5, <1>6, <1>7 DEF Next

\* The ingestion path implements its abstract specification: no channel,
\* batch, retry or crash gives an event a second fate, settles an event before
\* it was taken, or takes one after its client was answered.
THEOREM PipelineImplementsDelivery == Spec => RefinesDelivery
<1> DEFINE Inv == TypeStage /\ RequestInv /\ AccountInv
<1>1. Init => Inv
  BY RequestInit, AccountInit
<1>2. Inv /\ [Next]_vars => Inv'
  BY TypeStageNext, RequestNext, AccountNext
<1>3. Init => Delivery!DeliveryInit
  <2> SUFFICES ASSUME Init PROVE Delivery!DeliveryInit
    OBVIOUS
  <2>1. /\ \A e \in Events : StatusOf(e) = "unsent"
        /\ \A r \in Requests : VerdictOf(r) = "none"
    BY DEF Init, StatusOf, VerdictOf, Taken, ErrorAnswers
  <2>. QED BY <2>1 DEF Delivery!DeliveryInit
<1>4. Inv /\ [Next]_vars => [Delivery!DeliveryNext]_Delivery!deliveryVars
  BY RefineNext DEF AccountInv
<1>. QED BY <1>1, <1>2, <1>3, <1>4, PTL DEF Spec, RefinesDelivery, Delivery!DeliverySpec
=============================================================================
