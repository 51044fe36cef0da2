---------------------- MODULE SessionPipeline_proofs -----------------------
(***************************************************************************)
(* Proofs about SessionPipeline, for any set of records and projects and   *)
(* any size of the channel and of a batch; and about SystemPool, for any   *)
(* number of calls, threads and connections.                               *)
(***************************************************************************)
EXTENDS SessionPipeline, SystemPool, SequenceTheorems, FiniteSetTheorems, TLAPS

-----------------------------------------------------------------------------
(* Sequences of records without repetitions                                *)

LEMMA EmptyQueue ==
    /\ <<>> \in Seq(Sessions)
    /\ ToSet(<<>>) = {}
    /\ IsInjective(<<>>)
    /\ Len(<<>>) = 0
BY DEF ToSet, IsInjective

\* Appending adds exactly the new record, once.
LEMMA AppendQueue ==
    ASSUME NEW q \in Seq(Sessions), NEW s \in Sessions,
           IsInjective(q), s \notin ToSet(q)
    PROVE  /\ Append(q, s) \in Seq(Sessions)
           /\ ToSet(Append(q, s)) = ToSet(q) \cup {s}
           /\ IsInjective(Append(q, s))
           /\ Len(Append(q, s)) = Len(q) + 1
BY DEF ToSet, IsInjective

\* Taking the head removes exactly it.
LEMMA TailQueue ==
    ASSUME NEW q \in Seq(Sessions), q # <<>>, IsInjective(q)
    PROVE  /\ Head(q) \in ToSet(q) /\ Head(q) = q[1] /\ Head(q) \in Sessions
           /\ Tail(q) \in Seq(Sessions)
           /\ ToSet(Tail(q)) = ToSet(q) \ {Head(q)}
           /\ IsInjective(Tail(q))
           /\ Len(Tail(q)) = Len(q) - 1
<1>1. /\ Tail(q) \in Seq(Sessions)
      /\ Len(Tail(q)) = Len(q) - 1
      /\ \A i \in 1 .. Len(q) - 1 : Tail(q)[i] = q[i + 1]
      /\ Head(q) = q[1] /\ 1 \in 1 .. Len(q)
  OBVIOUS
<1>2. \A i, j \in 1 .. Len(q) : q[i] = q[j] => i = j
  BY DEF IsInjective
<1>3. /\ ToSet(q) = {q[i] : i \in 1 .. Len(q)}
      /\ ToSet(Tail(q)) = {Tail(q)[i] : i \in 1 .. Len(q) - 1}
  <2>1. DOMAIN q = 1 .. Len(q) /\ DOMAIN Tail(q) = 1 .. Len(Tail(q))
    BY <1>1, LenProperties
  <2>. QED BY <1>1, <2>1 DEF ToSet
<1>4. ToSet(Tail(q)) = ToSet(q) \ {Head(q)}
  <2>1. ASSUME NEW s \in ToSet(q), s # Head(q)
        PROVE  s \in ToSet(Tail(q))
    <3>1. PICK i \in 1 .. Len(q) : s = q[i]
      BY <1>3
    <3>2. i - 1 \in 1 .. Len(q) - 1 /\ Tail(q)[i - 1] = q[i]
      BY <2>1, <3>1, <1>1
    <3>. QED BY <3>1, <3>2, <1>3
  <2>2. ASSUME NEW s \in ToSet(Tail(q))
        PROVE  s \in ToSet(q) /\ s # Head(q)
    <3>1. PICK i \in 1 .. Len(q) - 1 : s = Tail(q)[i]
      BY <1>3
    <3>2. s = q[i + 1] /\ i + 1 \in 1 .. Len(q) /\ i + 1 # 1
      BY <3>1, <1>1
    <3>. QED BY <3>2, <1>1, <1>2, <1>3
  <2>. QED BY <2>1, <2>2
<1>5. IsInjective(Tail(q))
  BY <1>1, <1>2 DEF IsInjective
<1>6. Head(q) \in ToSet(q) /\ Head(q) \in Sessions
  BY <1>1, <1>3
<1>. QED BY <1>1, <1>4, <1>5, <1>6

\* Leaving the queue takes away one place, wherever it is.
LEMMA RemoveAtQueue ==
    ASSUME NEW q \in Seq(Sessions), NEW i \in 1 .. Len(q), IsInjective(q)
    PROVE  /\ RemoveAt(q, i) \in Seq(Sessions)
           /\ ToSet(RemoveAt(q, i)) = ToSet(q) \ {q[i]}
           /\ IsInjective(RemoveAt(q, i))
<1> DEFINE a == SubSeq(q, 1, i - 1)
           b == SubSeq(q, i + 1, Len(q))
           r == RemoveAt(q, i)
<1>1. q \in [1 .. Len(q) -> Sessions] /\ Len(q) \in Nat
  OBVIOUS
<1>2. /\ a \in Seq(Sessions) /\ Len(a) = i - 1
      /\ \A j \in 1 .. i - 1 : a[j] = q[j]
  <2>1. \A j \in 1 .. i - 1 : q[j] \in Sessions
    BY <1>1
  <2>. QED BY <2>1, SubSeqProperties
<1>3. /\ b \in Seq(Sessions) /\ Len(b) = Len(q) - i
      /\ \A j \in 1 .. Len(q) - i : b[j] = q[i + j]
  <2>1. \A j \in i + 1 .. Len(q) : q[j] \in Sessions
    BY <1>1
  <2>. QED BY <1>1, <2>1, SubSeqProperties
<1>4. /\ r \in Seq(Sessions) /\ Len(r) = Len(a) + Len(b)
      /\ \A j \in 1 .. Len(a) + Len(b) :
            r[j] = IF j <= Len(a) THEN a[j] ELSE b[j - Len(a)]
  <2>1. r = a \o b
    BY DEF RemoveAt
  <2> HIDE DEF a, b, r
  <2>. QED BY <2>1, <1>2, <1>3, ConcatProperties
<1> HIDE DEF a, b, r
<1>5. ASSUME NEW j \in 1 .. Len(q) - 1
      PROVE  r[j] = IF j < i THEN q[j] ELSE q[j + 1]
  <2>1. CASE j < i
    <3>1. j \in 1 .. i - 1 /\ j \in 1 .. Len(a) + Len(b) /\ j <= Len(a)
      BY <2>1, <1>1, <1>2, <1>3
    <3>. QED BY <2>1, <3>1, <1>2, <1>4
  <2>2. CASE ~(j < i)
    <3>1. j - Len(a) \in 1 .. Len(q) - i /\ j \in 1 .. Len(a) + Len(b)
      BY <2>2, <1>1, <1>2, <1>3
    <3>2. r[j] = b[j - Len(a)] /\ i + (j - Len(a)) = j + 1
      BY <2>2, <3>1, <1>2, <1>4
    <3>. QED BY <2>2, <3>1, <3>2, <1>3
  <2>. QED BY <2>1, <2>2
<1>6. Len(r) = Len(q) - 1
  BY <1>1, <1>2, <1>3, <1>4
<1>7. /\ ToSet(r) = {r[j] : j \in 1 .. Len(r)}
      /\ ToSet(q) = {q[j] : j \in 1 .. Len(q)}
  BY <1>4 DEF ToSet
<1>8. \A j, k \in 1 .. Len(q) : q[j] = q[k] => j = k
  BY DEF IsInjective
<1>9. ASSUME NEW j \in 1 .. Len(q), j # i
      PROVE  q[j] \in ToSet(r)
  <2>1. CASE j < i
    BY <2>1, <1>5, <1>6, <1>7
  <2>2. CASE j > i
    <3>1. j - 1 \in 1 .. Len(r) /\ r[j - 1] = q[j]
      BY <2>2, <1>5, <1>6
    <3>. QED BY <3>1, <1>7
  <2>. QED BY <1>9, <2>1, <2>2
<1>10. \A k \in 1 .. Len(r) : \E j \in 1 .. Len(q) : r[k] = q[j] /\ j # i
  BY <1>5, <1>6
<1>11. ToSet(r) = ToSet(q) \ {q[i]}
  <2>1. ASSUME NEW x \in ToSet(r)
        PROVE  x \in ToSet(q) /\ x # q[i]
    <3>1. PICK k \in 1 .. Len(r) : x = r[k]
      BY <1>7, <2>1
    <3>2. PICK j \in 1 .. Len(q) : x = q[j] /\ j # i
      BY <1>10, <3>1
    <3>. QED BY <1>7, <1>8, <3>2
  <2>2. ASSUME NEW x \in ToSet(q), x # q[i]
        PROVE  x \in ToSet(r)
    <3>1. PICK j \in 1 .. Len(q) : x = q[j]
      BY <1>7, <2>2
    <3>. QED BY <1>9, <2>2, <3>1
  <2>. QED BY <2>1, <2>2
<1>12. IsInjective(r)
  <2>1. \A j, k \in 1 .. Len(r) : r[j] = r[k] => j = k
    BY <1>5, <1>6, <1>8
  <2>. QED BY <2>1, <1>4 DEF IsInjective
<1>. QED BY <1>4, <1>11, <1>12 DEF r

\* A batch has no more records than places.
LEMMA QueueCardinality ==
    ASSUME NEW q \in Seq(Sessions)
    PROVE  IsFiniteSet(ToSet(q)) /\ Cardinality(ToSet(q)) <= Len(q)
<1> DEFINE f == [i \in 1 .. Len(q) |-> q[i]]
<1>1. Len(q) \in Nat
  OBVIOUS
<1>2. IsFiniteSet(1 .. Len(q)) /\ Cardinality(1 .. Len(q)) = Len(q)
  <2> DEFINE n == Len(q)
  <2>1. n \in Nat
    BY <1>1
  <2> HIDE DEF n
  <2>2. IsFiniteSet(1 .. n) /\ Cardinality(1 .. n) = n
    BY <2>1, FS_Interval
  <2>. QED BY <2>2 DEF n
<1>3. f \in Surjection(1 .. Len(q), ToSet(q))
  BY DEF Surjection, ToSet
<1>. QED BY <1>2, <1>3, FS_Surjection

-----------------------------------------------------------------------------
(* Permits                                                                 *)

\* A sender more with a permit in hand, or one less.
LEMMA GrantedCount ==
    ASSUME NEW S, IsFiniteSet(S), NEW s
    PROVE  /\ Cardinality(S) \in Nat
           /\ IsFiniteSet(S \cup {s}) /\ IsFiniteSet(S \ {s})
           /\ s \notin S => Cardinality(S \cup {s}) = Cardinality(S) + 1
           /\ s \in S => Cardinality(S \ {s}) = Cardinality(S) - 1
<1>1. IsFiniteSet(S \cup {s}) /\ IsFiniteSet(S \ {s}) /\ Cardinality(S) \in Nat
  BY FS_AddElement, FS_RemoveElement, FS_CardinalityType
<1>2. s \notin S => Cardinality(S \cup {s}) = Cardinality(S) + 1
  BY FS_AddElement
<1>3. s \in S => Cardinality(S \ {s}) = Cardinality(S) - 1
  BY FS_RemoveElement
<1>. QED BY <1>1, <1>2, <1>3

\* Wherever a permit that is given back goes, it is the only one more, and the
\* queue loses nobody but the sender who has it.
LEMMA PermitGiven ==
    ASSUME NEW stages \in [Sessions -> SenderStages], GivePermit(stages),
           waiters \in Seq(Sessions), IsInjective(waiters), permits \in Nat,
           \A s \in Sessions : stages[s] = "waiting" <=> s \in ToSet(waiters),
           NEW G, G = {s \in Sessions : stages[s] = "granted"}, IsFiniteSet(G),
           waiters # <<>> => permits = 0
    PROVE  /\ sender' \in [Sessions -> SenderStages]
           /\ waiters' \in Seq(Sessions) /\ IsInjective(waiters')
           /\ permits' \in Nat
           /\ \A s \in Sessions :
                 /\ sender'[s] = "sent" <=> stages[s] = "sent"
                 /\ sender'[s] = "waiting" <=> s \in ToSet(waiters')
           /\ IsFiniteSet(Granted')
           /\ permits' + Cardinality(Granted') = permits + Cardinality(G) + 1
           /\ waiters' # <<>> => permits' = 0
<1>1. Cardinality(G) \in Nat
  BY FS_CardinalityType
<1>2. CASE waiters = <<>>
  <2>1. permits' = permits + 1 /\ sender' = stages /\ waiters' = waiters
    BY <1>2 DEF GivePermit
  <2>2. Granted' = G
    BY <2>1 DEF Granted
  <2>. QED BY <1>1, <1>2, <2>1, <2>2
<1>3. CASE waiters # <<>>
  <2> DEFINE s == Head(waiters)
  <2>1. /\ permits' = permits /\ waiters' = Tail(waiters)
        /\ sender' = [stages EXCEPT ![s] = "granted"]
    BY <1>3 DEF GivePermit
  <2>2. /\ s \in ToSet(waiters) /\ s \in Sessions
        /\ waiters' \in Seq(Sessions) /\ ToSet(waiters') = ToSet(waiters) \ {s}
        /\ IsInjective(waiters')
    BY <1>3, <2>1, TailQueue
  <2> HIDE DEF s
  <2>3. stages[s] = "waiting"
    BY <2>2
  <2>4. Granted' = G \cup {s} /\ s \notin G
    BY <2>1, <2>2, <2>3 DEF Granted
  <2>5. IsFiniteSet(Granted') /\ Cardinality(Granted') = Cardinality(G) + 1
    BY <2>4, GrantedCount
  <2>6. /\ sender' \in [Sessions -> SenderStages]
        /\ \A r \in Sessions :
              /\ sender'[r] = "sent" <=> stages[r] = "sent"
              /\ sender'[r] = "waiting" <=> r \in ToSet(waiters')
    BY <2>1, <2>2, <2>3 DEF SenderStages
  <2>7. permits' + Cardinality(Granted') = permits + Cardinality(G) + 1
    BY <1>1, <2>1, <2>5
  <2>. QED BY <1>3, <2>1, <2>2, <2>5, <2>6, <2>7
<1>. QED BY <1>2, <1>3

-----------------------------------------------------------------------------
(* The invariant, action by action                                         *)

LEMMA InitInv == Init => SessionInv
<1> SUFFICES ASSUME Init PROVE SessionInv
  OBVIOUS
<1>1. TypeOK
  BY EmptyQueue, SessionAssumption DEF Init, TypeOK, SenderStages
<1>2. SessionsAccounted
  BY EmptyQueue DEF Init, SessionsAccounted, InMemory, InFlush
<1>3. TurnRule
  BY DEF Init, TurnRule
<1>4. PermitRule
  <2>1. Granted = {}
    BY DEF Init, Granted
  <2>. QED BY <2>1, EmptyQueue, FS_EmptySet, SessionAssumption DEF Init, PermitRule
<1>5. SessionsBounded
  BY EmptyQueue, FS_EmptySet, SessionAssumption DEF Init, SessionsBounded, InFlush
<1>. QED BY <1>1, <1>2, <1>3, <1>4, <1>5 DEF SessionInv

LEMMA SendInv ==
    ASSUME SessionInv, NEW s \in Sessions, Send(s)
    PROVE  SessionInv'
<1>. USE DEF SessionInv
<1>1. /\ sender \in [Sessions -> SenderStages] /\ permits \in Nat
      /\ waiters \in Seq(Sessions) /\ channel \in Seq(Sessions)
      /\ sender[s] = "idle"
  BY DEF Send, TypeOK
<1>2. /\ s \notin ToSet(waiters) /\ s \notin InMemory \cup rows \cup lost
      /\ IsInjective(waiters) /\ IsInjective(channel)
  BY <1>1 DEF SessionsAccounted
<1>3. CASE permits > 0
  <2>1. /\ channel' = Append(channel, s) /\ waiters' = waiters
        /\ permits' = permits - 1
        /\ sender' = [sender EXCEPT ![s] = "sent"]
        /\ UNCHANGED <<workerVars, rows, lost, crashes>>
    BY <1>1, <1>3 DEF Send, Mark
  <2>2. /\ channel' \in Seq(Sessions) /\ ToSet(channel') = ToSet(channel) \cup {s}
        /\ IsInjective(channel') /\ Len(channel') = Len(channel) + 1
    BY <1>1, <1>2, <2>1, AppendQueue DEF InMemory
  <2>3. TypeOK'
    BY <1>1, <1>3, <2>1, <2>2 DEF TypeOK, workerVars, SenderStages
  <2>4. SessionsAccounted'
    BY <1>1, <1>2, <2>1, <2>2 DEF SessionsAccounted, InMemory, InFlush, workerVars
  <2>5. TurnRule' /\ SessionsBounded'
    BY <2>1 DEF TurnRule, SessionsBounded, InFlush, workerVars
  <2>6. PermitRule'
    <3>1. Granted' = Granted
      BY <1>1, <2>1 DEF Granted
    <3>2. Cardinality(Granted) \in Nat /\ Len(channel) \in Nat
      BY <1>1, FS_CardinalityType DEF PermitRule
    <3>. QED BY <1>1, <1>3, <2>1, <2>2, <3>1, <3>2 DEF PermitRule
  <2>. QED BY <2>3, <2>4, <2>5, <2>6
<1>4. CASE permits = 0
  <2>1. /\ waiters' = Append(waiters, s) /\ channel' = channel
        /\ permits' = permits
        /\ sender' = [sender EXCEPT ![s] = "waiting"]
        /\ UNCHANGED <<workerVars, rows, lost, crashes>>
    BY <1>1, <1>4 DEF Send, Mark
  <2>2. /\ waiters' \in Seq(Sessions) /\ ToSet(waiters') = ToSet(waiters) \cup {s}
        /\ IsInjective(waiters')
    BY <1>1, <1>2, <2>1, AppendQueue
  <2>3. TypeOK'
    BY <2>1, <2>2 DEF TypeOK, workerVars, SenderStages
  <2>4. SessionsAccounted'
    BY <1>1, <1>2, <2>1, <2>2 DEF SessionsAccounted, InMemory, InFlush, workerVars
  <2>5. TurnRule' /\ SessionsBounded'
    BY <2>1 DEF TurnRule, SessionsBounded, InFlush, workerVars
  <2>6. PermitRule'
    <3>1. Granted' = Granted
      BY <1>1, <2>1 DEF Granted
    <3>. QED BY <1>4, <2>1, <3>1 DEF PermitRule
  <2>. QED BY <2>3, <2>4, <2>5, <2>6
<1>. QED BY <1>1, <1>3, <1>4

LEMMA SendResumesInv ==
    ASSUME SessionInv, NEW s \in Sessions, SendResumes(s)
    PROVE  SessionInv'
<1>. USE DEF SessionInv
<1>1. /\ sender \in [Sessions -> SenderStages] /\ sender[s] = "granted"
      /\ channel \in Seq(Sessions) /\ IsInjective(channel)
      /\ permits \in Nat
  BY DEF SendResumes, TypeOK, SessionsAccounted
<1>2. s \notin ToSet(waiters) /\ s \notin InMemory \cup rows \cup lost
  BY <1>1 DEF SessionsAccounted
<1>3. /\ channel' = Append(channel, s)
      /\ sender' = [sender EXCEPT ![s] = "sent"]
      /\ UNCHANGED <<waiters, permits, workerVars, rows, lost, crashes>>
  BY DEF SendResumes, Mark
<1>4. /\ channel' \in Seq(Sessions) /\ ToSet(channel') = ToSet(channel) \cup {s}
      /\ IsInjective(channel') /\ Len(channel') = Len(channel) + 1
  BY <1>1, <1>2, <1>3, AppendQueue DEF InMemory
<1>5. TypeOK'
  BY <1>3, <1>4 DEF TypeOK, workerVars, SenderStages
<1>6. SessionsAccounted'
  BY <1>1, <1>2, <1>3, <1>4 DEF SessionsAccounted, InMemory, InFlush, workerVars
<1>7. TurnRule' /\ SessionsBounded'
  BY <1>3 DEF TurnRule, SessionsBounded, InFlush, workerVars
<1>8. PermitRule'
  <2>1. Granted' = Granted \ {s} /\ s \in Granted
    BY <1>1, <1>3 DEF Granted
  <2>2. /\ IsFiniteSet(Granted') /\ Cardinality(Granted) \in Nat
        /\ Cardinality(Granted') = Cardinality(Granted) - 1
    BY <2>1, GrantedCount DEF PermitRule
  <2>3. Len(channel) \in Nat
    BY <1>1
  <2>. QED BY <1>1, <1>3, <1>4, <2>2, <2>3 DEF PermitRule
<1>. QED BY <1>5, <1>6, <1>7, <1>8

LEMMA SendDroppedInv ==
    ASSUME SessionInv, NEW s \in Sessions, SendDropped(s)
    PROVE  SessionInv'
<1>. USE DEF SessionInv
<1>1. /\ sender \in [Sessions -> SenderStages] /\ permits \in Nat
      /\ waiters \in Seq(Sessions) /\ IsInjective(waiters)
      /\ UNCHANGED <<channel, workerVars, rows, lost, crashes>>
  BY DEF SendDropped, TypeOK, SessionsAccounted
<1> DEFINE stages == [sender EXCEPT ![s] = "cut"]
<1>2. CASE sender[s] = "waiting"
  <2>1. sender' = stages /\ permits' = permits
    BY <1>2 DEF SendDropped, Mark
  <2>2. PICK i \in 1 .. Len(waiters) :
           waiters[i] = s /\ waiters' = RemoveAt(waiters, i)
    BY <1>2 DEF SendDropped
  <2>3. /\ waiters' \in Seq(Sessions) /\ ToSet(waiters') = ToSet(waiters) \ {s}
        /\ IsInjective(waiters')
    BY <1>1, <2>2, RemoveAtQueue
  <2>4. TypeOK'
    BY <1>1, <2>1, <2>3 DEF TypeOK, workerVars, SenderStages
  <2>5. SessionsAccounted'
    BY <1>1, <1>2, <2>1, <2>3 DEF SessionsAccounted, InMemory, InFlush, workerVars
  <2>6. PermitRule'
    <3>1. Granted' = Granted
      BY <1>1, <1>2, <2>1 DEF Granted
    <3>2. waiters # <<>>
      BY <1>1, <2>2
    <3>. QED BY <1>1, <2>1, <3>1, <3>2 DEF PermitRule
  <2>. QED BY <1>1, <2>4, <2>5, <2>6 DEF TurnRule, SessionsBounded, InFlush, workerVars
<1>3. CASE sender[s] = "granted"
  <2> DEFINE G == {r \in Sessions : stages[r] = "granted"}
  <2>1. GivePermit(stages)
    BY <1>3 DEF SendDropped
  <2>2. /\ stages \in [Sessions -> SenderStages]
        /\ \A r \in Sessions : stages[r] = "waiting" <=> r \in ToSet(waiters)
        /\ \A r \in Sessions : stages[r] = "sent" <=> sender[r] = "sent"
    BY <1>1, <1>3 DEF SenderStages, SessionsAccounted
  <2>3. G = Granted \ {s} /\ s \in Granted
    BY <1>1, <1>3 DEF Granted
  <2>4. /\ IsFiniteSet(G) /\ Cardinality(Granted) \in Nat
        /\ Cardinality(G) = Cardinality(Granted) - 1
    BY <2>3, GrantedCount DEF PermitRule
  <2>5. waiters # <<>> => permits = 0
    BY DEF PermitRule
  <2> HIDE DEF stages
  <2>6. /\ sender' \in [Sessions -> SenderStages]
        /\ waiters' \in Seq(Sessions) /\ IsInjective(waiters')
        /\ permits' \in Nat
        /\ \A r \in Sessions :
              /\ sender'[r] = "sent" <=> sender[r] = "sent"
              /\ sender'[r] = "waiting" <=> r \in ToSet(waiters')
        /\ IsFiniteSet(Granted')
        /\ permits' + Cardinality(Granted') = permits + Cardinality(G) + 1
        /\ waiters' # <<>> => permits' = 0
    BY <1>1, <2>1, <2>2, <2>4, <2>5, PermitGiven
  <2> HIDE DEF G
  <2>7. TypeOK'
    BY <1>1, <2>6 DEF TypeOK, workerVars
  <2>8. SessionsAccounted'
    BY <1>1, <2>6 DEF SessionsAccounted, InMemory, InFlush, workerVars
  <2>9. PermitRule'
    <3>1. Cardinality(Granted') \in Nat /\ Len(channel) \in Nat
      BY <2>6, FS_CardinalityType DEF TypeOK
    <3>2. permits' + Cardinality(Granted') = permits + Cardinality(Granted)
      BY <1>1, <2>4, <2>6
    <3>. QED BY <1>1, <2>6, <3>1, <3>2 DEF PermitRule
  <2>. QED BY <1>1, <2>7, <2>8, <2>9 DEF TurnRule, SessionsBounded, InFlush, workerVars
<1>. QED BY <1>2, <1>3 DEF SendDropped

LEMMA NextRequestInv ==
    ASSUME SessionInv, NEW s \in Sessions, NextRequest(s)
    PROVE  SessionInv'
<1>. USE DEF SessionInv
<1>1. /\ sender \in [Sessions -> SenderStages]
      /\ sender' = [sender EXCEPT ![s] = "idle"]
      /\ rows' = rows \ {s} /\ lost' = lost \ {s}
      /\ UNCHANGED <<waiters, permits, channel, workerVars, crashes>>
  BY DEF NextRequest, Mark, TypeOK
<1>2. s \notin InMemory /\ s \notin ToSet(waiters)
  BY <1>1 DEF NextRequest, SessionsAccounted
<1>3. TypeOK'
  BY <1>1 DEF TypeOK, workerVars, SenderStages
<1>4. SessionsAccounted'
  BY <1>1, <1>2 DEF SessionsAccounted, InMemory, InFlush, workerVars
<1>5. TurnRule' /\ SessionsBounded'
  BY <1>1 DEF TurnRule, SessionsBounded, InFlush, workerVars
<1>6. PermitRule'
  <2>1. Granted' = Granted
    BY <1>1 DEF Granted, NextRequest
  <2>. QED BY <1>1, <2>1 DEF PermitRule
<1>. QED BY <1>3, <1>4, <1>5, <1>6

\* What a receive leaves true of the senders, whoever gets the permit.
SendersOK ==
    /\ sender' \in [Sessions -> SenderStages]
    /\ waiters' \in Seq(Sessions) /\ IsInjective(waiters')
    /\ permits' \in Nat
    /\ \A s \in Sessions :
          /\ sender'[s] = "sent" <=> sender[s] = "sent"
          /\ sender'[s] = "waiting" <=> s \in ToSet(waiters')

\* Draining a batch of at most BatchSize records moves them into the flush.
LEMMA DrainInv ==
    ASSUME SessionInv, worker = "recv", NEW b \in Seq(Sessions), Drain(b),
           IsInjective(b), Len(b) <= BatchSize,
           channel' \in Seq(Sessions), IsInjective(channel'),
           ToSet(channel') \cup ToSet(b) = ToSet(channel) \cup ToSet(batch),
           ToSet(channel') \cap ToSet(b) = {}, SendersOK, PermitRule',
           UNCHANGED <<lastFlush, writing, rest, rows, lost, crashes>>
    PROVE  SessionInv'
<1>. USE DEF SessionInv
<1>1. /\ drained = {} /\ rest = {} /\ writing = NoProject
      /\ drained' = ToSet(b) /\ batch' = <<>> /\ worker' = "flush"
  BY DEF TypeOK, Drain
<1>2. ToSet(b) \subseteq Sessions
  BY DEF ToSet
<1>3. TypeOK'
  BY <1>1, <1>2, EmptyQueue DEF TypeOK, SendersOK
<1>4. SessionsAccounted'
  BY <1>1, EmptyQueue DEF SessionsAccounted, InMemory, InFlush, SendersOK
<1>5. TurnRule'
  BY <1>1, <1>2, SessionAssumption DEF TurnRule
<1>6. SessionsBounded'
  <2>1. InFlush' = ToSet(b)
    BY <1>1 DEF InFlush
  <2>2. IsFiniteSet(ToSet(b)) /\ Cardinality(ToSet(b)) <= Len(b)
        /\ Cardinality(ToSet(b)) \in Nat /\ Len(b) \in Nat
    BY QueueCardinality, FS_CardinalityType
  <2>. QED BY <1>1, <2>1, <2>2, EmptyQueue, SessionAssumption DEF SessionsBounded
<1>. QED BY <1>3, <1>4, <1>5, <1>6

LEMMA SessionReceiveInv ==
    ASSUME SessionInv, SessionReceive
    PROVE  SessionInv'
<1>. USE DEF SessionInv
<1> DEFINE s == Head(channel)
           b == Append(batch, s)
<1>1. /\ worker = "recv" /\ channel # <<>>
      /\ channel \in Seq(Sessions) /\ batch \in Seq(Sessions)
      /\ IsInjective(channel) /\ IsInjective(batch)
      /\ ToSet(channel) \cap ToSet(batch) = {}
      /\ Len(batch) < BatchSize
  BY DEF SessionReceive, TypeOK, SessionsAccounted, SessionsBounded
<1>2. /\ channel' = Tail(channel) /\ GivePermit(sender)
      /\ UNCHANGED <<lastFlush, writing, rest, rows, lost, crashes>>
      /\ \/ Len(b) >= BatchSize /\ Drain(b)
         \/ Len(b) < BatchSize /\ batch' = b /\ UNCHANGED <<worker, drained>>
  BY DEF SessionReceive
<1>3. /\ s \in ToSet(channel) /\ s \in Sessions
      /\ channel' \in Seq(Sessions) /\ ToSet(channel') = ToSet(channel) \ {s}
      /\ IsInjective(channel') /\ Len(channel') = Len(channel) - 1
  BY <1>1, <1>2, TailQueue
<1> HIDE DEF s
<1>4. /\ b \in Seq(Sessions) /\ ToSet(b) = ToSet(batch) \cup {s}
      /\ IsInjective(b) /\ Len(b) = Len(batch) + 1
  BY <1>1, <1>3, AppendQueue
<1> HIDE DEF b
<1>5. /\ ToSet(channel') \cup ToSet(b) = ToSet(channel) \cup ToSet(batch)
      /\ ToSet(channel') \cap ToSet(b) = {}
  BY <1>1, <1>3, <1>4
<1>6. Len(b) <= BatchSize
  <2>1. Len(batch) \in Nat
    BY <1>1
  <2>. QED BY <2>1, <1>1, <1>4, SessionAssumption
<1>7. SendersOK /\ PermitRule'
  <2>1. /\ sender \in [Sessions -> SenderStages] /\ permits \in Nat
        /\ waiters \in Seq(Sessions) /\ IsInjective(waiters)
        /\ \A r \in Sessions : sender[r] = "waiting" <=> r \in ToSet(waiters)
    BY DEF TypeOK, SessionsAccounted
  <2>2. /\ IsFiniteSet(Granted) /\ (waiters # <<>> => permits = 0)
        /\ permits + Cardinality(Granted) + Len(channel) = ChannelCapacity
    BY DEF PermitRule
  <2>3. Granted = {r \in Sessions : sender[r] = "granted"}
    BY DEF Granted
  <2>4. /\ SendersOK
        /\ IsFiniteSet(Granted')
        /\ permits' + Cardinality(Granted') = permits + Cardinality(Granted) + 1
        /\ waiters' # <<>> => permits' = 0
    BY <1>2, <2>1, <2>2, <2>3, PermitGiven DEF SendersOK
  <2>5. /\ Cardinality(Granted) \in Nat /\ Cardinality(Granted') \in Nat
        /\ Len(channel) \in Nat /\ permits' \in Nat
    BY <1>1, <2>2, <2>4, FS_CardinalityType DEF SendersOK
  <2>6. permits' + Cardinality(Granted') + Len(channel') = ChannelCapacity
    BY <1>3, <2>1, <2>2, <2>4, <2>5
  <2>. QED BY <2>4, <2>6 DEF PermitRule
<1>8. CASE Len(b) >= BatchSize /\ Drain(b)
  BY <1>1, <1>2, <1>3, <1>4, <1>5, <1>6, <1>7, <1>8, DrainInv
<1>9. CASE Len(b) < BatchSize /\ batch' = b /\ UNCHANGED <<worker, drained>>
  <2>1. TypeOK'
    BY <1>1, <1>2, <1>3, <1>4, <1>7, <1>9 DEF TypeOK, SendersOK
  <2>2. SessionsAccounted'
    BY <1>2, <1>3, <1>4, <1>5, <1>7, <1>9
    DEF SessionsAccounted, InMemory, InFlush, SendersOK
  <2>3. TurnRule'
    BY <1>2, <1>9 DEF TurnRule
  <2>4. SessionsBounded'
    BY <1>2, <1>9 DEF SessionsBounded, InFlush
  <2>. QED BY <1>7, <2>1, <2>2, <2>3, <2>4
<1>. QED BY <1>2, <1>8, <1>9

LEMMA SessionTimeoutInv ==
    ASSUME SessionInv, SessionTimeout
    PROVE  SessionInv'
<1>1. /\ worker = "recv" /\ Drain(batch)
      /\ UNCHANGED <<sender, waiters, permits, channel, lastFlush, writing, rest,
                     rows, lost, crashes>>
  BY DEF SessionTimeout
<1>2. /\ batch \in Seq(Sessions) /\ IsInjective(batch) /\ Len(batch) <= BatchSize
      /\ channel \in Seq(Sessions) /\ IsInjective(channel)
      /\ ToSet(channel) \cap ToSet(batch) = {}
  BY SessionAssumption DEF SessionInv, TypeOK, SessionsAccounted, SessionsBounded
<1>3. SendersOK /\ PermitRule'
  BY <1>1 DEF SendersOK, SessionInv, TypeOK, SessionsAccounted, PermitRule, Granted
<1>. QED BY <1>1, <1>2, <1>3, DrainInv

LEMMA FlushOpenInv ==
    ASSUME SessionInv, NEW p \in Projects, FlushOpen(p)
    PROVE  SessionInv'
<1>. USE DEF SessionInv
<1>1. /\ worker = "flush" /\ writing = NoProject /\ rest = {}
      /\ writing' = p /\ drained' = drained \ Group(p)
      /\ \/ rest' = Group(p) /\ lost' = lost
         \/ rest' = {} /\ lost' = lost \cup Group(p)
      /\ UNCHANGED <<sender, waiters, permits, channel, batch, lastFlush, worker,
                     rows, crashes>>
  BY DEF FlushOpen, TypeOK
<1>2. Group(p) \subseteq drained /\ drained \subseteq Sessions
  BY DEF Group, TypeOK
<1>3. TypeOK'
  BY <1>1, <1>2, SessionAssumption DEF TypeOK
<1>4. SessionsAccounted'
  BY <1>1, <1>2 DEF SessionsAccounted, InMemory, InFlush
<1>5. TurnRule'
  BY <1>1 DEF TurnRule, Group
<1>6. SessionsBounded'
  <2>1. InFlush' \subseteq InFlush
    BY <1>1, <1>2 DEF InFlush
  <2>2. /\ IsFiniteSet(InFlush) /\ Cardinality(InFlush) \in Nat
        /\ IsFiniteSet(InFlush') /\ Cardinality(InFlush') <= Cardinality(InFlush)
        /\ Cardinality(InFlush') \in Nat
    BY <2>1, FS_Subset, FS_CardinalityType DEF SessionsBounded
  <2>. QED BY <1>1, <2>2, SessionAssumption DEF SessionsBounded
<1>7. PermitRule'
  BY <1>1 DEF PermitRule, Granted
<1>. QED BY <1>3, <1>4, <1>5, <1>6, <1>7

LEMMA FlushRowInv ==
    ASSUME SessionInv, FlushRow
    PROVE  SessionInv'
<1>. USE DEF SessionInv
<1>1. PICK s \in rest :
         /\ rest' = rest \ {s}
         /\ \/ rows' = rows \cup {s} /\ lost' = lost
            \/ lost' = lost \cup {s} /\ rows' = rows
  BY DEF FlushRow
<1>2. /\ writing # NoProject
      /\ UNCHANGED <<sender, waiters, permits, channel, batch, lastFlush, worker,
                     drained, writing, crashes>>
  BY DEF FlushRow
<1>3. s \notin drained /\ s \in Sessions
  BY DEF TurnRule, TypeOK
<1>4. TypeOK'
  BY <1>1, <1>2, <1>3 DEF TypeOK
<1>5. SessionsAccounted'
  BY <1>1, <1>2, <1>3 DEF SessionsAccounted, InMemory, InFlush
<1>6. TurnRule'
  BY <1>1, <1>2 DEF TurnRule
<1>7. SessionsBounded'
  <2>1. InFlush' \subseteq InFlush
    BY <1>1, <1>2 DEF InFlush
  <2>2. /\ IsFiniteSet(InFlush) /\ Cardinality(InFlush) \in Nat
        /\ IsFiniteSet(InFlush') /\ Cardinality(InFlush') <= Cardinality(InFlush)
        /\ Cardinality(InFlush') \in Nat
    BY <2>1, FS_Subset, FS_CardinalityType DEF SessionsBounded
  <2>. QED BY <1>2, <2>2, SessionAssumption DEF SessionsBounded
<1>8. PermitRule'
  BY <1>2 DEF PermitRule, Granted
<1>. QED BY <1>4, <1>5, <1>6, <1>7, <1>8

LEMMA TurnEndsInv ==
    ASSUME SessionInv, TurnEnds
    PROVE  SessionInv'
<1>. USE DEF SessionInv
<1>1. /\ rest = {} /\ writing' = NoProject
      /\ UNCHANGED <<sender, waiters, permits, channel, batch, lastFlush, worker,
                     drained, rest, rows, lost, crashes>>
  BY DEF TurnEnds
<1>2. worker = "flush" => worker' = "flush" /\ batch = <<>>
  BY <1>1 DEF TypeOK
<1>3. TypeOK'
  BY <1>1, <1>2 DEF TypeOK
<1>4. SessionsAccounted' /\ SessionsBounded'
  BY <1>1 DEF SessionsAccounted, SessionsBounded, InMemory, InFlush
<1>5. TurnRule'
  BY <1>1, SessionAssumption DEF TurnRule, TypeOK
<1>6. PermitRule'
  BY <1>1 DEF PermitRule, Granted
<1>. QED BY <1>3, <1>4, <1>5, <1>6

LEMMA FlushEndInv ==
    ASSUME SessionInv, FlushEnd
    PROVE  SessionInv'
BY DEF SessionInv, FlushEnd, TypeOK, SessionsAccounted, TurnRule, PermitRule,
       SessionsBounded, InMemory, InFlush, Granted

LEMMA IntervalElapsesInv ==
    ASSUME SessionInv, IntervalElapses
    PROVE  SessionInv'
BY DEF SessionInv, IntervalElapses, TypeOK, SessionsAccounted, TurnRule,
       PermitRule, SessionsBounded, InMemory, InFlush, Granted

LEMMA CrashInv ==
    ASSUME SessionInv, Crash
    PROVE  SessionInv'
<1>. USE DEF SessionInv
<1>1. /\ waiters' = <<>> /\ channel' = <<>> /\ batch' = <<>> /\ drained' = {}
      /\ rest' = {} /\ writing' = NoProject /\ worker' = "recv"
      /\ lastFlush' = "recent" /\ rows' = rows /\ permits' = ChannelCapacity
      /\ lost' = lost \cup InMemory /\ crashes' = crashes + 1
      /\ crashes < MaxCrashes
      /\ sender' = [s \in Sessions |-> IF sender[s] \in {"waiting", "granted"}
                                        THEN "cut" ELSE sender[s]]
  BY DEF Crash
<1>2. InMemory \subseteq Sessions
  BY DEF TypeOK, InMemory, InFlush, ToSet
<1>3. TypeOK'
  BY <1>1, <1>2, EmptyQueue, SessionAssumption DEF TypeOK, SenderStages
<1>4. SessionsAccounted'
  <2>1. InMemory' = {} /\ InFlush' = {}
    BY <1>1, EmptyQueue DEF InMemory, InFlush
  <2>2. sender \in [Sessions -> SenderStages]
    BY DEF TypeOK
  <2>. QED BY <1>1, <2>1, <2>2, EmptyQueue DEF SessionsAccounted
<1>5. TurnRule'
  BY <1>1 DEF TurnRule
<1>6. SessionsBounded'
  BY <1>1, EmptyQueue, FS_EmptySet, SessionAssumption DEF SessionsBounded, InFlush
<1>7. PermitRule'
  <2>1. Granted' = {}
    BY <1>1 DEF Granted
  <2>. QED BY <1>1, <2>1, EmptyQueue, FS_EmptySet, SessionAssumption DEF PermitRule
<1>. QED BY <1>3, <1>4, <1>5, <1>6, <1>7

LEMMA NextInv == SessionInv /\ [Next]_vars => SessionInv'
<1> SUFFICES ASSUME SessionInv, [Next]_vars PROVE SessionInv'
  OBVIOUS
<1>1. CASE UNCHANGED vars
  BY <1>1 DEF vars, workerVars, SessionInv, TypeOK, SessionsAccounted, TurnRule,
              PermitRule, SessionsBounded, InMemory, InFlush, Granted
<1>2. CASE \E s \in Sessions :
              Send(s) \/ SendResumes(s) \/ SendDropped(s) \/ NextRequest(s)
  BY <1>2, SendInv, SendResumesInv, SendDroppedInv, NextRequestInv
<1>3. CASE WorkerStep
  BY <1>3, SessionReceiveInv, SessionTimeoutInv, FlushOpenInv, FlushRowInv,
     TurnEndsInv, FlushEndInv DEF WorkerStep
<1>4. CASE IntervalElapses \/ Crash
  BY <1>4, IntervalElapsesInv, CrashInv
<1>. QED BY <1>1, <1>2, <1>3, <1>4 DEF Next

-----------------------------------------------------------------------------
(* The theorems                                                            *)

\* Every session record is in one place and once, no permit of the channel is
\* made up or lost and none is free while a sender waits, and the worker holds no
\* more than a batch or the batch it flushes: send().await, its cancellation
\* before or after it was given a permit, session_worker, flush_sessions and a
\* crash keep that.
THEOREM SessionTheorem == Spec => []SessionInv
BY InitInv, NextInv, PTL DEF Spec

-----------------------------------------------------------------------------
(* The system pool: the calls that send these records hold a connection of *)
(* it, while they wait for room in the channel too.                        *)

(* Threads and connections are counted                                     *)

Running == {h \in Handlers : stage[h] \in OnThread}
FlusherBusy == IF flusher = "idle" THEN 0 ELSE 1

LEMMA Counts ==
    ASSUME PoolTypeOK
    PROVE  /\ IsFiniteSet(Running) /\ Cardinality(Running) \in Nat
           /\ IsFiniteSet(holders) /\ Cardinality(holders) \in Nat
           /\ BusyThreads = Cardinality(Running) + FlusherBusy
           /\ FlusherBusy \in {0, 1} /\ BusyThreads \in Nat
           /\ Threads \in Nat /\ PoolSize \in Nat
<1>1. Running \subseteq Handlers /\ holders \subseteq Handlers
  BY DEF Running, PoolTypeOK
<1>2. IsFiniteSet(Running) /\ IsFiniteSet(holders)
  BY <1>1, FS_Subset, PoolAssumption
<1>3. Cardinality(Running) \in Nat /\ Cardinality(holders) \in Nat
  BY <1>2, FS_CardinalityType
<1>4. BusyThreads = Cardinality(Running) + FlusherBusy
  BY DEF BusyThreads, Running, FlusherBusy
<1>. QED BY <1>2, <1>3, <1>4, PoolAssumption DEF FlusherBusy

\* One more element counts one more, one less counts no more.
LEMMA OneMore ==
    ASSUME NEW S, IsFiniteSet(S), NEW x
    PROVE  /\ Cardinality(S \cup {x}) \in Nat
           /\ x \in S => Cardinality(S \cup {x}) = Cardinality(S)
           /\ x \notin S => Cardinality(S \cup {x}) = Cardinality(S) + 1
<1>1. IsFiniteSet(S \cup {x})
  BY FS_AddElement
<1>. QED BY <1>1, FS_AddElement, FS_CardinalityType

LEMMA OneLess ==
    ASSUME NEW S, IsFiniteSet(S), NEW x
    PROVE  Cardinality(S \ {x}) \in Nat /\ Cardinality(S \ {x}) <= Cardinality(S)
<1>1. IsFiniteSet(S \ {x}) /\ Cardinality(S) \in Nat
  BY FS_RemoveElement, FS_CardinalityType
<1>2. Cardinality(S \ {x}) \in Nat
  BY <1>1, FS_CardinalityType
<1>3. Cardinality(S \ {x}) = IF x \in S THEN Cardinality(S) - 1 ELSE Cardinality(S)
  BY FS_RemoveElement
<1>. QED BY <1>1, <1>2, <1>3

\* A call that takes up a thread makes one more, if it had none.
LEMMA GoOnThread ==
    ASSUME PoolTypeOK, NEW h \in Handlers, NEW s \in OnThread, Goto(h, s),
           UNCHANGED flusher
    PROVE  /\ BusyThreads' \in Nat
           /\ stage[h] \in OnThread => BusyThreads' = BusyThreads
           /\ stage[h] \notin OnThread => BusyThreads' = BusyThreads + 1
<1>1. Running' = Running \cup {h} /\ FlusherBusy' = FlusherBusy
  BY DEF Running, Goto, PoolTypeOK, FlusherBusy
<1>2. BusyThreads' = Cardinality(Running \cup {h}) + FlusherBusy
  BY <1>1 DEF BusyThreads, Running, FlusherBusy
<1>3. h \in Running <=> stage[h] \in OnThread
  BY DEF Running
<1>4. /\ Cardinality(Running \cup {h}) \in Nat
      /\ h \in Running => Cardinality(Running \cup {h}) = Cardinality(Running)
      /\ h \notin Running => Cardinality(Running \cup {h}) = Cardinality(Running) + 1
  BY Counts, OneMore
<1>. QED BY <1>2, <1>3, <1>4, Counts

\* A call that returns or is suspended gives its thread back.
LEMMA GoOffThread ==
    ASSUME PoolTypeOK, NEW h \in Handlers, NEW s \in Stages \ OnThread, Goto(h, s),
           UNCHANGED flusher
    PROVE  BusyThreads' \in Nat /\ BusyThreads' <= BusyThreads
<1>1. Running' = Running \ {h} /\ FlusherBusy' = FlusherBusy
  BY DEF Running, Goto, PoolTypeOK, FlusherBusy
<1>2. BusyThreads' = Cardinality(Running \ {h}) + FlusherBusy
  BY <1>1 DEF BusyThreads, Running, FlusherBusy
<1>3. /\ Cardinality(Running \ {h}) \in Nat
      /\ Cardinality(Running \ {h}) <= Cardinality(Running)
  BY Counts, OneLess
<1>. QED BY <1>2, <1>3, Counts

LEMMA TakeConn ==
    ASSUME PoolTypeOK, ConnFree, NEW h
    PROVE  Cardinality(holders \cup {h}) <= PoolSize
<1>1. Cardinality(holders) < PoolSize
  BY DEF ConnFree
<1>2. Cardinality(holders \cup {h}) \in Nat
      /\ Cardinality(holders \cup {h}) <= Cardinality(holders) + 1
  BY Counts, OneMore
<1>. QED BY <1>1, <1>2, Counts

LEMMA DropConn ==
    ASSUME PoolTypeOK, Cardinality(holders) <= PoolSize, NEW h
    PROVE  Cardinality(holders \ {h}) <= PoolSize
BY Counts, OneLess

-----------------------------------------------------------------------------
(* The invariant, action by action                                         *)

LEMMA PoolInitInv == PoolInit => PoolInv
<1> SUFFICES ASSUME PoolInit PROVE PoolInv
  OBVIOUS
<1>1. PoolTypeOK
  BY PoolAssumption DEF PoolInit, PoolTypeOK, Stages, FlusherStages
<1>2. HoldersAreRunning
  BY DEF PoolInit, HoldersAreRunning
<1>3. WithinLimits
  <2>1. {h \in Handlers : stage[h] \in OnThread} = {} /\ holders = {}
    BY DEF PoolInit, OnThread, Blocked
  <2>2. BusyThreads = 0 /\ Cardinality(holders) = 0
    BY <2>1, FS_EmptySet DEF PoolInit, BusyThreads
  <2>. QED BY <2>2, PoolAssumption DEF WithinLimits
<1>. QED BY <1>1, <1>2, <1>3 DEF PoolInv

\* Returning gives the thread and the connection back.
LEMMA ReturnInv ==
    ASSUME PoolInv, NEW h \in Handlers, Return(h), UNCHANGED flusher,
           sessions' \in 0 .. SessionCapacity, events' \in 0 .. EventCapacity
    PROVE  PoolInv'
<1>1. /\ stage' = [stage EXCEPT ![h] = "done"] /\ holders' = holders \ {h}
      /\ PoolTypeOK /\ HoldersAreRunning /\ WithinLimits
  BY DEF Return, Goto, PoolInv
<1>2. PoolTypeOK'
  BY <1>1 DEF PoolTypeOK, Stages
<1>3. HoldersAreRunning'
  BY <1>1 DEF HoldersAreRunning, PoolTypeOK
<1>4. WithinLimits'
  <2>1. "done" \in Stages \ OnThread /\ Goto(h, "done")
    BY DEF Stages, OnThread, Blocked, Return
  <2>2. BusyThreads' \in Nat /\ BusyThreads' <= BusyThreads
    BY <1>1, <2>1, GoOffThread
  <2>3. Cardinality(holders') <= PoolSize
    BY <1>1, DropConn DEF WithinLimits
  <2>. QED BY <1>1, <2>2, <2>3, Counts DEF WithinLimits
<1>. QED BY <1>2, <1>3, <1>4 DEF PoolInv

\* Going on to a stage on the thread the call occupies already, with the
\* connection it has.
LEMMA StayInv ==
    ASSUME PoolInv, NEW h \in Handlers, NEW s \in OnThread, Goto(h, s),
           stage[h] \in OnThread, UNCHANGED <<holders, flusher>>,
           sessions' \in 0 .. SessionCapacity, events' \in 0 .. EventCapacity,
           s \in {"check", "sent"} => h \in holders,
           h \in holders => s # "conn"
    PROVE  PoolInv'
<1>1. /\ stage' = [stage EXCEPT ![h] = s]
      /\ PoolTypeOK /\ HoldersAreRunning /\ WithinLimits
  BY DEF Goto, PoolInv
<1>2. PoolTypeOK'
  BY <1>1 DEF PoolTypeOK, Stages
<1>3. HoldersAreRunning'
  BY <1>1 DEF HoldersAreRunning, PoolTypeOK, OnThread, Blocked
<1>4. WithinLimits'
  BY <1>1, GoOnThread DEF WithinLimits
<1>. QED BY <1>2, <1>3, <1>4 DEF PoolInv

LEMMA StartInv ==
    ASSUME PoolInv, NEW h \in Handlers, Start(h)
    PROVE  PoolInv'
<1>1. /\ PoolTypeOK /\ HoldersAreRunning /\ WithinLimits
      /\ stage[h] = "new" /\ stage[h] \notin OnThread /\ BusyThreads < Threads
      /\ UNCHANGED <<flusher, sessions, events>>
  BY DEF Start, PoolInv, ThreadFree, OnThread, Blocked
<1>2. PICK s \in {"check", "conn"} :
         /\ Goto(h, s)
         /\ \/ s = "check" /\ ConnFree /\ holders' = holders \cup {h}
            \/ s = "conn" /\ holders' = holders
  BY DEF Start
<1>3. s \in OnThread /\ stage' = [stage EXCEPT ![h] = s]
  BY <1>2 DEF OnThread, Blocked, Goto
<1>4. PoolTypeOK'
  BY <1>1, <1>2, <1>3 DEF PoolTypeOK, Stages
<1>5. HoldersAreRunning'
  BY <1>1, <1>2, <1>3 DEF HoldersAreRunning, PoolTypeOK
<1>6. WithinLimits'
  <2>1. BusyThreads' \in Nat /\ BusyThreads' = BusyThreads + 1
    BY <1>1, <1>2, <1>3, GoOnThread
  <2>2. BusyThreads' <= Threads
    BY <1>1, <2>1, Counts
  <2>3. Cardinality(holders') <= PoolSize
    BY <1>1, <1>2, TakeConn DEF WithinLimits
  <2>. QED BY <2>2, <2>3 DEF WithinLimits
<1>. QED BY <1>4, <1>5, <1>6 DEF PoolInv

LEMMA GotConnInv ==
    ASSUME PoolInv, NEW h \in Handlers, GotConn(h)
    PROVE  PoolInv'
<1>1. /\ PoolTypeOK /\ HoldersAreRunning /\ WithinLimits
      /\ stage[h] = "conn" /\ stage[h] \in OnThread /\ ConnFree
      /\ Goto(h, "check") /\ "check" \in OnThread
      /\ stage' = [stage EXCEPT ![h] = "check"] /\ holders' = holders \cup {h}
      /\ UNCHANGED <<flusher, sessions, events>>
  BY DEF GotConn, PoolInv, OnThread, Blocked, Goto
<1>2. PoolTypeOK'
  BY <1>1 DEF PoolTypeOK, Stages
<1>3. HoldersAreRunning'
  BY <1>1 DEF HoldersAreRunning, PoolTypeOK
<1>4. WithinLimits'
  <2>1. BusyThreads' = BusyThreads
    BY <1>1, GoOnThread
  <2>. QED BY <1>1, <2>1, TakeConn DEF WithinLimits
<1>. QED BY <1>2, <1>3, <1>4 DEF PoolInv

LEMMA ConnTimeoutInv ==
    ASSUME PoolInv, NEW h \in Handlers, ConnTimeout(h)
    PROVE  PoolInv'
<1>1. /\ stage[h] \in OnThread /\ "switch" \in OnThread
      /\ sessions' \in 0 .. SessionCapacity /\ events' \in 0 .. EventCapacity
  BY DEF ConnTimeout, PoolInv, PoolTypeOK, OnThread, Blocked
<1>. QED BY <1>1, StayInv DEF ConnTimeout

LEMMA CheckInv ==
    ASSUME PoolInv, NEW h \in Handlers, Check(h)
    PROVE  PoolInv'
<1>1. /\ PoolTypeOK /\ HoldersAreRunning /\ WithinLimits
      /\ stage[h] = "check" /\ stage[h] \in OnThread /\ h \in holders
      /\ flusher' = flusher /\ events' = events /\ events' \in 0 .. EventCapacity
      /\ sessions \in 0 .. SessionCapacity /\ SessionCapacity \in Nat
  BY PoolAssumption
  DEF Check, PoolInv, PoolTypeOK, HoldersAreRunning, OnThread, Blocked
<1>2. CASE Return(h) /\ sessions' = sessions
  BY <1>1, <1>2, ReturnInv
<1>3. CASE /\ sessions < SessionCapacity /\ sessions' = sessions + 1
           /\ Goto(h, "sent") /\ holders' = holders
  <2>1. sessions' \in 0 .. SessionCapacity /\ "sent" \in OnThread
    BY <1>1, <1>3 DEF OnThread
  <2>. QED BY <1>1, <1>3, <2>1, StayInv
<1>4. CASE Goto(h, "sending") /\ holders' = holders /\ sessions' = sessions
  <2>1. "sending" \in Stages \ OnThread
    BY DEF Stages, OnThread, Blocked
  <2>2. PoolTypeOK' /\ HoldersAreRunning'
    BY <1>1, <1>4, <2>1 DEF PoolTypeOK, HoldersAreRunning, Goto
  <2>3. WithinLimits'
    BY <1>1, <1>4, <2>1, GoOffThread, Counts DEF WithinLimits
  <2>. QED BY <2>2, <2>3 DEF PoolInv
<1>. QED BY <1>2, <1>3, <1>4 DEF Check

LEMMA PoolSendResumesInv ==
    ASSUME PoolInv, NEW h \in Handlers, SendGoesOn(h)
    PROVE  PoolInv'
<1>1. /\ PoolTypeOK /\ HoldersAreRunning /\ WithinLimits
      /\ stage[h] = "sending" /\ stage[h] \notin OnThread /\ h \in holders
      /\ BusyThreads < Threads /\ "sent" \in OnThread /\ "sent" \in Stages
      /\ sessions < SessionCapacity /\ sessions' = sessions + 1
      /\ Goto(h, "sent") /\ stage' = [stage EXCEPT ![h] = "sent"]
      /\ UNCHANGED <<holders, flusher, events>>
  BY DEF SendGoesOn, PoolInv, HoldersAreRunning, ThreadFree, Stages, OnThread,
         Blocked, Goto
<1>2. PoolTypeOK'
  BY <1>1, PoolAssumption DEF PoolTypeOK
<1>3. HoldersAreRunning'
  BY <1>1 DEF HoldersAreRunning, PoolTypeOK
<1>4. WithinLimits'
  <2>1. BusyThreads' = BusyThreads + 1
    BY <1>1, GoOnThread
  <2>. QED BY <1>1, <2>1, Counts DEF WithinLimits
<1>. QED BY <1>2, <1>3, <1>4 DEF PoolInv

LEMMA TrySendInv ==
    ASSUME PoolInv, NEW h \in Handlers, TrySend(h)
    PROVE  PoolInv'
<1>1. /\ stage[h] \in OnThread /\ stage[h] = "sent" /\ "switch" \in OnThread
      /\ flusher' = flusher /\ sessions' = sessions
      /\ sessions' \in 0 .. SessionCapacity
      /\ events \in 0 .. EventCapacity /\ EventCapacity \in Nat
  BY PoolAssumption DEF TrySend, PoolInv, PoolTypeOK, OnThread, Blocked
<1>2. CASE Return(h) /\ (events' = events \/ (events < EventCapacity /\ events' = events + 1))
  <2>1. events' \in 0 .. EventCapacity
    BY <1>1, <1>2
  <2>. QED BY <1>1, <1>2, <2>1, ReturnInv
<1>3. CASE Goto(h, "switch") /\ holders' = holders /\ events' = events
  BY <1>1, <1>3, StayInv
<1>. QED BY <1>2, <1>3 DEF TrySend

LEMMA LogSwitchInv ==
    ASSUME PoolInv, NEW h \in Handlers, LogSwitch(h)
    PROVE  PoolInv'
<1>1. /\ stage[h] \in OnThread /\ "row" \in OnThread
      /\ UNCHANGED <<flusher, sessions, events>>
      /\ sessions' \in 0 .. SessionCapacity /\ events' \in 0 .. EventCapacity
  BY DEF LogSwitch, PoolInv, PoolTypeOK, OnThread, Blocked
<1>2. CASE Return(h)
  BY <1>1, <1>2, ReturnInv
<1>3. CASE Goto(h, "row") /\ holders' = holders
  BY <1>1, <1>3, StayInv
<1>. QED BY <1>2, <1>3 DEF LogSwitch

LEMMA LogRowInv ==
    ASSUME PoolInv, NEW h \in Handlers, LogRow(h)
    PROVE  PoolInv'
<1>1. /\ Return(h) /\ UNCHANGED flusher
      /\ sessions' \in 0 .. SessionCapacity /\ events' \in 0 .. EventCapacity
  BY DEF LogRow, PoolInv, PoolTypeOK
<1>. QED BY <1>1, ReturnInv

\* The workers: one thread at most is the ingestion worker's.
LEMMA WorkersInv ==
    ASSUME PoolInv, DrainSession \/ DrainEvents \/ FlusherGoesOn
    PROVE  PoolInv'
<1>1. PoolTypeOK /\ HoldersAreRunning /\ WithinLimits /\ UNCHANGED <<stage, holders>>
  BY DEF PoolInv, DrainSession, DrainEvents, FlusherGoesOn
<1>2. PoolTypeOK'
  BY <1>1, PoolAssumption
  DEF PoolTypeOK, DrainSession, DrainEvents, FlusherGoesOn, FlusherStages
<1>3. HoldersAreRunning'
  BY <1>1 DEF HoldersAreRunning
<1>4. WithinLimits'
  <2>1. BusyThreads' = Cardinality(Running) + FlusherBusy'
    BY <1>1 DEF BusyThreads, Running, FlusherBusy
  <2>2. FlusherBusy' \in {0, 1}
    BY DEF FlusherBusy
  <2>3. FlusherBusy' <= FlusherBusy \/ BusyThreads < Threads
    BY DEF FlusherBusy, DrainSession, DrainEvents, FlusherGoesOn, ThreadFree
  <2>. QED BY <1>1, <2>1, <2>2, <2>3, Counts DEF WithinLimits
<1>. QED BY <1>2, <1>3, <1>4 DEF PoolInv

LEMMA PoolNextInv == PoolInv /\ [PoolNext]_poolVars => PoolInv'
<1> SUFFICES ASSUME PoolInv, [PoolNext]_poolVars PROVE PoolInv'
  OBVIOUS
<1>1. CASE UNCHANGED poolVars
  BY <1>1 DEF poolVars, PoolInv, PoolTypeOK, HoldersAreRunning, WithinLimits, BusyThreads
<1>2. ASSUME NEW h \in Handlers, Start(h) \/ HandlerStep(h)
      PROVE  PoolInv'
  BY <1>2, StartInv, GotConnInv, ConnTimeoutInv, CheckInv, PoolSendResumesInv,
     TrySendInv, LogSwitchInv, LogRowInv DEF HandlerStep
<1>3. CASE DrainSession \/ DrainEvents \/ FlusherGoesOn
  BY <1>3, WorkersInv
<1>. QED BY <1>1, <1>2, <1>3 DEF PoolNext

-----------------------------------------------------------------------------
(* The theorems                                                            *)

\* Every path through sentry_envelope, refusals, timeouts and failed log rows
\* included, gives back the connection it took, and neither the threads nor
\* the pool are ever overdrawn.
THEOREM PoolTheorem == PoolSpec => []PoolInv
BY PoolInitInv, PoolNextInv, PTL DEF PoolSpec

\* However calls, the workers, threads, connections and queue slots wait for one
\* another: somebody goes on without a timeout, or all connections are held by
\* calls that wait for a second one, or for the session channel while no thread
\* is left to drain it, and then a Pool::get is under way whose
\* connection_timeout ends it.
THEOREM OnlyConnectionsStallTheorem == PoolSpec => []OnlyConnectionsStall
<1>1. PoolInv => OnlyConnectionsStall
  <2> SUFFICES ASSUME PoolInv, ~GoesOn,
                      flusher # "idle" \/ \E h \in Handlers : stage[h] \notin {"new", "done"}
               PROVE  Standstill
    BY DEF OnlyConnectionsStall
  <2>1. /\ PoolTypeOK /\ HoldersAreRunning /\ WithinLimits
        /\ \A h \in Handlers : stage[h] \notin {"check", "sent"}
        /\ sessions \in 0 .. SessionCapacity
        /\ holders \subseteq Handlers
    BY DEF PoolInv, PoolTypeOK, GoesOn
  <2>2. ASSUME NEW h \in Handlers, stage[h] \notin {"new", "done"},
               stage[h] \notin Blocked
        PROVE  stage[h] = "sending"
    BY <2>1, <2>2 DEF PoolTypeOK, Stages, OnThread
  <2>3. \A h \in holders : stage[h] \in {"switch", "row", "sending"}
    BY <2>1, <2>2 DEF HoldersAreRunning, Blocked
  <2>4. SomebodyBlocked
    <3> SUFFICES ASSUME flusher = "idle", \A h \in Handlers : stage[h] \notin Blocked
                 PROVE  FALSE
      BY DEF SomebodyBlocked
    <3>1. PICK h \in Handlers : stage[h] = "sending"
      BY <2>2
    <3>2. {g \in Handlers : stage[g] \in OnThread} = {}
      BY <2>1 DEF OnThread
    <3>3. ThreadFree
      BY <3>2, FS_EmptySet, PoolAssumption DEF ThreadFree, BusyThreads
    <3>. QED BY <2>1, <3>1, <3>3, PoolAssumption DEF GoesOn
  <2>5. ~ConnFree
    BY <2>4 DEF GoesOn
  <2>6. CASE ThreadFree
    <3>1. ~(sessions > 0) /\ sessions < SessionCapacity
      BY <2>1, <2>6, PoolAssumption DEF GoesOn
    <3>2. \A h \in Handlers : stage[h] # "sending"
      BY <2>6, <3>1 DEF GoesOn
    <3>. QED BY <2>1, <2>3, <2>4, <2>5, <3>2 DEF Standstill
  <2>. QED BY <2>3, <2>4, <2>5, <2>6 DEF Standstill
<1>. QED BY <1>1, PoolTheorem, PTL
=============================================================================
