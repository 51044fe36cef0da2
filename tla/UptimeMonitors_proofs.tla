----------------------- MODULE UptimeMonitors_proofs ------------------------
(***************************************************************************)
(* Proofs about UptimeMonitors, for any number of monitors and requests in *)
(* flight and histories of any length.                                     *)
(***************************************************************************)
EXTENDS UptimeMonitors, SequenceTheorems, FiniteSetTheorems, FunctionTheorems,
        NaturalsInduction, WellFoundedInduction, TLAPS

-----------------------------------------------------------------------------
(* Scans of a history                                                      *)

\* Induction for the members of a set.
LEMMA SetInduction ==
    ASSUME NEW S, 0 \in S, \A n \in Nat : n \in S => n + 1 \in S
    PROVE  Nat \subseteq S
<1> DEFINE bad == Nat \ S
<1> SUFFICES ASSUME bad # {} PROVE FALSE
  OBVIOUS
<1>1. PICK x \in bad : \A y \in bad : ~(y < x)
  <2>1. bad \subseteq Nat
    OBVIOUS
  <2> HIDE DEF bad
  <2>2. \E x \in bad : \A y \in bad : <<y, x>> \notin OpToRel(<, Nat)
    BY <2>1, NatLessThanWellFounded, WFMin
  <2>. QED BY <2>1, <2>2 DEF OpToRel
<1>2. x \in Nat /\ x # 0 /\ x - 1 \in Nat /\ (x - 1) + 1 = x
  OBVIOUS
<1>. QED BY <1>1, <1>2

LEMMA ReverseProperties ==
    ASSUME NEW S, NEW s \in Seq(S)
    PROVE  /\ Reverse(s) \in Seq(S) /\ Len(Reverse(s)) = Len(s)
           /\ \A i \in 1 .. Len(s) : Reverse(s)[i] = s[Len(s) - i + 1]
BY DEF Reverse

IsScan(f, chrono, n) ==
    f = [i \in 0 .. n |-> IF i = 0 THEN [since |-> 0, list |-> <<>>]
                          ELSE ScanStep(f[i - 1], i, chrono[i].up)]

LEMMA ScanExists ==
    ASSUME NEW chrono, NEW w \in Nat
    PROVE  \E f : IsScan(f, chrono, w)
<1> DEFINE S == {n \in Nat : \E f : IsScan(f, chrono, n)}
           Nil == [since |-> 0, list |-> <<>>]
<1>1. 0 \in S
  <2>1. IsScan([i \in 0 .. 0 |-> Nil], chrono, 0)
    BY DEF IsScan
  <2>. QED BY <2>1
<1>2. ASSUME NEW n \in Nat, n \in S PROVE n + 1 \in S
  <2>1. PICK f : IsScan(f, chrono, n)
    BY <1>2
  <2> DEFINE next == ScanStep(f[n], n + 1, chrono[n + 1].up)
             g == [i \in 0 .. n + 1 |-> IF i = n + 1 THEN next ELSE f[i]]
  <2> HIDE DEF Nil, next
  <2>2. \A i \in 0 .. n : g[i] = f[i]
    OBVIOUS
  <2>3. \A i \in 0 .. n : f[i] = IF i = 0 THEN Nil ELSE ScanStep(f[i - 1], i, chrono[i].up)
    BY <2>1 DEF IsScan, Nil
  <2>4. ASSUME NEW i \in 0 .. n + 1
        PROVE  g[i] = IF i = 0 THEN Nil ELSE ScanStep(g[i - 1], i, chrono[i].up)
    <3>1. CASE i = n + 1
      <4>1. i - 1 = n /\ n \in 0 .. n /\ i # 0
        BY <3>1
      <4>. QED BY <3>1, <4>1, <2>2 DEF next
    <3>2. CASE i # n + 1
      <4>1. i \in 0 .. n /\ (i # 0 => i - 1 \in 0 .. n)
        BY <3>2
      <4>. QED BY <4>1, <2>2, <2>3
    <3>. QED BY <3>1, <3>2
  <2>5. g = [i \in 0 .. n + 1 |-> g[i]]
    OBVIOUS
  <2> HIDE DEF g
  <2>6. IsScan(g, chrono, n + 1)
    BY <2>4, <2>5 DEF IsScan, Nil
  <2>. QED BY <2>6
<1> HIDE DEF S
<1>3. Nat \subseteq S
  BY <1>1, <1>2, SetInduction
<1>. QED BY <1>3 DEF S

\* The scan is what its definition says.
LEMMA ScanSteps ==
    ASSUME NEW chrono, Len(chrono) \in Nat
    PROVE  /\ Scan(chrono)[0] = [since |-> 0, list |-> <<>>]
           /\ \A i \in 1 .. Len(chrono) :
                 Scan(chrono)[i] = ScanStep(Scan(chrono)[i - 1], i, chrono[i].up)
<1> DEFINE f == Scan(chrono)
<1>1. IsScan(f, chrono, Len(chrono))
  BY ScanExists DEF Scan, IsScan
<1> HIDE DEF f
<1>2. \A i \in 0 .. Len(chrono) :
        f[i] = IF i = 0 THEN [since |-> 0, list |-> <<>>]
               ELSE ScanStep(f[i - 1], i, chrono[i].up)
  BY <1>1 DEF IsScan
<1>. QED BY <1>2 DEF f

-----------------------------------------------------------------------------
(* The scan finds the longest runs of failed pings                         *)

Spans(chrono) == (1 .. Len(chrono)) \X (1 .. Len(chrono))

\* The runs that are over before ping i.
Closed(chrono, i) == {r \in Runs(chrono) : r[2] < i}

\* A list of the runs S, each once, by where they begin.
Lists(l, S) ==
    /\ \A j \in 1 .. Len(l) : l[j] \in S
    /\ \A r \in S : \E j \in 1 .. Len(l) : r = l[j]
    /\ \A j, k \in 1 .. Len(l) : j < k => l[j][1] < l[k][1]

\* What the scan knows after i pings.
ScanInv(chrono, i, s) ==
    /\ s \in [since : 0 .. i, list : Seq(Spans(chrono))]
    /\ s.since = 0 => i = 0 \/ chrono[i].up
    /\ s.since # 0 => /\ \A k \in s.since .. i : ~chrono[k].up
                      /\ s.since > 1 => chrono[s.since - 1].up
    /\ Lists(s.list, Closed(chrono, i))

LEMMA RunProperties ==
    ASSUME NEW chrono \in Seq(Pings)
    PROVE  /\ Runs(chrono) \subseteq Spans(chrono)
           /\ \A r \in Runs(chrono) :
                 /\ r[1] \in 1 .. Len(chrono) /\ r[2] \in 1 .. Len(chrono) /\ r[1] <= r[2]
                 /\ r = <<r[1], r[2]>>
                 /\ \A i \in r[1] .. r[2] : ~chrono[i].up
                 /\ r[1] > 1 => chrono[r[1] - 1].up
                 /\ r[2] < Len(chrono) => chrono[r[2] + 1].up
BY DEF Runs, Spans

LEMMA IsRun ==
    ASSUME NEW chrono \in Seq(Pings),
           NEW a \in 1 .. Len(chrono), NEW b \in 1 .. Len(chrono), a <= b,
           \A i \in a .. b : ~chrono[i].up,
           a > 1 => chrono[a - 1].up,
           b < Len(chrono) => chrono[b + 1].up
    PROVE  <<a, b>> \in Runs(chrono)
BY DEF Runs

\* A list of runs goes on with one that begins later.
LEMMA ListsAppend ==
    ASSUME NEW A, NEW l \in Seq(A), NEW S, Lists(l, S), NEW x \in A,
           \A r \in S : r[1] < x[1]
    PROVE  Lists(Append(l, x), S \cup {x})
<1> DEFINE m == Append(l, x)
<1>1. /\ Len(l) \in Nat /\ Len(m) = Len(l) + 1 /\ m[Len(l) + 1] = x
      /\ \A j \in 1 .. Len(l) : m[j] = l[j]
  BY AppendProperties
<1> HIDE DEF m
<1>2. \A j \in 1 .. Len(m) : m[j] \in S \cup {x}
  BY <1>1 DEF Lists
<1>3. ASSUME NEW r \in S \cup {x}
      PROVE  \E j \in 1 .. Len(m) : r = m[j]
  <2>1. CASE r = x
    <3>1. Len(l) + 1 \in 1 .. Len(m)
      BY <1>1
    <3>. QED BY <2>1, <3>1, <1>1
  <2>2. CASE r \in S
    <3>1. PICK j \in 1 .. Len(l) : r = l[j]
      BY <2>2 DEF Lists
    <3>2. j \in 1 .. Len(m) /\ m[j] = l[j]
      BY <1>1
    <3>. QED BY <3>1, <3>2
  <2>. QED BY <2>1, <2>2
<1>4. ASSUME NEW j \in 1 .. Len(m), NEW k \in 1 .. Len(m), j < k
      PROVE  m[j][1] < m[k][1]
  <2>1. j \in 1 .. Len(l) /\ m[j] = l[j] /\ l[j] \in S
    BY <1>1, <1>4 DEF Lists
  <2>2. CASE k = Len(l) + 1
    BY <1>1, <2>1, <2>2
  <2>3. CASE k \in 1 .. Len(l)
    BY <1>1, <1>4, <2>1, <2>3 DEF Lists
  <2>. QED BY <1>1, <2>2, <2>3
<1>. QED BY <1>2, <1>3, <1>4 DEF Lists, m

\* Of an outage that is on since then and ends before ping i, or at the end.
LEMMA LastRun ==
    ASSUME NEW chrono \in Seq(Pings), NEW i \in 2 .. Len(chrono) + 1,
           i <= Len(chrono) => chrono[i].up,
           NEW since \in 1 .. i - 1, \A k \in since .. i - 1 : ~chrono[k].up,
           since > 1 => chrono[since - 1].up
    PROVE  /\ <<since, i - 1>> \in Spans(chrono)
           /\ Closed(chrono, i) = Closed(chrono, i - 1) \cup {<<since, i - 1>>}
           /\ \A r \in Closed(chrono, i - 1) : r[1] < since
<1>1. /\ Len(chrono) \in Nat /\ i - 1 \in 1 .. Len(chrono) /\ since \in 1 .. Len(chrono)
      /\ since <= i - 1 /\ (i - 1) + 1 = i
  BY LenProperties
<1>2. <<since, i - 1>> \in Runs(chrono)
  BY <1>1, IsRun
<1>3. ASSUME NEW r \in Runs(chrono), r[2] = i - 1
      PROVE  r = <<since, i - 1>>
  <2>1. ~(r[1] < since)
    <3> SUFFICES ASSUME r[1] < since PROVE FALSE
      OBVIOUS
    <3>1. since > 1 /\ since - 1 \in r[1] .. r[2]
      BY <1>1, <1>3, RunProperties
    <3>. QED BY <3>1, RunProperties
  <2>2. ~(r[1] > since)
    <3> SUFFICES ASSUME r[1] > since PROVE FALSE
      OBVIOUS
    <3>1. r[1] > 1 /\ r[1] - 1 \in since .. i - 1
      BY <1>1, <1>3, RunProperties
    <3>. QED BY <3>1, RunProperties
  <2>. QED BY <1>1, <1>3, <2>1, <2>2, RunProperties
<1>4. ASSUME NEW r \in Closed(chrono, i - 1)
      PROVE  r[1] < since
  <2> SUFFICES ASSUME ~(r[1] < since) PROVE FALSE
    OBVIOUS
  <2>1. r \in Runs(chrono) /\ r[2] < i - 1
    BY DEF Closed
  <2>2. r[2] + 1 \in since .. i - 1 /\ r[2] < Len(chrono)
    BY <1>1, <2>1, RunProperties
  <2>. QED BY <2>1, <2>2, RunProperties
<1>5. \A r \in Runs(chrono) : r[2] < i <=> r[2] < i - 1 \/ r[2] = i - 1
  BY <1>1, RunProperties
<1>6. Closed(chrono, i) = Closed(chrono, i - 1) \cup {<<since, i - 1>>}
  BY <1>2, <1>3, <1>5 DEF Closed
<1>. QED BY <1>1, <1>4, <1>6 DEF Spans

LEMMA ScanStepInv ==
    ASSUME NEW chrono \in Seq(Pings), NEW i \in 1 .. Len(chrono), NEW s,
           ScanInv(chrono, i - 1, s)
    PROVE  ScanInv(chrono, i, ScanStep(s, i, chrono[i].up))
<1> DEFINE z == ScanStep(s, i, chrono[i].up)
<1>1. /\ Len(chrono) \in Nat /\ i - 1 \in Nat /\ i \in Nat
      /\ s \in [since : 0 .. i - 1, list : Seq(Spans(chrono))]
      /\ s.since \in 0 .. i - 1 /\ s.list \in Seq(Spans(chrono))
  BY LenProperties DEF ScanInv
<1>2. \A r \in Runs(chrono) : r[2] < i <=> r[2] < i - 1 \/ r[2] = i - 1
  BY <1>1, RunProperties
<1>3. CASE ~chrono[i].up
  <2>1. \A r \in Runs(chrono) : r[2] # i - 1
    BY <1>1, <1>3, RunProperties
  <2>2. Closed(chrono, i) = Closed(chrono, i - 1)
    BY <1>2, <2>1 DEF Closed
  <2>3. CASE s.since = 0
    <3>1. z = [since |-> i, list |-> s.list]
      BY <1>1, <1>3, <2>3 DEF ScanStep
    <3>2. i > 1 => chrono[i - 1].up
      BY <1>1, <2>3 DEF ScanInv
    <3> HIDE DEF z
    <3>. QED BY <1>1, <1>3, <2>2, <3>1, <3>2 DEF ScanInv, z
  <2>4. CASE s.since # 0
    <3>1. z = s
      BY <1>1, <1>3, <2>4 DEF ScanStep
    <3>2. s \in [since : 0 .. i, list : Seq(Spans(chrono))]
      BY <1>1
    <3>3. \A k \in s.since .. i : k \in s.since .. i - 1 \/ k = i
      BY <1>1
    <3>. QED BY <1>1, <1>3, <2>2, <2>4, <3>1, <3>2, <3>3 DEF ScanInv
  <2>. QED BY <2>3, <2>4
<1>4. CASE chrono[i].up /\ s.since = 0
  <2>1. z = s
    BY <1>4 DEF ScanStep
  <2>2. ASSUME NEW r \in Runs(chrono) PROVE r[2] # i - 1
    <3> SUFFICES ASSUME r[2] = i - 1 PROVE FALSE
      OBVIOUS
    <3>1. i - 1 \in r[1] .. r[2] /\ i - 1 # 0
      BY RunProperties
    <3>. QED BY <1>4, <3>1, RunProperties DEF ScanInv
  <2>3. Closed(chrono, i) = Closed(chrono, i - 1)
    BY <1>2, <2>2 DEF Closed
  <2>4. s \in [since : 0 .. i, list : Seq(Spans(chrono))]
    BY <1>1
  <2>. QED BY <1>4, <2>1, <2>3, <2>4 DEF ScanInv
<1>5. CASE chrono[i].up /\ s.since # 0
  <2> DEFINE x == <<s.since, i - 1>>
  <2>1. z = [since |-> 0, list |-> Append(s.list, x)]
    BY <1>5 DEF ScanStep
  <2>2. /\ i \in 2 .. Len(chrono) + 1 /\ s.since \in 1 .. i - 1
        /\ \A k \in s.since .. i - 1 : ~chrono[k].up
        /\ s.since > 1 => chrono[s.since - 1].up
    BY <1>1, <1>5 DEF ScanInv
  <2>3. /\ x \in Spans(chrono)
        /\ Closed(chrono, i) = Closed(chrono, i - 1) \cup {x}
        /\ \A r \in Closed(chrono, i - 1) : r[1] < s.since
    BY <1>5, <2>2, LastRun
  <2>4. x[1] = s.since
    OBVIOUS
  <2> HIDE DEF x, z
  <2>5. Lists(Append(s.list, x), Closed(chrono, i))
    BY <1>1, <2>3, <2>4, ListsAppend DEF ScanInv
  <2>6. Append(s.list, x) \in Seq(Spans(chrono))
    BY <1>1, <2>3, AppendProperties
  <2>7. z \in [since : 0 .. i, list : Seq(Spans(chrono))] /\ z.since = 0
        /\ z.list = Append(s.list, x)
    BY <1>1, <2>1, <2>6
  <2>. QED BY <1>5, <2>5, <2>7 DEF ScanInv, z
<1>. QED BY <1>3, <1>4, <1>5

LEMMA ScanHolds ==
    ASSUME NEW chrono \in Seq(Pings)
    PROVE  ScanInv(chrono, Len(chrono), Scan(chrono)[Len(chrono)])
<1> DEFINE f == Scan(chrono)
           S == {i \in Nat : i <= Len(chrono) => ScanInv(chrono, i, f[i])}
<1>1. /\ Len(chrono) \in Nat /\ f[0] = [since |-> 0, list |-> <<>>]
      /\ \A i \in 1 .. Len(chrono) : f[i] = ScanStep(f[i - 1], i, chrono[i].up)
  BY LenProperties, ScanSteps
<1> HIDE DEF f
<1>2. 0 \in S
  <2>1. Closed(chrono, 0) = {}
    BY RunProperties DEF Closed
  <2>2. <<>> \in Seq(Spans(chrono)) /\ Len(<<>>) = 0
    BY EmptySeq
  <2>3. Lists(<<>>, {})
    BY <2>2 DEF Lists
  <2>4. /\ f[0] \in [since : 0 .. 0, list : Seq(Spans(chrono))]
        /\ f[0].since = 0 /\ f[0].list = <<>>
    BY <1>1, <2>2
  <2>5. ScanInv(chrono, 0, f[0])
    BY <2>1, <2>3, <2>4 DEF ScanInv
  <2>. QED BY <2>5
<1>3. ASSUME NEW i \in Nat, i \in S PROVE i + 1 \in S
  <2> SUFFICES ASSUME i + 1 <= Len(chrono) PROVE ScanInv(chrono, i + 1, f[i + 1])
    OBVIOUS
  <2>1. i + 1 \in 1 .. Len(chrono) /\ (i + 1) - 1 = i /\ i <= Len(chrono)
    BY <1>1
  <2>2. f[i + 1] = ScanStep(f[i], i + 1, chrono[i + 1].up)
    BY <1>1, <2>1
  <2>3. ScanInv(chrono, (i + 1) - 1, f[i])
    BY <1>3, <2>1
  <2>. QED BY <2>1, <2>2, <2>3, ScanStepInv
<1>4. Nat \subseteq S
  <2> HIDE DEF S
  <2>. QED BY <1>2, <1>3, SetInduction
<1>. QED BY <1>1, <1>4 DEF f

\* The outages of the pings shown are their runs, newest first.
LEMMA OutagesHold ==
    ASSUME NEW shown \in Seq(Pings)
    PROVE  LET all == Runs(Reverse(shown))
               told == Outages(shown)
           IN  /\ told \in Seq(Nat \X Nat)
               /\ \A j \in 1 .. Len(told) : told[j] \in all
               /\ \A r \in all : \E j \in 1 .. Len(told) : r = told[j]
               /\ \A j, k \in 1 .. Len(told) : j < k => told[j][1] > told[k][1]
               /\ \A r \in all : r[1] \in Nat
<1> DEFINE chrono == Reverse(shown)
           N == Len(shown)
           end == Scan(chrono)[N]
           l == IF end.since = 0 THEN end.list ELSE Append(end.list, <<end.since, N>>)
<1>1. chrono \in Seq(Pings) /\ Len(chrono) = N /\ N \in Nat
  BY ReverseProperties, LenProperties
<1>2. ScanInv(chrono, N, end)
  BY <1>1, ScanHolds
<1>3. Outages(shown) = Reverse(l)
  BY DEF Outages
<1> HIDE DEF chrono, N, end
<1>4. end.since \in 0 .. N /\ end.list \in Seq(Spans(chrono))
  BY <1>2 DEF ScanInv
<1>5. l \in Seq(Spans(chrono)) /\ Lists(l, Runs(chrono))
  <2>1. CASE end.since = 0
    <3>1. \A r \in Runs(chrono) : r[2] < N
      <4> SUFFICES ASSUME NEW r \in Runs(chrono), ~(r[2] < N) PROVE FALSE
        OBVIOUS
      <4>1. r[2] = N /\ N # 0 /\ N \in r[1] .. r[2]
        BY <1>1, RunProperties
      <4>2. ~chrono[N].up
        BY <1>1, <4>1, RunProperties
      <4>3. chrono[N].up
        BY <1>2, <2>1, <4>1 DEF ScanInv
      <4>. QED BY <4>2, <4>3
    <3>2. Closed(chrono, N) = Runs(chrono)
      BY <3>1 DEF Closed
    <3>. QED BY <1>2, <1>4, <2>1, <3>2 DEF ScanInv
  <2>2. CASE end.since # 0
    <3> DEFINE x == <<end.since, N>>
    <3> DEFINE i == N + 1
    <3>1. /\ i \in 2 .. Len(chrono) + 1 /\ i - 1 = N /\ ~(i <= Len(chrono))
          /\ end.since \in 1 .. i - 1
      BY <1>1, <1>4, <2>2
    <3> HIDE DEF i
    <3>2. /\ \A k \in end.since .. i - 1 : ~chrono[k].up
          /\ end.since > 1 => chrono[end.since - 1].up
      BY <1>2, <2>2, <3>1 DEF ScanInv
    <3>3. /\ x \in Spans(chrono)
          /\ Closed(chrono, i) = Closed(chrono, N) \cup {x}
          /\ \A r \in Closed(chrono, N) : r[1] < end.since
    <4>1. /\ <<end.since, i - 1>> \in Spans(chrono)
          /\ Closed(chrono, i) = Closed(chrono, i - 1) \cup {<<end.since, i - 1>>}
          /\ \A r \in Closed(chrono, i - 1) : r[1] < end.since
      BY <1>1, <3>1, <3>2, LastRun
    <4>. QED BY <3>1, <4>1
    <3>4. Closed(chrono, i) = Runs(chrono)
      BY <1>1, RunProperties DEF Closed, i
    <3>5. x[1] = end.since /\ l = Append(end.list, x)
      BY <2>2
    <3> HIDE DEF x, l
    <3>6. Lists(l, Runs(chrono))
      BY <1>2, <1>4, <3>3, <3>4, <3>5, ListsAppend DEF ScanInv
    <3>7. l \in Seq(Spans(chrono))
      BY <1>4, <3>3, <3>5, AppendProperties
    <3>. QED BY <3>6, <3>7
  <2>. QED BY <2>1, <2>2
<1> HIDE DEF l
<1> DEFINE told == Reverse(l)
<1>6. /\ told \in Seq(Spans(chrono)) /\ Len(told) = Len(l) /\ Len(l) \in Nat
      /\ \A j \in 1 .. Len(l) : told[j] = l[Len(l) - j + 1]
  BY <1>5, ReverseProperties, LenProperties
<1> HIDE DEF told
<1>7. told \in Seq(Nat \X Nat)
  <2>1. Spans(chrono) \subseteq Nat \X Nat
    BY <1>1 DEF Spans
  <2>. QED BY <1>6, <2>1, SeqMonotonic
<1>8. \A j \in 1 .. Len(l) : Len(l) - j + 1 \in 1 .. Len(l)
                             /\ Len(l) - (Len(l) - j + 1) + 1 = j
  BY <1>6
<1>9. \A j \in 1 .. Len(told) : told[j] \in Runs(chrono)
  BY <1>5, <1>6, <1>8 DEF Lists
<1>10. ASSUME NEW r \in Runs(chrono)
       PROVE  \E j \in 1 .. Len(told) : r = told[j]
  <2>1. PICK k \in 1 .. Len(l) : r = l[k]
    BY <1>5 DEF Lists
  <2>2. told[Len(l) - k + 1] = l[k]
    BY <1>6, <1>8
  <2>. QED BY <1>6, <1>8, <2>1, <2>2
<1>11. ASSUME NEW j \in 1 .. Len(told), NEW k \in 1 .. Len(told), j < k
       PROVE  told[j][1] > told[k][1]
  <2>1. /\ Len(l) - j + 1 \in 1 .. Len(l) /\ Len(l) - k + 1 \in 1 .. Len(l)
        /\ Len(l) - k + 1 < Len(l) - j + 1
    BY <1>6, <1>11
  <2>2. l[Len(l) - k + 1][1] < l[Len(l) - j + 1][1]
    BY <1>5, <2>1 DEF Lists
  <2>3. told[j] = l[Len(l) - j + 1] /\ told[k] = l[Len(l) - k + 1]
    BY <1>6
  <2>4. l[Len(l) - k + 1] \in Runs(chrono) /\ l[Len(l) - j + 1] \in Runs(chrono)
    BY <1>5, <2>1 DEF Lists
  <2>. QED BY <1>1, <2>2, <2>3, <2>4, RunProperties
<1>12. \A r \in Runs(chrono) : r[1] \in Nat
  BY <1>1, RunProperties
<1>. QED BY <1>3, <1>7, <1>9, <1>10, <1>11, <1>12 DEF told, chrono

LEMMA Counted ==
    ASSUME NEW d, NEW n \in Nat, NEW T,
           \A j \in 1 .. n : d[j] \in T,
           \A r \in T : \E j \in 1 .. n : r = d[j],
           \A j, k \in 1 .. n : j < k => d[j] # d[k]
    PROVE  Cardinality(T) = n
<1> DEFINE f == [j \in 1 .. n |-> d[j]]
<1>1. f \in [1 .. n -> T] /\ \A j \in 1 .. n : f[j] = d[j]
  OBVIOUS
<1> HIDE DEF f
<1>2. f \in Surjection(1 .. n, T)
  BY <1>1 DEF Surjection
<1>3. \A j, k \in 1 .. n : f[j] = f[k] => j = k
  <2> SUFFICES ASSUME NEW j \in 1 .. n, NEW k \in 1 .. n, j # k PROVE f[j] # f[k]
    OBVIOUS
  <2>1. j < k \/ k < j
    OBVIOUS
  <2>. QED BY <1>1, <2>1
<1>4. f \in Injection(1 .. n, T)
  BY <1>1, <1>3 DEF Injection, IsInjective
<1>5. ExistsBijection(1 .. n, T)
  BY <1>2, <1>4 DEF ExistsBijection, Bijection
<1>. QED BY <1>5, FS_CountingElements

\* What OutagesAreRuns says of one row.
TellsRuns(row) ==
    LET all == Runs(Reverse(row.shown))
        told == row.outages
    IN  row.kind = "chart" =>
        /\ \A i \in DOMAIN told : told[i] \in all
                /\ Cardinality({r \in all : r[1] > told[i][1]}) = i - 1
        /\ Len(told) = (IF Cardinality(all) < 3 THEN Cardinality(all) ELSE 3)

LEMMA NewestHold ==
    ASSUME NEW shown \in Seq(Pings), NEW row, row.shown = shown,
           row.outages = SubSeq(Outages(shown), 1,
                                IF Len(Outages(shown)) < 3 THEN Len(Outages(shown)) ELSE 3)
    PROVE  row.outages \in Seq(Nat \X Nat) /\ TellsRuns(row)
<1> DEFINE all == Runs(Reverse(shown))
           d == Outages(shown)
           n == IF Len(d) < 3 THEN Len(d) ELSE 3
           told == SubSeq(d, 1, n)
<1>1. /\ d \in Seq(Nat \X Nat)
      /\ \A j \in 1 .. Len(d) : d[j] \in all
      /\ \A r \in all : \E j \in 1 .. Len(d) : r = d[j]
      /\ \A j, k \in 1 .. Len(d) : j < k => d[j][1] > d[k][1]
      /\ \A r \in all : r[1] \in Nat
  BY OutagesHold
<1> HIDE DEF all, d
<1>2. Len(d) \in Nat
  BY <1>1, LenProperties
<1>3. \A j, k \in 1 .. Len(d) : j < k => d[j] # d[k]
  <2>1. ASSUME NEW j \in 1 .. Len(d) PROVE d[j][1] \in Nat
    <3>1. d[j] \in all /\ \A r \in all : r[1] \in Nat
      BY <1>1
    <3>. QED BY <3>1
  <2>. QED BY <1>1, <2>1
<1>4. Cardinality(all) = Len(d)
  BY <1>1, <1>2, <1>3, Counted
<1>5. n \in 0 .. Len(d) /\ n = (IF Cardinality(all) < 3 THEN Cardinality(all) ELSE 3)
  BY <1>2, <1>4
<1> HIDE DEF n
<1>6. /\ told \in Seq(Nat \X Nat) /\ Len(told) = n /\ DOMAIN told = 1 .. n
      /\ \A i \in 1 .. n : told[i] = d[i]
  <2>1. \A i \in 1 .. n : d[i] \in Nat \X Nat
    BY <1>1, <1>2, <1>5, ElementOfSeq
  <2>2. /\ told \in Seq(Nat \X Nat)
        /\ Len(told) = IF 1 <= n THEN n - 1 + 1 ELSE 0
        /\ \A i \in 1 .. n - 1 + 1 : told[i] = d[1 + i - 1]
    BY <1>2, <1>5, <2>1, SubSeqProperties
  <2>. QED BY <1>2, <1>5, <2>2, LenProperties
<1> HIDE DEF told
<1>7. ASSUME NEW i \in 1 .. n
      PROVE  told[i] \in all /\ Cardinality({r \in all : r[1] > told[i][1]}) = i - 1
  <2> DEFINE T == {r \in all : r[1] > told[i][1]}
  <2>1. i \in 1 .. Len(d) /\ told[i] = d[i] /\ i - 1 \in Nat /\ d[i] \in all
        /\ d[i][1] \in Nat
    <3>1. i \in 1 .. Len(d) /\ i - 1 \in Nat
      BY <1>2, <1>5
    <3>2. d[i] \in all
      BY <1>1, <3>1
    <3>. QED BY <1>1, <1>6, <3>1, <3>2
  <2>2. ASSUME NEW j \in 1 .. i - 1 PROVE d[j] \in T
    <3>1. j \in 1 .. Len(d) /\ j < i
      BY <1>2, <2>1
    <3>. QED BY <1>1, <2>1, <3>1
  <2>3. ASSUME NEW r \in T PROVE \E j \in 1 .. i - 1 : r = d[j]
    <3>1. PICK j \in 1 .. Len(d) : r = d[j]
      BY <1>1
    <3>2. d[j][1] > d[i][1] /\ d[j][1] \in Nat
      <4>1. d[j] \in all /\ r[1] > told[i][1]
        BY <1>1, <3>1
      <4>. QED BY <1>1, <2>1, <3>1, <4>1
    <3>3. i # j
      BY <2>1, <3>2
    <3>4. ~(i < j)
      <4> SUFFICES ASSUME i < j PROVE FALSE
        OBVIOUS
      <4>1. d[i][1] > d[j][1]
        BY <1>1, <2>1, <3>1
      <4>. QED BY <2>1, <3>2, <4>1
    <3>. QED BY <1>2, <2>1, <3>1, <3>3, <3>4
  <2>4. \A j, k \in 1 .. i - 1 : j < k => d[j] # d[k]
    BY <1>2, <1>3, <2>1
  <2> HIDE DEF T
  <2>5. Cardinality(T) = i - 1
    BY <2>1, <2>2, <2>3, <2>4, Counted
  <2>. QED BY <2>1, <2>5 DEF T
<1>. QED BY <1>5, <1>6, <1>7 DEF TellsRuns, all, d, n, told

-----------------------------------------------------------------------------
(* A chart tells the runs of the pings it shows                            *)

IsFiltered(f, young, type, n) ==
    f = [i \in 0 .. n |->
           IF i = 0 THEN <<>>
           ELSE IF Passes(young[i], type) THEN Append(f[i - 1], young[i]) ELSE f[i - 1]]

LEMMA FilteredExists ==
    ASSUME NEW young, NEW type, NEW w \in Nat
    PROVE  \E f : IsFiltered(f, young, type, w)
<1> DEFINE S == {n \in Nat : \E f : IsFiltered(f, young, type, n)}
           Kept(k, i) == IF Passes(young[i], type) THEN Append(k, young[i]) ELSE k
<1>1. 0 \in S
  <2>1. IsFiltered([i \in 0 .. 0 |-> <<>>], young, type, 0)
    BY DEF IsFiltered
  <2>. QED BY <2>1
<1>2. ASSUME NEW n \in Nat, n \in S PROVE n + 1 \in S
  <2>1. PICK f : IsFiltered(f, young, type, n)
    BY <1>2
  <2> DEFINE next == Kept(f[n], n + 1)
             g == [i \in 0 .. n + 1 |-> IF i = n + 1 THEN next ELSE f[i]]
  <2> HIDE DEF Kept, next
  <2>2. \A i \in 0 .. n : g[i] = f[i]
    OBVIOUS
  <2>3. \A i \in 0 .. n : f[i] = IF i = 0 THEN <<>> ELSE Kept(f[i - 1], i)
    BY <2>1 DEF IsFiltered, Kept
  <2>4. ASSUME NEW i \in 0 .. n + 1
        PROVE  g[i] = IF i = 0 THEN <<>> ELSE Kept(g[i - 1], i)
    <3>1. CASE i = n + 1
      <4>1. i - 1 = n /\ n \in 0 .. n /\ i # 0
        BY <3>1
      <4>. QED BY <3>1, <4>1, <2>2 DEF next
    <3>2. CASE i # n + 1
      <4>1. i \in 0 .. n /\ (i # 0 => i - 1 \in 0 .. n)
        BY <3>2
      <4>. QED BY <4>1, <2>2, <2>3
    <3>. QED BY <3>1, <3>2
  <2>5. g = [i \in 0 .. n + 1 |-> g[i]]
    OBVIOUS
  <2> HIDE DEF g
  <2>6. IsFiltered(g, young, type, n + 1)
    BY <2>4, <2>5 DEF IsFiltered, Kept
  <2>. QED BY <2>6
<1> HIDE DEF S
<1>3. Nat \subseteq S
  BY <1>1, <1>2, SetInduction
<1>. QED BY <1>3 DEF S

LEMMA FilteredType ==
    ASSUME NEW young \in Seq(Checks), NEW type
    PROVE  Filtered(young, type) \in Seq(Checks)
<1> DEFINE N == Len(young)
           F == CHOOSE f : IsFiltered(f, young, type, N)
           S == {i \in Nat : i <= N => F[i] \in Seq(Checks)}
<1>1. N \in Nat
  BY LenProperties
<1>2. IsFiltered(F, young, type, N)
  BY <1>1, FilteredExists
<1>3. Filtered(young, type) = F[N]
  BY DEF Filtered, IsFiltered
<1> HIDE DEF F, N
<1>4. \A i \in 0 .. N :
        F[i] = IF i = 0 THEN <<>>
               ELSE IF Passes(young[i], type) THEN Append(F[i - 1], young[i]) ELSE F[i - 1]
  BY <1>2 DEF IsFiltered
<1>5. 0 \in S
  <2>1. F[0] = <<>> /\ <<>> \in Seq(Checks)
    BY <1>1, <1>4
  <2>. QED BY <2>1
<1>6. ASSUME NEW i \in Nat, i \in S PROVE i + 1 \in S
  <2> SUFFICES ASSUME i + 1 <= N PROVE F[i + 1] \in Seq(Checks)
    OBVIOUS
  <2>1. i + 1 \in 0 .. N /\ i + 1 # 0 /\ (i + 1) - 1 = i /\ i <= N /\ i + 1 \in 1 .. N
    BY <1>1
  <2>2. F[i] \in Seq(Checks) /\ young[i + 1] \in Checks
    BY <1>6, <2>1, ElementOfSeq DEF N
  <2>3. Append(F[i], young[i + 1]) \in Seq(Checks)
    BY <2>2, AppendProperties
  <2>. QED BY <1>4, <2>1, <2>2, <2>3
<1>7. Nat \subseteq S
  <2> HIDE DEF S
  <2>. QED BY <1>5, <1>6, SetInduction
<1>. QED BY <1>1, <1>3, <1>7

\* A chart, whichever button is active on it, is an unfolded row of the page
\* and tells the runs of what it shows.
LEMMA ChartHolds ==
    ASSUME NEW history \in Seq(Checks), NEW n \in 0 .. Len(history),
           NEW type, NEW range \in Ranges, NEW active \in Ranges,
           NEW row, row = Chart(history, n, type, range),
           NEW other, other = [row EXCEPT !.range = active]
    PROVE  /\ row \in PanelRec /\ TellsRuns(row) /\ row.kind = "chart"
           /\ other \in PanelRec /\ TellsRuns(other) /\ other.kind = "chart"
<1> DEFINE young == IF range = "all" THEN history ELSE SubSeq(history, 1, n)
           shown == Filtered(young, type)
           d == Outages(shown)
           outages == SubSeq(d, 1, IF Len(d) < 3 THEN Len(d) ELSE 3)
<1>1. young \in Seq(Checks)
  <2>1. \A i \in 1 .. n : history[i] \in Checks
    BY ElementOfSeq, LenProperties
  <2>. QED BY <2>1, LenProperties, SubSeqProperties
<1>2. shown \in Seq(Checks)
  BY <1>1, FilteredType
<1>3. shown \in Seq(Pings)
  BY <1>2, SeqMonotonic, UptimeAssumption
<1>4. row = [kind |-> "chart", logs |-> history, range |-> range, shown |-> shown,
             outages |-> outages]
  BY DEF Chart
<1> HIDE DEF shown
<1>5. other = [kind |-> "chart", logs |-> history, range |-> active, shown |-> shown,
               outages |-> outages]
  <2> HIDE DEF outages, d
  <2>1. other = [[kind |-> "chart", logs |-> history, range |-> range, shown |-> shown,
                  outages |-> outages] EXCEPT !.range = active]
    BY <1>4
  <2>. QED BY <2>1
<1> HIDE DEF outages, d
<1>6. outages \in Seq(Nat \X Nat) /\ TellsRuns(row) /\ TellsRuns(other)
  <2>1. row.shown = shown /\ other.shown = shown /\ row.outages = outages
        /\ other.outages = outages
    BY <1>4, <1>5
  <2>. QED BY <1>3, <2>1, NewestHold DEF outages, d
<1>7. row \in PanelRec /\ other \in PanelRec
  BY <1>2, <1>4, <1>5, <1>6 DEF PanelRec
<1>. QED BY <1>4, <1>5, <1>6, <1>7

LEMMA ChartRow ==
    ASSUME NEW history \in Seq(Checks), NEW n \in 0 .. Len(history),
           NEW type, NEW range \in Ranges, NEW row, row = Chart(history, n, type, range)
    PROVE  row \in PanelRec /\ TellsRuns(row) /\ row.kind = "chart"
<1>1. PICK other : other = [row EXCEPT !.range = range]
  OBVIOUS
<1>. QED BY <1>1, ChartHolds

-----------------------------------------------------------------------------
(* The inductive invariant, by what its parts are about                    *)

TableInv ==
    /\ server \subseteq ever /\ ever \subseteq Ids /\ logs \in [Ids -> Seq(Checks)]
    /\ checking \in [Ids -> Nat] /\ pings \in 0 .. MaxPings
    /\ \A m \in Ids \ ever : checking[m] = 0

PageInv ==
    /\ list \subseteq ever /\ open \in BOOLEAN /\ expanded \subseteq Ids
    /\ filter \in [Ids -> Types] /\ form \in BOOLEAN
    /\ clicks \in 0 .. MaxClicks /\ faults \in 0 .. MaxFaults

RowsInv ==
    /\ panel \in [Ids -> PanelRec]
    /\ DetailFollowsToggle
    /\ \A m \in Ids : TellsRuns(panel[m])

\* Who has left the page has left nothing checked.
BoxesInv ==
    /\ checked \subseteq list /\ header \in BOOLEAN
    /\ bar \in [up : BOOLEAN, count : 0 .. Cardinality(Ids)]
    /\ SelectionShown
    /\ ~open => checked = {}

\* A request is about monitors that were there, and only a deletion, or the
\* refresh that follows it, is one of many.
Sound(k) ==
    /\ k \in TaskRec /\ k.ids \subseteq ever
    /\ k.bulk => k.phase \in {"delete", "refresh", "refreshed"}
TasksInv ==
    /\ task \in [Tasks -> TaskRec]
    /\ \A t \in Tasks : Sound(task[t])

IInv == TableInv /\ PageInv /\ RowsInv /\ BoxesInv /\ TasksInv

LEMMA IInvShows ==
    IInv => TypeOK /\ DetailFollowsToggle /\ SelectionShown /\ OutagesAreRuns
BY DEF IInv, TableInv, PageInv, RowsInv, BoxesInv, TasksInv, TypeOK,
       OutagesAreRuns, TellsRuns

LEMMA CountIds ==
    ASSUME NEW S \in SUBSET Ids
    PROVE  Cardinality(S) \in 0 .. Cardinality(Ids)
BY FS_Subset, FS_CardinalityType, UptimeAssumption

LEMMA Blanks ==
    /\ NoTask \in TaskRec /\ NoTask.ids = {} /\ ~NoTask.bulk /\ NoTask.phase = "idle"
    /\ {NoPanel, Spinner, Pending} \subseteq PanelRec
    /\ NoPanel.kind = "none" /\ Spinner.kind = "spinner" /\ Pending.kind = "pending"
    /\ TellsRuns(NoPanel) /\ TellsRuns(Spinner) /\ TellsRuns(Pending)
    /\ NoBar \in [up : BOOLEAN, count : 0 .. Cardinality(Ids)] /\ ~NoBar.up
<1>1. <<>> \in Seq(Checks) /\ <<>> \in Seq(Nat \X Nat)
  BY EmptySeq
<1>2. /\ NoPanel \in PanelRec /\ NoPanel.kind = "none"
      /\ Spinner = [NoPanel EXCEPT !.kind = "spinner"]
      /\ Pending = [NoPanel EXCEPT !.kind = "pending"]
  BY <1>1 DEF NoPanel, Spinner, Pending, PanelRec, Ranges
<1>3. Spinner \in PanelRec /\ Pending \in PanelRec
      /\ Spinner.kind = "spinner" /\ Pending.kind = "pending"
  BY <1>2 DEF PanelRec
<1>4. TellsRuns(NoPanel) /\ TellsRuns(Spinner) /\ TellsRuns(Pending)
  BY <1>2, <1>3 DEF TellsRuns
<1>5. 0 \in 0 .. Cardinality(Ids)
  BY FS_CardinalityType, UptimeAssumption
<1>. QED BY <1>1, <1>2, <1>3, <1>4, <1>5 DEF NoTask, NoBar, TaskRec

LEMMA InitIInv == Init => IInv
<1> SUFFICES ASSUME Init PROVE IInv
  OBVIOUS
<1>1. TableInv
  <2>1. server \subseteq Ids /\ 0 \in 0 .. MaxPings
    BY UptimeAssumption DEF Init
  <2>2. PICK f \in [server -> Histories] :
          logs = [m \in Ids |-> IF m \in server THEN f[m] ELSE <<>>]
    BY DEF Init
  <2>3. \A m \in server : f[m] \in Seq(Checks)
    BY UptimeAssumption
  <2>4. <<>> \in Seq(Checks)
    BY EmptySeq
  <2>. QED BY <2>1, <2>2, <2>3, <2>4 DEF Init, TableInv
<1>2. PageInv
  <2>1. 0 \in 0 .. MaxClicks /\ 0 \in 0 .. MaxFaults
    BY UptimeAssumption
  <2>2. filter \in [Ids -> Types]
    BY DEF Init, Types
  <2>. QED BY <2>1, <2>2 DEF Init, PageInv
<1>3. RowsInv
  BY Blanks DEF Init, RowsInv, DetailFollowsToggle
<1>4. BoxesInv
  BY Blanks DEF Init, BoxesInv, SelectionShown
<1>5. TasksInv
  BY Blanks DEF Init, TasksInv, Sound
<1>. QED BY <1>1, <1>2, <1>3, <1>4, <1>5 DEF IInv

-----------------------------------------------------------------------------
(* What the steps do to each part                                          *)

LEMMA RowsStay ==
    ASSUME RowsInv, UNCHANGED <<open, list, expanded, panel>>
    PROVE  RowsInv'
BY DEF RowsInv, DetailFollowsToggle

\* A row that is unfolded is filled with something else.
LEMMA RowFilled ==
    ASSUME RowsInv, UNCHANGED <<open, list, expanded>>, NEW m \in Ids, NEW row \in PanelRec,
           TellsRuns(row), panel[m].kind # "none", row.kind # "none",
           panel' = [panel EXCEPT ![m] = row]
    PROVE  RowsInv'
<1>1. panel' \in [Ids -> PanelRec]
      /\ \A n \in Ids : panel'[n] = IF n = m THEN row ELSE panel[n]
  BY DEF RowsInv
<1>2. DetailFollowsToggle'
  BY <1>1 DEF RowsInv, DetailFollowsToggle
<1>3. (\A n \in Ids : TellsRuns(panel[n]))'
  BY <1>1 DEF RowsInv
<1>. QED BY <1>1, <1>2, <1>3 DEF RowsInv

LEMMA BoxesStay ==
    ASSUME BoxesInv, UNCHANGED <<open, list, selection>>, BulkUnderWay => BulkUnderWay'
    PROVE  BoxesInv'
BY DEF BoxesInv, SelectionShown, selection

LEMMA BoxesCleared ==
    ASSUME checked' = {}, header' = FALSE, bar' = NoBar
    PROVE  BoxesInv'
BY Blanks DEF BoxesInv, SelectionShown

LEMMA TaskSet ==
    ASSUME TasksInv, NEW t \in Tasks, NEW k, task' = [task EXCEPT ![t] = k],
           Sound(k), ever \subseteq ever'
    PROVE  /\ TasksInv'
           /\ (task[t].bulk => k.bulk) => (BulkUnderWay => BulkUnderWay')
<1>1. \A u \in Tasks : task'[u] = IF u = t THEN k ELSE task[u]
  BY DEF TasksInv
<1>2. TasksInv'
  BY <1>1 DEF TasksInv, Sound
<1>3. (task[t].bulk => k.bulk) => (BulkUnderWay => BulkUnderWay')
  BY <1>1 DEF BulkUnderWay
<1>. QED BY <1>2, <1>3

LEMMA TasksStay ==
    ASSUME TasksInv, UNCHANGED task, ever \subseteq ever'
    PROVE  TasksInv' /\ (BulkUnderWay => BulkUnderWay')
BY DEF TasksInv, Sound, BulkUnderWay

\* A new request takes the place of none.
LEMMA TaskBegun ==
    ASSUME TasksInv, UNCHANGED ever, NEW t \in Tasks, NEW k, Begin(t, k), Sound(k)
    PROVE  TasksInv' /\ (BulkUnderWay => BulkUnderWay')
<1>1. task[t] = NoTask /\ task' = [task EXCEPT ![t] = k]
  BY DEF Begin
<1>2. ~task[t].bulk
  BY <1>1, Blanks
<1>. QED BY <1>1, <1>2, TaskSet

\* Drawing the page.
LEMMA Rendered ==
    ASSUME NEW ms, NEW rows \in [Tasks -> TaskRec], ms \subseteq ever, UNCHANGED ever,
           UNCHANGED expanded, ever \subseteq Ids,
           \A t \in Tasks : Sound(rows[t]), RenderUptime(ms, rows),
           list' = ms, open' = TRUE
    PROVE  RowsInv' /\ BoxesInv' /\ TasksInv'
<1> DEFINE again == expanded \cap ms
<1>1. BoxesInv'
  BY BoxesCleared DEF RenderUptime
<1>2. RowsInv'
  <2>1. panel' = [m \in Ids |-> IF m \in again THEN Spinner ELSE NoPanel]
    BY DEF RenderUptime
  <2>2. panel' \in [Ids -> PanelRec]
    BY <2>1, Blanks
  <2>3. DetailFollowsToggle'
    BY <2>1, Blanks DEF DetailFollowsToggle
  <2>4. (\A m \in Ids : TellsRuns(panel[m]))'
    BY <2>1, Blanks
  <2>. QED BY <2>2, <2>3, <2>4 DEF RowsInv
<1>3. TasksInv'
  <2> DEFINE free == {t \in Tasks : rows[t] = NoTask}
             row == CHOOSE f \in [again -> free] : IsInjective(f)
             asks(t) == {m \in again : row[m] = t}
             new(t) == [NoTask EXCEPT !.phase = "logs", !.ids = asks(t)]
  <2>1. task' = [t \in Tasks |-> IF \E m \in again : row[m] = t THEN new(t) ELSE rows[t]]
    BY DEF RenderUptime
  <2> HIDE DEF row
  <2>2. ASSUME NEW t \in Tasks PROVE Sound(new(t))
    <3>1. asks(t) \subseteq ever /\ asks(t) \subseteq Ids
      OBVIOUS
    <3> HIDE DEF asks
    <3>2. new(t) \in TaskRec /\ new(t).ids = asks(t) /\ ~new(t).bulk
      BY <3>1, Blanks DEF TaskRec
    <3>. QED BY <3>1, <3>2 DEF Sound
  <2> HIDE DEF new, again
  <2>3. \A t \in Tasks : task'[t] = new(t) \/ task'[t] = rows[t]
    BY <2>1
  <2>4. \A t \in Tasks : Sound(task'[t]) /\ task'[t] \in TaskRec
    BY <2>2, <2>3 DEF Sound
  <2>5. task' = [t \in Tasks |-> task'[t]]
    BY <2>1
  <2>6. task' \in [Tasks -> TaskRec]
    BY <2>4, <2>5
  <2>. QED BY <2>4, <2>6 DEF TasksInv, Sound
<1>. QED BY <1>1, <1>2, <1>3

-----------------------------------------------------------------------------
(* The worker and the page                                                 *)

\* Most steps leave the table, the worker and the page's own state alone, but
\* for the budgets.
LEMMA TableStays ==
    ASSUME TableInv, UNCHANGED <<table, worker>>
    PROVE  TableInv'
BY DEF TableInv, table, worker

LEMMA ClickBudget == PageInv /\ Click => clicks' \in 0 .. MaxClicks /\ faults' = faults
BY UptimeAssumption DEF PageInv, Click

LEMMA FaultBudget == PageInv /\ Fault => faults' \in 0 .. MaxFaults /\ clicks' = clicks
BY UptimeAssumption DEF PageInv, Fault

LEMMA RoundInv == IInv /\ Round => IInv'
<1> SUFFICES ASSUME IInv, Round PROVE IInv'
  OBVIOUS
<1>1. TableInv'
  <2>1. Cardinality(server) \in Nat /\ pings' \in 0 .. MaxPings
    BY CountIds, UptimeAssumption DEF IInv, TableInv, Round
  <2>. QED BY <2>1 DEF IInv, TableInv, Round, table
<1>. QED BY <1>1, RowsStay, BoxesStay, TasksStay DEF IInv, PageInv, Round, table, budget

LEMMA PingLandsInv ==
    ASSUME IInv, NEW m \in Ids, PingLands(m)
    PROVE  IInv'
<1>1. TableInv'
  <2>1. \A p \in Checks : <<p>> \o logs[m] \in Seq(Checks)
    BY DEF IInv, TableInv
  <2>2. logs' \in [Ids -> Seq(Checks)]
    BY <2>1 DEF IInv, TableInv, PingLands
  <2>3. checking' \in [Ids -> Nat] /\ \A n \in Ids \ ever : checking'[n] = 0
    BY DEF IInv, TableInv, PingLands
  <2>. QED BY <2>2, <2>3 DEF IInv, TableInv, PingLands
<1>2. PageInv'
  BY FaultBudget DEF IInv, PageInv, PingLands, budget
<1>. QED BY <1>1, <1>2, RowsStay, BoxesStay, TasksStay DEF IInv, PingLands

LEMMA EnterInv == IInv /\ Enter => IInv'
<1> SUFFICES ASSUME IInv, Enter PROVE IInv'
  OBVIOUS
<1>1. TableInv'
  BY TableStays DEF IInv, Enter
<1>2. PageInv'
  BY DEF IInv, PageInv, Enter, budget, table
<1>3. RowsInv' /\ BoxesInv' /\ TasksInv'
  BY Rendered DEF IInv, PageInv, TableInv, TasksInv, Enter, table
<1>. QED BY <1>1, <1>2, <1>3 DEF IInv

LEMMA LeaveInv == IInv /\ Leave => IInv'
<1> SUFFICES ASSUME IInv, Leave PROVE IInv'
  OBVIOUS
<1>1. TableInv' /\ TasksInv'
  BY TableStays, TasksStay DEF IInv, Leave, table
<1>2. PageInv'
  BY ClickBudget DEF IInv, PageInv, Leave, table
<1>3. RowsInv'
  BY Blanks DEF RowsInv, DetailFollowsToggle, Leave
<1>4. BoxesInv'
  BY BoxesCleared DEF Leave
<1>. QED BY <1>1, <1>2, <1>3, <1>4 DEF IInv

LEMMA TickInv == IInv /\ Tick => IInv'
<1> SUFFICES ASSUME IInv, Tick PROVE IInv'
  OBVIOUS
<1>1. Sound([NoTask EXCEPT !.phase = "refresh"])
  BY Blanks DEF Sound, TaskRec
<1>2. TasksInv' /\ (BulkUnderWay => BulkUnderWay')
  BY <1>1, TaskBegun DEF IInv, Tick, table
<1>3. TableInv' /\ RowsInv' /\ BoxesInv'
  BY <1>2, TableStays, RowsStay, BoxesStay DEF IInv, Tick
<1>. QED BY <1>2, <1>3 DEF IInv, PageInv, Tick, table, budget

LEMMA RefreshServedInv ==
    ASSUME IInv, NEW t \in Tasks, RefreshServed(t)
    PROVE  IInv'
<1> DEFINE got == [task[t] EXCEPT !.phase = "refreshed", !.ids = server]
           not == [task[t] EXCEPT !.phase = "refreshed"]
<1>1. /\ task[t] \in TaskRec /\ Sound(task[t]) /\ server \subseteq ever /\ ever \subseteq Ids
      /\ UNCHANGED ever
  BY DEF IInv, TasksInv, TableInv, RefreshServed, table
<1>2. Sound(got) /\ got.bulk = task[t].bulk /\ Sound(not) /\ not.bulk = task[t].bulk
  BY <1>1 DEF Sound, TaskRec
<1>3. task' = [task EXCEPT ![t] = got] \/ task' = [task EXCEPT ![t] = not]
  BY DEF RefreshServed
<1> HIDE DEF got, not
<1>4. TasksInv' /\ (BulkUnderWay => BulkUnderWay')
  BY <1>1, <1>2, <1>3, TaskSet DEF IInv
<1>5. PageInv'
  BY FaultBudget DEF IInv, PageInv, RefreshServed, budget, table
<1>6. TableInv' /\ RowsInv' /\ BoxesInv'
  BY <1>4, TableStays, RowsStay, BoxesStay DEF IInv, RefreshServed
<1>. QED BY <1>4, <1>5, <1>6 DEF IInv

LEMMA RefreshLandsInv ==
    ASSUME IInv, NEW t \in Tasks, RefreshLands(t)
    PROVE  IInv'
<1> DEFINE rows == [task EXCEPT ![t] = NoTask]
<1>1. /\ task \in [Tasks -> TaskRec] /\ Sound(task[t]) /\ ever \subseteq Ids
      /\ list' = task[t].ids /\ list' \subseteq ever /\ UNCHANGED <<ever, open, expanded>>
  BY DEF IInv, TasksInv, TableInv, RefreshLands, table, Sound
<1>2. Sound(NoTask)
  BY Blanks DEF Sound
<1>3. TableInv'
  BY TableStays DEF IInv, RefreshLands
<1>4. PageInv'
  BY <1>1 DEF IInv, PageInv, RefreshLands, budget
<1>5. RowsInv' /\ BoxesInv' /\ TasksInv'
  <2>1. CASE open
    <3>1. rows \in [Tasks -> TaskRec] /\ \A u \in Tasks : Sound(rows[u])
      BY <1>1, <1>2, Blanks DEF IInv, TasksInv
    <3>2. RenderUptime(list', rows) /\ open' = TRUE
      BY <2>1 DEF RefreshLands
    <3> HIDE DEF rows
    <3>3. PICK ms : ms = list'
      OBVIOUS
    <3>4. RenderUptime(ms, rows)
      BY <3>2, <3>3
    <3>. QED BY <1>1, <3>1, <3>2, <3>3, <3>4, Rendered
  <2>2. CASE ~open
    <3>1. task' = rows /\ UNCHANGED <<panel, selection>>
      BY <2>2 DEF RefreshLands
    <3>2. RowsInv'
      BY <1>1, <2>2, <3>1 DEF IInv, RowsInv, DetailFollowsToggle
    <3>3. BoxesInv'
      BY <1>1, <2>2, <3>1 DEF IInv, BoxesInv, SelectionShown, selection
    <3>4. TasksInv'
      BY <1>1, <1>2, <3>1, TaskSet DEF IInv
    <3>. QED BY <3>2, <3>3, <3>4
  <2>. QED BY <1>1, <2>1, <2>2
<1>. QED BY <1>3, <1>4, <1>5 DEF IInv

-----------------------------------------------------------------------------
(* Unfolding a monitor                                                     *)

LEMMA ToggleInv ==
    ASSUME IInv, NEW m \in Ids, ToggleMonitorExpand(m)
    PROVE  IInv'
<1>1. m \in list /\ open /\ UNCHANGED <<ever, open, list>> /\ panel \in [Ids -> PanelRec]
      /\ ever \subseteq Ids /\ list \subseteq ever
  BY DEF IInv, TableInv, PageInv, RowsInv, ToggleMonitorExpand, OnPage, table
<1>2. TasksInv' /\ (BulkUnderWay => BulkUnderWay')
  <2>1. CASE UNCHANGED task
    BY <1>1, <2>1, TasksStay DEF IInv
  <2>2. CASE \E t \in Tasks : Begin(t, [NoTask EXCEPT !.phase = "logs", !.ids = {m}])
    <3> DEFINE k == [NoTask EXCEPT !.phase = "logs", !.ids = {m}]
    <3>1. Sound(k)
      BY <1>1, Blanks DEF Sound, TaskRec
    <3> HIDE DEF k
    <3>. QED BY <1>1, <2>2, <3>1, TaskBegun DEF IInv, k
  <2>. QED BY <2>1, <2>2 DEF ToggleMonitorExpand
<1>3. RowsInv'
  <2>1. PICK row \in {NoPanel, Spinner} :
          /\ panel' = [panel EXCEPT ![m] = row]
          /\ row.kind # "none" <=> m \in expanded'
          /\ \A n \in Ids \ {m} : n \in expanded' <=> n \in expanded
    BY Blanks DEF ToggleMonitorExpand
  <2>2. row \in PanelRec /\ TellsRuns(row)
    BY Blanks
  <2>3. panel' \in [Ids -> PanelRec]
        /\ \A n \in Ids : panel'[n] = IF n = m THEN row ELSE panel[n]
    BY <1>1, <2>1, <2>2
  <2>4. DetailFollowsToggle'
    BY <1>1, <2>1, <2>3 DEF IInv, RowsInv, DetailFollowsToggle
  <2>5. (\A n \in Ids : TellsRuns(panel[n]))'
    BY <2>2, <2>3 DEF IInv, RowsInv
  <2>. QED BY <2>3, <2>4, <2>5 DEF RowsInv
<1>4. PageInv'
  BY <1>1, ClickBudget DEF IInv, PageInv, ToggleMonitorExpand, OnPage
<1>5. TableInv' /\ BoxesInv'
  BY <1>1, <1>2, TableStays, BoxesStay DEF IInv, ToggleMonitorExpand
<1>. QED BY <1>2, <1>3, <1>4, <1>5 DEF IInv

LEMMA LogsServedInv ==
    ASSUME IInv, NEW t \in Tasks, LogsServed(t)
    PROVE  IInv'
<1>1. /\ task[t] \in TaskRec /\ Sound(task[t]) /\ ever \subseteq Ids /\ UNCHANGED ever
      /\ task[t].phase = "logs" /\ logs \in [Ids -> Seq(Checks)]
  BY DEF IInv, TasksInv, TableInv, LogsServed, table
<1>2. PICK h \in Seq(Checks) : \/ task' = [task EXCEPT ![t].phase = "logged", ![t].logs = h]
                              \/ task' = [task EXCEPT ![t].phase = "logged"]
  <2>1. CASE \E m \in task[t].ids :
               task' = [task EXCEPT ![t].phase = "logged", ![t].logs = logs[m]]
    <3>1. \A m \in task[t].ids : logs[m] \in Seq(Checks)
      BY <1>1 DEF TaskRec
    <3>. QED BY <2>1, <3>1
  <2>. QED BY <2>1, EmptySeq DEF LogsServed
<1> DEFINE got == [task[t] EXCEPT !.phase = "logged", !.logs = h]
           not == [task[t] EXCEPT !.phase = "logged"]
<1>3. Sound(got) /\ Sound(not) /\ ~task[t].bulk
  BY <1>1 DEF Sound, TaskRec
<1>4. task' = [task EXCEPT ![t] = got] \/ task' = [task EXCEPT ![t] = not]
  BY <1>2
<1> HIDE DEF got, not
<1>5. TasksInv' /\ (BulkUnderWay => BulkUnderWay')
  BY <1>1, <1>3, <1>4, TaskSet DEF IInv
<1>6. PageInv'
  BY FaultBudget DEF IInv, PageInv, LogsServed, budget, table
<1>7. TableInv' /\ RowsInv' /\ BoxesInv'
  BY <1>5, TableStays, RowsStay, BoxesStay DEF IInv, LogsServed
<1>. QED BY <1>5, <1>6, <1>7 DEF IInv

LEMMA LogsLandInv ==
    ASSUME IInv, NEW t \in Tasks, LogsLand(t)
    PROVE  IInv'
<1>1. /\ task[t] \in TaskRec /\ Sound(task[t]) /\ UNCHANGED <<ever, open, list, expanded>>
      /\ task[t].phase = "logged" /\ task' = [task EXCEPT ![t] = NoTask]
  BY DEF IInv, TasksInv, LogsLand, table
<1>2. Sound(NoTask) /\ ~task[t].bulk
  BY <1>1, Blanks DEF Sound
<1>3. TasksInv' /\ (BulkUnderWay => BulkUnderWay')
  BY <1>1, <1>2, TaskSet DEF IInv
<1>4. RowsInv'
  <2>1. PICK m \in task[t].ids :
        \/ panel[m].kind = "none" /\ UNCHANGED panel
        \/ panel[m].kind # "none" /\ panel' = [panel EXCEPT ![m] = Pending]
        \/ panel[m].kind # "none" /\ Draws(m, task[t].logs, filter[m], "24h")
    BY DEF LogsLand
  <2>2. m \in Ids /\ task[t].logs \in Seq(Checks) /\ "24h" \in Ranges
    BY <1>1 DEF TaskRec, Ranges
  <2>3. CASE UNCHANGED panel
    BY <1>1, <2>3, RowsStay DEF IInv
  <2>4. CASE panel[m].kind # "none" /\ panel' = [panel EXCEPT ![m] = Pending]
    BY <1>1, <2>2, <2>4, Blanks, RowFilled DEF IInv
  <2>5. CASE panel[m].kind # "none" /\ Draws(m, task[t].logs, filter[m], "24h")
    <3>1. PICK n \in 0 .. Len(task[t].logs) :
            panel' = [panel EXCEPT ![m] = Chart(task[t].logs, n, filter[m], "24h")]
      BY <2>5 DEF Draws
    <3>2. PICK row : row = Chart(task[t].logs, n, filter[m], "24h")
      OBVIOUS
    <3>3. row \in PanelRec /\ TellsRuns(row) /\ row.kind = "chart"
      BY <2>2, <3>2, ChartRow
    <3>4. panel' = [panel EXCEPT ![m] = row]
      BY <3>1, <3>2
    <3>. QED BY <1>1, <2>2, <2>5, <3>3, <3>4, RowFilled DEF IInv
  <2>. QED BY <2>1, <2>3, <2>4, <2>5
<1>5. PageInv'
  BY DEF IInv, PageInv, LogsLand, budget, table
<1>6. TableInv' /\ BoxesInv'
  BY <1>1, <1>3, TableStays, BoxesStay DEF IInv, LogsLand
<1>. QED BY <1>3, <1>4, <1>5, <1>6 DEF IInv

LEMMA ChangeRangeInv ==
    ASSUME IInv, NEW m \in Ids, ChangeUptimeChartRange(m)
    PROVE  IInv'
<1>1. panel[m] \in PanelRec /\ panel[m].logs \in Seq(Checks)
      /\ panel[m].kind = "chart" /\ UNCHANGED <<ever, open, list, expanded>>
  BY DEF IInv, RowsInv, PanelRec, ChangeUptimeChartRange, OnPage, table
<1>2. RowsInv'
  <2>1. PICK range \in Ranges, n \in 0 .. Len(panel[m].logs) :
          panel' = [panel EXCEPT ![m] = Chart(panel[m].logs, n, filter[m], range)]
    BY DEF ChangeUptimeChartRange, Draws
  <2>2. PICK row : row = Chart(panel[m].logs, n, filter[m], range)
    OBVIOUS
  <2>3. row \in PanelRec /\ TellsRuns(row) /\ row.kind = "chart"
    BY <1>1, <2>2, ChartRow
  <2>. QED BY <1>1, <2>1, <2>2, <2>3, RowFilled DEF IInv
<1>3. PageInv'
  BY <1>1, ClickBudget DEF IInv, PageInv, ChangeUptimeChartRange, OnPage
<1>4. TasksInv' /\ (BulkUnderWay => BulkUnderWay')
  BY <1>1, TasksStay DEF IInv, ChangeUptimeChartRange
<1>5. TableInv' /\ BoxesInv'
  BY <1>1, <1>4, TableStays, BoxesStay DEF IInv, ChangeUptimeChartRange
<1>. QED BY <1>2, <1>3, <1>4, <1>5 DEF IInv

LEMMA ChangeTypeInv ==
    ASSUME IInv, NEW m \in Ids, ChangeUptimeTypeFilter(m)
    PROVE  IInv'
<1>1. panel[m] \in PanelRec /\ panel[m].logs \in Seq(Checks) /\ panel[m].range \in Ranges
      /\ panel[m].kind = "chart" /\ UNCHANGED <<ever, open, list, expanded>>
  BY DEF IInv, RowsInv, PanelRec, ChangeUptimeTypeFilter, OnPage, table
<1>2. PICK row, other :
        \E type \in Types, n \in 0 .. Len(panel[m].logs), range \in Ranges :
        /\ filter' = [filter EXCEPT ![m] = type]
        /\ row = Chart(panel[m].logs, n, type, range)
        /\ other = [row EXCEPT !.range = panel[m].range]
        /\ panel' = [panel EXCEPT ![m] = other]
  <2> DEFINE range == IF panel[m].range = "all" THEN "24h" ELSE panel[m].range
  <2>1. range \in Ranges
    BY <1>1 DEF Ranges
  <2>2. PICK type \in Types, n \in 0 .. Len(panel[m].logs) :
          /\ filter' = [filter EXCEPT ![m] = type]
          /\ panel' = [panel EXCEPT ![m] =
                          [Chart(panel[m].logs, n, type, range) EXCEPT !.range = panel[m].range]]
    BY DEF ChangeUptimeTypeFilter
  <2> HIDE DEF range
  <2>3. PICK row : row = Chart(panel[m].logs, n, type, range)
    OBVIOUS
  <2>4. PICK other : other = [row EXCEPT !.range = panel[m].range]
    OBVIOUS
  <2>. QED BY <2>1, <2>2, <2>3, <2>4
<1>3. other \in PanelRec /\ TellsRuns(other) /\ other.kind = "chart"
  BY <1>1, <1>2, ChartHolds
<1>4. RowsInv'
  BY <1>1, <1>2, <1>3, RowFilled DEF IInv
<1>5. PageInv'
  <2>1. filter' \in [Ids -> Types]
    BY <1>2 DEF IInv, PageInv
  <2>. QED BY <1>1, <2>1, ClickBudget DEF IInv, PageInv, ChangeUptimeTypeFilter, OnPage
<1>6. TasksInv' /\ (BulkUnderWay => BulkUnderWay')
  BY <1>1, TasksStay DEF IInv, ChangeUptimeTypeFilter
<1>7. TableInv' /\ BoxesInv'
  BY <1>1, <1>6, TableStays, BoxesStay DEF IInv, ChangeUptimeTypeFilter
<1>. QED BY <1>4, <1>5, <1>6, <1>7 DEF IInv

-----------------------------------------------------------------------------
(* The boxes                                                               *)

LEMMA SelectionUpdated ==
    ASSUME BoxesInv, UNCHANGED <<open, list>>, open, ever \subseteq Ids, list \subseteq ever,
           NEW boxes \in SUBSET list, UpdateUptimeSelection(boxes)
    PROVE  BoxesInv'
<1>1. Cardinality(boxes) \in 0 .. Cardinality(Ids)
  BY CountIds
<1>2. bar' \in [up : BOOLEAN, count : 0 .. Cardinality(Ids)]
  BY <1>1 DEF BoxesInv, UpdateUptimeSelection
<1>3. /\ boxes # {} => bar'.up /\ bar'.count = Cardinality(boxes)
      /\ boxes = {} => ~bar'.up
  BY DEF BoxesInv, UpdateUptimeSelection
<1>. QED BY <1>2, <1>3 DEF BoxesInv, SelectionShown, UpdateUptimeSelection

LEMMA CheckInv == IInv /\ Check => IInv'
<1> SUFFICES ASSUME IInv, Check PROVE IInv'
  OBVIOUS
<1>1. open /\ UNCHANGED <<ever, open, list>> /\ ever \subseteq Ids /\ list \subseteq ever
      /\ checked \subseteq list
  BY DEF IInv, TableInv, PageInv, BoxesInv, Check, OnPage, table
<1>2. BoxesInv'
  <2>1. PICK boxes \in SUBSET list : UpdateUptimeSelection(boxes)
    BY <1>1 DEF Check
  <2>. QED BY <1>1, <2>1, SelectionUpdated DEF IInv
<1>3. PageInv'
  BY <1>1, ClickBudget DEF IInv, PageInv, Check, OnPage
<1>4. TableInv' /\ RowsInv' /\ TasksInv'
  BY <1>1, TableStays, RowsStay, TasksStay DEF IInv, Check
<1>. QED BY <1>2, <1>3, <1>4 DEF IInv

-----------------------------------------------------------------------------
(* Deleting and adding                                                     *)

\* The bar goes down over the checked boxes because their deletion begins.
LEMMA BulkDeleteInv == IInv /\ BulkDeleteMonitors => IInv'
<1> SUFFICES ASSUME IInv, BulkDeleteMonitors PROVE IInv'
  OBVIOUS
<1>1. open /\ UNCHANGED <<ever, open, list, checked, header>> /\ ever \subseteq Ids
      /\ list \subseteq ever /\ checked \subseteq list
  BY DEF IInv, TableInv, PageInv, BoxesInv, BulkDeleteMonitors, OnPage, table
<1>2. PICK k : /\ \E t \in Tasks : Begin(t, k)
               /\ k = [NoTask EXCEPT !.phase = "delete", !.ids = checked, !.bulk = TRUE]
  BY DEF BulkDeleteMonitors
<1>3. Sound(k) /\ k.bulk
  BY <1>1, <1>2, Blanks DEF Sound, TaskRec
<1>4. TasksInv'
  BY <1>1, <1>2, <1>3, TaskBegun DEF IInv
<1>5. BulkUnderWay'
  BY <1>2, <1>3 DEF Begin, IInv, TasksInv, BulkUnderWay
<1>6. BoxesInv'
  <2>1. bar' \in [up : BOOLEAN, count : 0 .. Cardinality(Ids)] /\ ~bar'.up
    BY DEF BulkDeleteMonitors, IInv, BoxesInv
  <2>2. SelectionShown'
    BY <1>1, <1>5, <2>1 DEF IInv, BoxesInv, SelectionShown
  <2>. QED BY <1>1, <2>1, <2>2 DEF IInv, BoxesInv
<1>7. PageInv'
  BY <1>1, ClickBudget DEF IInv, PageInv, BulkDeleteMonitors, OnPage
<1>8. TableInv' /\ RowsInv'
  BY <1>1, TableStays, RowsStay DEF IInv, BulkDeleteMonitors
<1>. QED BY <1>4, <1>6, <1>7, <1>8 DEF IInv

LEMMA DeleteMonitorInv ==
    ASSUME IInv, NEW m \in Ids, DeleteMonitor(m)
    PROVE  IInv'
<1>1. m \in ever /\ UNCHANGED <<ever, open, list>>
  BY DEF IInv, PageInv, DeleteMonitor, OnPage, table
<1>2. PICK k : /\ \E t \in Tasks : Begin(t, k)
               /\ k = [NoTask EXCEPT !.phase = "delete", !.ids = {m}]
  BY DEF DeleteMonitor
<1>3. Sound(k)
  BY <1>1, <1>2, Blanks DEF Sound, TaskRec
<1>4. TasksInv' /\ (BulkUnderWay => BulkUnderWay')
  BY <1>1, <1>2, <1>3, TaskBegun DEF IInv
<1>5. PageInv'
  BY <1>1, ClickBudget DEF IInv, PageInv, DeleteMonitor, OnPage
<1>6. TableInv' /\ RowsInv' /\ BoxesInv'
  BY <1>1, <1>4, TableStays, RowsStay, BoxesStay DEF IInv, DeleteMonitor
<1>. QED BY <1>4, <1>5, <1>6 DEF IInv

LEMMA DeleteServedInv ==
    ASSUME IInv, NEW t \in Tasks, NEW m \in Ids, DeleteServed(t, m)
    PROVE  IInv'
<1>1. /\ task[t] \in TaskRec /\ Sound(task[t]) /\ ever \subseteq Ids
      /\ UNCHANGED <<ever, open, list>>
  BY DEF IInv, TasksInv, TableInv, DeleteServed
<1> DEFINE got == [task[t] EXCEPT !.ids = @ \ {m}]
           not(ok) == [task[t] EXCEPT !.ids = @ \ {m}, !.ok = @ /\ ok]
<1>2. /\ Sound(got) /\ got.bulk = task[t].bulk
      /\ \A ok \in BOOLEAN : Sound(not(ok)) /\ not(ok).bulk = task[t].bulk
  BY <1>1 DEF Sound, TaskRec
<1>3. \/ task' = [task EXCEPT ![t] = got]
      \/ \E ok \in BOOLEAN : task' = [task EXCEPT ![t] = not(ok)]
  BY DEF DeleteServed
<1> HIDE DEF got, not
<1>4. TasksInv' /\ (BulkUnderWay => BulkUnderWay')
  BY <1>1, <1>2, <1>3, TaskSet DEF IInv
<1>5. TableInv'
  <2>1. [logs EXCEPT ![m] = <<>>] \in [Ids -> Seq(Checks)]
    BY EmptySeq DEF IInv, TableInv
  <2>. QED BY <2>1 DEF IInv, TableInv, DeleteServed, worker
<1>6. PageInv'
  BY <1>1, FaultBudget DEF IInv, PageInv, DeleteServed, budget
<1>7. RowsInv' /\ BoxesInv'
  BY <1>1, <1>4, RowsStay, BoxesStay DEF IInv, DeleteServed
<1>. QED BY <1>4, <1>5, <1>6, <1>7 DEF IInv

LEMMA DeleteLandsInv ==
    ASSUME IInv, NEW t \in Tasks, DeleteLands(t)
    PROVE  IInv'
<1>1. task[t] \in TaskRec /\ Sound(task[t]) /\ UNCHANGED <<ever, open, list>>
  BY DEF IInv, TasksInv, DeleteLands, table
<1>2. PICK k : /\ task' = [task EXCEPT ![t] = k]
               /\ k = IF task[t].bulk \/ task[t].ok
                      THEN [NoTask EXCEPT !.phase = "refresh", !.bulk = task[t].bulk] ELSE NoTask
  BY DEF DeleteLands
<1>3. Sound(k) /\ (task[t].bulk => k.bulk)
  <2>1. task[t].bulk \in BOOLEAN
    BY <1>1 DEF TaskRec
  <2>. QED BY <1>2, <2>1, Blanks DEF Sound, TaskRec
<1>4. TasksInv' /\ (BulkUnderWay => BulkUnderWay')
  BY <1>1, <1>2, <1>3, TaskSet DEF IInv
<1>5. TableInv' /\ RowsInv' /\ BoxesInv'
  BY <1>1, <1>4, TableStays, RowsStay, BoxesStay DEF IInv, DeleteLands
<1>. QED BY <1>1, <1>4, <1>5 DEF IInv, PageInv, DeleteLands, budget

LEMMA FormInv == IInv /\ (OpenAddMonitorModal \/ CancelAdd) => IInv'
<1> SUFFICES ASSUME IInv, OpenAddMonitorModal \/ CancelAdd PROVE IInv'
  OBVIOUS
<1>1. /\ UNCHANGED <<table, worker, list, open, expanded, filter, panel, selection, task>>
      /\ Click /\ form' \in BOOLEAN
  BY DEF OpenAddMonitorModal, CancelAdd, OnPage
<1>2. UNCHANGED ever
  BY <1>1 DEF table
<1>3. PageInv'
  BY <1>1, <1>2, ClickBudget DEF IInv, PageInv
<1>. QED BY <1>1, <1>2, <1>3, TableStays, RowsStay, BoxesStay, TasksStay DEF IInv

LEMMA SubmitAddInv == IInv /\ SubmitAdd => IInv'
<1> SUFFICES ASSUME IInv, SubmitAdd PROVE IInv'
  OBVIOUS
<1>1. UNCHANGED <<ever, open, list>>
  BY DEF SubmitAdd, table
<1>2. PICK k : (\E t \in Tasks : Begin(t, k)) /\ k = [NoTask EXCEPT !.phase = "add"]
  BY DEF SubmitAdd
<1>3. Sound(k)
  BY <1>2, Blanks DEF Sound, TaskRec
<1>4. TasksInv' /\ (BulkUnderWay => BulkUnderWay')
  BY <1>1, <1>2, <1>3, TaskBegun DEF IInv
<1>5. PageInv'
  BY <1>1, ClickBudget DEF IInv, PageInv, SubmitAdd
<1>6. TableInv' /\ RowsInv' /\ BoxesInv'
  BY <1>1, <1>4, TableStays, RowsStay, BoxesStay DEF IInv, SubmitAdd
<1>. QED BY <1>4, <1>5, <1>6 DEF IInv

LEMMA AddServedInv ==
    ASSUME IInv, NEW t \in Tasks, AddServed(t)
    PROVE  IInv'
<1>1. /\ task[t] \in TaskRec /\ Sound(task[t]) /\ task[t].phase = "add"
      /\ UNCHANGED <<open, list>> /\ ever \subseteq ever'
  BY DEF IInv, TasksInv, AddServed
<1> DEFINE got == [task[t] EXCEPT !.phase = "added"]
           not == [task[t] EXCEPT !.phase = "added", !.ok = FALSE]
<1>2. Sound(got) /\ Sound(not) /\ ~task[t].bulk
  BY <1>1 DEF Sound, TaskRec
<1>3. task' = [task EXCEPT ![t] = got] \/ task' = [task EXCEPT ![t] = not]
  BY DEF AddServed
<1> HIDE DEF got, not
<1>4. TasksInv' /\ (BulkUnderWay => BulkUnderWay')
  BY <1>1, <1>2, <1>3, TaskSet DEF IInv
<1>5. TableInv'
  BY DEF IInv, TableInv, AddServed, worker
<1>6. PageInv'
  BY <1>1, FaultBudget DEF IInv, PageInv, AddServed, budget
<1>7. RowsInv' /\ BoxesInv'
  BY <1>1, <1>4, RowsStay, BoxesStay DEF IInv, AddServed
<1>. QED BY <1>4, <1>5, <1>6, <1>7 DEF IInv

LEMMA AddLandsInv ==
    ASSUME IInv, NEW t \in Tasks, AddLands(t)
    PROVE  IInv'
<1>1. /\ task[t] \in TaskRec /\ Sound(task[t]) /\ task[t].phase = "added"
      /\ UNCHANGED <<ever, open, list>>
  BY DEF IInv, TasksInv, AddLands, table
<1>2. ~task[t].bulk
  BY <1>1 DEF Sound
<1>3. PICK k \in {[NoTask EXCEPT !.phase = "refresh"], NoTask} : task' = [task EXCEPT ![t] = k]
  BY DEF AddLands
<1>4. Sound(k)
  BY <1>3, Blanks DEF Sound, TaskRec
<1>5. TasksInv' /\ (BulkUnderWay => BulkUnderWay')
  BY <1>1, <1>2, <1>3, <1>4, TaskSet DEF IInv
<1>6. PageInv'
  BY <1>1 DEF IInv, PageInv, AddLands, budget
<1>7. TableInv' /\ RowsInv' /\ BoxesInv'
  BY <1>1, <1>5, TableStays, RowsStay, BoxesStay DEF IInv, AddLands
<1>. QED BY <1>5, <1>6, <1>7 DEF IInv

-----------------------------------------------------------------------------
LEMMA NextIInv == IInv /\ [Next]_vars => IInv'
<1> SUFFICES ASSUME IInv, [Next]_vars PROVE IInv'
  OBVIOUS
<1>1. CASE UNCHANGED vars
  BY <1>1, TableStays, RowsStay, BoxesStay, TasksStay
     DEF IInv, PageInv, vars, table, worker, budget, selection
<1>2. ASSUME NEW t \in Tasks, Answer(t) PROVE IInv'
  BY <1>2, RefreshServedInv, RefreshLandsInv, LogsServedInv, LogsLandInv, DeleteServedInv,
     DeleteLandsInv, AddServedInv, AddLandsInv DEF Answer
<1>3. ASSUME NEW m \in Ids,
             PingLands(m) \/ ToggleMonitorExpand(m) \/ ChangeUptimeChartRange(m)
             \/ ChangeUptimeTypeFilter(m) \/ DeleteMonitor(m)
      PROVE  IInv'
  BY <1>3, PingLandsInv, ToggleInv, ChangeRangeInv, ChangeTypeInv, DeleteMonitorInv
<1>4. CASE Round \/ Tick \/ Enter \/ Leave \/ Check \/ BulkDeleteMonitors
           \/ OpenAddMonitorModal \/ CancelAdd \/ SubmitAdd
  BY <1>4, RoundInv, TickInv, EnterInv, LeaveInv, CheckInv, BulkDeleteInv, FormInv, SubmitAddInv
<1>. QED BY <1>1, <1>2, <1>3, <1>4 DEF Next

-----------------------------------------------------------------------------
\* Every chart of the page, of a history of any length and through any filter,
\* tells the newest three of the longest runs of failed pings it shows, the
\* newest first (getOutageIncidents, renderUptimeChart).
THEOREM OutagesTheorem == Spec => []OutagesAreRuns
<1>1. Spec => []IInv
  BY InitIInv, NextIInv, PTL DEF Spec
<1>2. IInv => OutagesAreRuns
  BY IInvShows
<1>. QED BY <1>1, <1>2, PTL

-----------------------------------------------------------------------------
(* The spinners                                                            *)

Asking(k) == k.phase \in {"logs", "logged"}

\* Requests for histories go on, and no spinner comes.
LEMMA AwaitKept ==
    ASSUME FetchIsAwaited,
           \A m \in Ids : panel'[m].kind = "spinner" => panel[m].kind = "spinner",
           \A u \in Tasks : Asking(task[u]) => Asking(task'[u]) /\ task'[u].ids = task[u].ids
    PROVE  FetchIsAwaited'
BY DEF FetchIsAwaited, Asking

\* One request goes on, which is for something else.
LEMMA AwaitRow ==
    ASSUME TasksInv, FetchIsAwaited, UNCHANGED panel, NEW t \in Tasks, ~Asking(task[t]),
           NEW k, task' = [task EXCEPT ![t] = k]
    PROVE  FetchIsAwaited'
<1>1. \A u \in Tasks : u # t => task'[u] = task[u]
  BY DEF TasksInv
<1>. QED BY <1>1, AwaitKept

LEMMA AwaitBegin ==
    ASSUME TasksInv, FetchIsAwaited, UNCHANGED panel, NEW t \in Tasks, NEW k, Begin(t, k)
    PROVE  FetchIsAwaited'
<1>1. ~Asking(task[t]) /\ task' = [task EXCEPT ![t] = k]
  BY Blanks DEF Begin, Asking
<1>. QED BY <1>1, AwaitRow

\* With as many rows free as monitors to ask about, each gets one of its own.
LEMMA RowsGiven ==
    ASSUME NEW S, IsFiniteSet(S), NEW T, IsFiniteSet(T), Cardinality(S) <= Cardinality(T)
    PROVE  \E f \in [S -> T] : IsInjective(f)
<1>1. PICK n \in Nat : ExistsBijection(S, 1 .. n)
  BY FS_NatBijection, Fun_ExistsBijSymmetric
<1>2. PICK k \in Nat : ExistsBijection(1 .. k, T)
  BY FS_NatBijection
<1>3. Cardinality(S) = n /\ Cardinality(T) = k
  BY <1>1, <1>2, FS_CountingElements, Fun_ExistsBijSymmetric
<1>4. PICK f \in [S -> 1 .. n] : \A a, b \in S : f[a] = f[b] => a = b
  BY <1>1 DEF ExistsBijection, Bijection, Injection, IsInjective
<1>5. PICK g \in [1 .. k -> T] : \A a, b \in 1 .. k : g[a] = g[b] => a = b
  BY <1>2 DEF ExistsBijection, Bijection, Injection, IsInjective
<1>6. \A a \in S : f[a] \in 1 .. k
  BY <1>3, <1>4
<1>7. [a \in S |-> g[f[a]]] \in [S -> T]
  BY <1>5, <1>6
<1>8. IsInjective([a \in S |-> g[f[a]]])
  BY <1>4, <1>5, <1>6 DEF IsInjective
<1>. QED BY <1>7, <1>8

LEMMA AwaitRendered ==
    ASSUME NEW ms, NEW rows, RenderUptime(ms, rows), ms \subseteq Ids
    PROVE  FetchIsAwaited'
<1> DEFINE again == expanded \cap ms
           free == {t \in Tasks : rows[t] = NoTask}
           row == CHOOSE f \in [again -> free] : IsInjective(f)
           asks(t) == {m \in again : row[m] = t}
<1>1. IsFiniteSet(again) /\ IsFiniteSet(free)
  <2>1. IsFiniteSet(Tasks)
    BY FS_Interval, UptimeAssumption DEF Tasks
  <2>. QED BY <2>1, FS_Subset, UptimeAssumption
<1>2. Cardinality(again) <= Cardinality(free)
  BY DEF RenderUptime
<1>3. \E f \in [again -> free] : IsInjective(f)
  BY <1>1, <1>2, RowsGiven
<1>4. row \in [again -> free] /\ IsInjective(row)
  BY <1>3
<1>5. /\ panel' = [m \in Ids |-> IF m \in again THEN Spinner ELSE NoPanel]
      /\ task' = [t \in Tasks |-> IF \E m \in again : row[m] = t
                     THEN [NoTask EXCEPT !.phase = "logs", !.ids = asks(t)] ELSE rows[t]]
  BY DEF RenderUptime
<1> HIDE DEF row
<1>6. ASSUME NEW m \in Ids, panel'[m].kind = "spinner"
      PROVE  \E t \in Tasks : Asking(task'[t]) /\ task'[t].ids = {m}
  <2>1. m \in again
    BY <1>5, <1>6, Blanks
  <2>2. row[m] \in Tasks /\ asks(row[m]) = {m}
    <3>1. row[m] \in Tasks /\ DOMAIN row = again
      BY <1>4, <2>1
    <3>2. \A k \in again : row[k] = row[m] => k = m
      BY <1>4, <2>1, <3>1 DEF IsInjective
    <3>. QED BY <2>1, <3>1, <3>2
  <2> HIDE DEF asks, again
  <2>3. task'[row[m]] = [NoTask EXCEPT !.phase = "logs", !.ids = {m}]
    BY <1>5, <2>1, <2>2
  <2>4. task'[row[m]].phase = "logs" /\ task'[row[m]].ids = {m}
    BY <2>3 DEF NoTask
  <2>. QED BY <2>2, <2>4 DEF Asking
<1>. QED BY <1>6 DEF FetchIsAwaited, Asking

\* The answer fills the row it was asked for, if it is still unfolded.
LEMMA AwaitLanded ==
    ASSUME IInv, FetchIsAwaited, NEW t \in Tasks, LogsLand(t)
    PROVE  FetchIsAwaited'
<1>1. panel \in [Ids -> PanelRec] /\ task[t] \in TaskRec
      /\ \A u \in Tasks : u # t => task'[u] = task[u]
  BY DEF IInv, RowsInv, TasksInv, LogsLand
<1>2. PICK m \in task[t].ids :
        \/ panel[m].kind = "none" /\ UNCHANGED panel
        \/ \E r : r.kind # "spinner" /\ panel' = [panel EXCEPT ![m] = r]
  BY Blanks DEF LogsLand, Draws, Chart
<1>3. m \in Ids
  BY <1>1 DEF TaskRec
<1>4. /\ panel'[m].kind # "spinner"
      /\ \A n \in Ids : panel'[n].kind = "spinner" => panel[n].kind = "spinner"
  BY <1>1, <1>2, <1>3
<1>5. ASSUME NEW n \in Ids, panel'[n].kind = "spinner"
      PROVE  \E u \in Tasks : Asking(task'[u]) /\ task'[u].ids = {n}
  <2>1. PICK u \in Tasks : Asking(task[u]) /\ task[u].ids = {n}
    BY <1>4, <1>5 DEF FetchIsAwaited, Asking
  <2>2. u # t
    BY <1>2, <1>4, <1>5, <2>1
  <2>. QED BY <1>1, <2>1, <2>2
<1>. QED BY <1>5 DEF FetchIsAwaited, Asking

LEMMA AwaitToggled ==
    ASSUME IInv, FetchIsAwaited, NEW m \in Ids, ToggleMonitorExpand(m)
    PROVE  FetchIsAwaited'
<1>1. panel \in [Ids -> PanelRec] /\ task \in [Tasks -> TaskRec]
  BY DEF IInv, RowsInv, TasksInv
<1>2. CASE panel' = [panel EXCEPT ![m] = NoPanel] /\ UNCHANGED task
  <2>1. \A n \in Ids : panel'[n].kind = "spinner" => panel[n].kind = "spinner"
    BY <1>1, <1>2, Blanks
  <2>. QED BY <1>2, <2>1, AwaitKept
<1>3. ASSUME panel' = [panel EXCEPT ![m] = Spinner], NEW t \in Tasks,
             Begin(t, [NoTask EXCEPT !.phase = "logs", !.ids = {m}])
      PROVE  FetchIsAwaited'
  <2>1. task[t] = NoTask /\ task'[t] = [NoTask EXCEPT !.phase = "logs", !.ids = {m}]
        /\ \A u \in Tasks : u # t => task'[u] = task[u]
    BY <1>1, <1>3 DEF Begin
  <2>2. Asking(task'[t]) /\ task'[t].ids = {m} /\ ~Asking(task[t])
    BY <2>1 DEF NoTask, Asking
  <2>3. \A n \in Ids : n # m => panel'[n] = panel[n]
    BY <1>1, <1>3
  <2>4. ASSUME NEW n \in Ids, panel'[n].kind = "spinner"
        PROVE  \E u \in Tasks : Asking(task'[u]) /\ task'[u].ids = {n}
    <3>1. CASE n = m
      BY <2>1, <2>2, <3>1
    <3>2. CASE n # m
      <4>1. PICK u \in Tasks : Asking(task[u]) /\ task[u].ids = {n}
        BY <2>3, <2>4, <3>2 DEF FetchIsAwaited, Asking
      <4>2. u # t
        BY <2>2, <4>1
      <4>. QED BY <2>1, <4>1, <4>2
    <3>. QED BY <3>1, <3>2
  <2>. QED BY <2>4 DEF FetchIsAwaited, Asking
<1>. QED BY <1>2, <1>3 DEF ToggleMonitorExpand

LEMMA StepAwaited ==
    ASSUME IInv, FetchIsAwaited, [Next]_vars
    PROVE  FetchIsAwaited'
<1>1. panel \in [Ids -> PanelRec] /\ task \in [Tasks -> TaskRec] /\ TasksInv
      /\ list \subseteq Ids
  BY DEF IInv, RowsInv, TasksInv, TableInv, PageInv
<1>2. ASSUME UNCHANGED <<panel, task>> PROVE FetchIsAwaited'
  BY <1>2, AwaitKept
<1>3. ASSUME NEW t \in Tasks,
             \/ RefreshServed(t) \/ DeleteLands(t) \/ AddServed(t) \/ AddLands(t)
             \/ \E m \in Ids : DeleteServed(t, m)
      PROVE  FetchIsAwaited'
  <2>1. ~Asking(task[t]) /\ UNCHANGED panel
    BY <1>3 DEF RefreshServed, DeleteServed, DeleteLands, AddServed, AddLands, Asking
  <2>2. \E k : task' = [task EXCEPT ![t] = k]
    BY <1>3 DEF RefreshServed, DeleteServed, DeleteLands, AddServed, AddLands
  <2>. QED BY <1>1, <2>1, <2>2, AwaitRow
<1>4. ASSUME NEW t \in Tasks, RefreshLands(t) PROVE FetchIsAwaited'
  <2> DEFINE rows == [task EXCEPT ![t] = NoTask]
  <2>1. CASE open
    <3>1. RenderUptime(list', rows) /\ list' \subseteq Ids
      BY <1>1, <1>4, <2>1 DEF RefreshLands, TaskRec
    <3>2. PICK ms : ms = list'
      OBVIOUS
    <3> HIDE DEF rows
    <3>3. PICK tk : tk = rows
      OBVIOUS
    <3>. QED BY <3>1, <3>2, <3>3, AwaitRendered
  <2>2. CASE ~open
    BY <1>1, <1>4, <2>2, AwaitRow DEF RefreshLands, Asking
  <2>. QED BY <2>1, <2>2
<1>5. ASSUME NEW t \in Tasks, LogsServed(t) PROVE FetchIsAwaited'
  <2>1. Asking(task'[t]) /\ task'[t].ids = task[t].ids
        /\ \A u \in Tasks : u # t => task'[u] = task[u]
    BY <1>1, <1>5 DEF LogsServed, TaskRec, Asking
  <2>. QED BY <1>5, <2>1, AwaitKept DEF LogsServed
<1>6. ASSUME NEW m \in Ids, ChangeUptimeChartRange(m) \/ ChangeUptimeTypeFilter(m)
      PROVE  FetchIsAwaited'
  <2>1. UNCHANGED task /\ \E r : r.kind = "chart" /\ panel' = [panel EXCEPT ![m] = r]
    BY <1>6 DEF ChangeUptimeChartRange, ChangeUptimeTypeFilter, Draws, Chart
  <2>2. \A n \in Ids : panel'[n].kind = "spinner" => panel[n].kind = "spinner"
    BY <1>1, <2>1
  <2>. QED BY <2>1, <2>2, AwaitKept
<1>7. CASE Enter
  BY <1>1, <1>7, AwaitRendered DEF Enter
<1>8. CASE Leave
  <2>1. UNCHANGED task /\ \A m \in Ids : panel'[m].kind = "none"
    BY <1>8, Blanks DEF Leave
  <2>. QED BY <2>1, AwaitKept
<1>9. CASE Tick \/ SubmitAdd \/ BulkDeleteMonitors \/ \E m \in Ids : DeleteMonitor(m)
  <2>1. UNCHANGED panel /\ \E k : \E t \in Tasks : Begin(t, k)
    BY <1>9 DEF Tick, SubmitAdd, BulkDeleteMonitors, DeleteMonitor
  <2>. QED BY <1>1, <2>1, AwaitBegin
<1>10. CASE Round \/ Check \/ OpenAddMonitorModal \/ CancelAdd \/ UNCHANGED vars
            \/ \E m \in Ids : PingLands(m)
  BY <1>2, <1>10 DEF Round, Check, OpenAddMonitorModal, CancelAdd, vars, PingLands
<1>. QED BY <1>3, <1>4, <1>5, <1>6, <1>7, <1>8, <1>9, <1>10, AwaitLanded, AwaitToggled
         DEF Next, Answer

-----------------------------------------------------------------------------
\* Whatever is refreshed, deleted or added in between, and whichever drawing of
\* the page an answer was asked for by, the uptime page unfolds the monitors
\* the user unfolded, the bulk bar and the header's box follow the checked boxes,
\* and behind each "FETCHING HISTORICAL TELEMETRY LOGS..." is a request for that
\* monitor (renderUptime, toggleMonitorExpand, updateUptimeSelection).
THEOREM UptimeTheorem == Spec => []PageFollowsUser
<1>1. Init => FetchIsAwaited
  BY Blanks DEF Init, FetchIsAwaited
<1>2. IInv /\ FetchIsAwaited => PageFollowsUser
  BY IInvShows DEF PageFollowsUser
<1>. QED BY <1>1, <1>2, InitIInv, NextIInv, StepAwaited, PTL DEF Spec

=============================================================================
