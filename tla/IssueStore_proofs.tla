-------------------------- MODULE IssueStore_proofs --------------------------
(***************************************************************************)
(* For any number of events, fingerprints and users, batches of any size   *)
(* and any restarts: nothing in a project database dangles, and a flush    *)
(* neither stores a row for a suppressed issue, nor two of a repeat, nor   *)
(* a row it does not count.                                                *)
(***************************************************************************)
EXTENDS IssueStore, FiniteSetTheorems, WellFoundedInduction, TLAPS

-----------------------------------------------------------------------------
(* What Write does to the accumulator, field by field                      *)

Fields == {"issues", "rows", "payloads", "stacks", "rollups", "spam"}

\* Two accumulators differ in the issues and the spam cache alone.
SameRows(w, d) ==
    /\ w.rows = d.rows /\ w.payloads = d.payloads
    /\ w.stacks = d.stacks /\ w.rollups = d.rollups

Counted(is, f) == IF f \in DOMAIN is THEN [is EXCEPT ![f].count = @ + 1] ELSE is
Upserted(is, f) == WithIssue(Counted(is, f), f)

LEMMA CountFields ==
    ASSUME NEW d, DOMAIN d = Fields, NEW f
    PROVE  /\ DOMAIN Count(d, f) = Fields
           /\ SameRows(Count(d, f), d)
           /\ Count(d, f).spam = d.spam
           /\ Count(d, f).issues = Counted(d.issues, f)
BY DEF Count, Counted, Fields, SameRows

LEMMA StoreRowFields ==
    ASSUME NEW d, DOMAIN d = Fields, NEW e
    PROVE  LET w == StoreRow(d, e)
           IN  /\ DOMAIN w = Fields
               /\ w.issues = Upserted(d.issues, FpOf[e])
               /\ w.rows = d.rows \cup {e}
               /\ w.payloads = d.payloads \cup {PayloadOf[e]}
               /\ w.stacks = d.stacks \cup {FpOf[e]}
               /\ w.rollups = d.rollups
               /\ w.spam = d.spam
<1> DEFINE f == FpOf[e]
           c == Count(d, f)
           r1 == [c EXCEPT !.issues = Upserted(d.issues, f)]
           r2 == [r1 EXCEPT !.rows = d.rows \cup {e}]
           r3 == [r2 EXCEPT !.payloads = d.payloads \cup {PayloadOf[e]}]
           r4 == [r3 EXCEPT !.stacks = d.stacks \cup {f}]
<1>1. /\ DOMAIN c = Fields /\ SameRows(c, d) /\ c.spam = d.spam
      /\ c.issues = Counted(d.issues, f)
  BY CountFields
<1> HIDE DEF c
<1>2. StoreRow(d, e) = r4
  <2>1. WithIssue(c.issues, f) = Upserted(d.issues, f)
    BY <1>1 DEF Upserted
  <2>. QED BY <1>1, <2>1 DEF StoreRow, SameRows, Fields, c
<1>3. /\ DOMAIN r1 = Fields /\ r1.issues = Upserted(d.issues, f)
      /\ r1.rows = d.rows /\ r1.payloads = d.payloads /\ r1.stacks = d.stacks
      /\ r1.rollups = d.rollups /\ r1.spam = d.spam
  BY <1>1 DEF Fields, SameRows
<1> HIDE DEF r1
<1>4. /\ DOMAIN r2 = Fields /\ r2.issues = Upserted(d.issues, f)
      /\ r2.rows = d.rows \cup {e} /\ r2.payloads = d.payloads /\ r2.stacks = d.stacks
      /\ r2.rollups = d.rollups /\ r2.spam = d.spam
  BY <1>3 DEF Fields
<1> HIDE DEF r2
<1>5. /\ DOMAIN r3 = Fields /\ r3.issues = Upserted(d.issues, f)
      /\ r3.rows = d.rows \cup {e} /\ r3.payloads = d.payloads \cup {PayloadOf[e]}
      /\ r3.stacks = d.stacks /\ r3.rollups = d.rollups /\ r3.spam = d.spam
  BY <1>4 DEF Fields
<1> HIDE DEF r3
<1>6. /\ DOMAIN r4 = Fields /\ r4.issues = Upserted(d.issues, f)
      /\ r4.rows = d.rows \cup {e} /\ r4.payloads = d.payloads \cup {PayloadOf[e]}
      /\ r4.stacks = d.stacks \cup {f} /\ r4.rollups = d.rollups /\ r4.spam = d.spam
  BY <1>5 DEF Fields
<1> HIDE DEF r4
<1>. QED BY <1>2, <1>6

LEMMA AnalyticsFields ==
    ASSUME NEW d, DOMAIN d = Fields, NEW e
    PROVE  LET w == StoreAnalytics(d, e)
           IN  /\ DOMAIN w = Fields
               /\ w.issues = d.issues
               /\ w.rows = d.rows \cup {e}
               /\ w.payloads = d.payloads \cup {PayloadOf[e]}
               /\ w.stacks = d.stacks
               /\ w.rollups = d.rollups + 1
               /\ w.spam = d.spam
BY DEF StoreAnalytics, Fields

\* Write only counts an error, or stores a row for it.
Skips(d, e, silent) == Key(e) \in d.spam \/ FpOf[e] \in silent \/ e \in hot

LEMMA SkipFields ==
    ASSUME NEW d, DOMAIN d = Fields, NEW e, e \notin Analytics, NEW silent, NEW missed,
           Skips(d, e, silent)
    PROVE  LET w == Write(d, e, silent, missed)
           IN  /\ DOMAIN w = Fields
               /\ SameRows(w, d)
               /\ w.issues = d.issues \/ w.issues = Counted(d.issues, FpOf[e])
               /\ w.spam = d.spam \cup {Key(e)}
<1> DEFINE known == [d EXCEPT !.spam = d.spam \cup {Key(e)}]
<1>1. DOMAIN known = Fields /\ SameRows(known, d) /\ known.issues = d.issues
      /\ known.spam = d.spam \cup {Key(e)}
  BY DEF Fields, SameRows
<1>2. Write(d, e, silent, missed) = IF e \in missed THEN known ELSE Count(known, FpOf[e])
  BY DEF Write, Skips
<1> HIDE DEF known
<1>3. /\ DOMAIN Count(known, FpOf[e]) = Fields /\ SameRows(Count(known, FpOf[e]), known)
      /\ Count(known, FpOf[e]).spam = known.spam
      /\ Count(known, FpOf[e]).issues = Counted(known.issues, FpOf[e])
  BY <1>1, CountFields
<1>. QED BY <1>1, <1>2, <1>3 DEF SameRows

LEMMA KeepFields ==
    ASSUME NEW d, DOMAIN d = Fields, NEW e, e \notin Analytics, NEW silent, NEW missed,
           ~Skips(d, e, silent)
    PROVE  LET w == Write(d, e, silent, missed)
           IN  /\ DOMAIN w = Fields
               /\ w.issues = Upserted(d.issues, FpOf[e])
               /\ w.rows = d.rows \cup {e}
               /\ w.payloads = d.payloads \cup {PayloadOf[e]}
               /\ w.stacks = d.stacks \cup {FpOf[e]}
               /\ w.rollups = d.rollups
               /\ w.spam = d.spam \cup {Key(e)}
<1> DEFINE known == [d EXCEPT !.spam = d.spam \cup {Key(e)}]
<1>1. /\ DOMAIN known = Fields /\ SameRows(known, d) /\ known.issues = d.issues
      /\ known.spam = d.spam \cup {Key(e)}
  BY DEF Fields, SameRows
<1>2. Write(d, e, silent, missed) = StoreRow(known, e)
  BY DEF Write, Skips
<1> HIDE DEF known
<1>3. LET w == StoreRow(known, e)
      IN  /\ DOMAIN w = Fields
          /\ w.issues = Upserted(known.issues, FpOf[e])
          /\ w.rows = known.rows \cup {e}
          /\ w.payloads = known.payloads \cup {PayloadOf[e]}
          /\ w.stacks = known.stacks \cup {FpOf[e]}
          /\ w.rollups = known.rollups
          /\ w.spam = known.spam
  BY <1>1, StoreRowFields
<1>. QED BY <1>1, <1>2, <1>3 DEF SameRows

-----------------------------------------------------------------------------
(* Issues and rows                                                         *)

IssueRec == [count : Nat, users : Nat, suppressed : BOOLEAN, closed : BOOLEAN]
IssuesOK(is) == DOMAIN is \subseteq Fps /\ \A f \in DOMAIN is : is[f] \in IssueRec

LEMMA CountedOK ==
    ASSUME NEW is, IssuesOK(is), NEW f
    PROVE  /\ IssuesOK(Counted(is, f))
           /\ DOMAIN Counted(is, f) = DOMAIN is
           /\ \A g \in DOMAIN is :
                Counted(is, f)[g].count = is[g].count + (IF g = f THEN 1 ELSE 0)
BY DEF IssuesOK, IssueRec, Counted

LEMMA UpsertedOK ==
    ASSUME NEW is, IssuesOK(is), NEW f \in Fps
    PROVE  /\ IssuesOK(Upserted(is, f))
           /\ DOMAIN Upserted(is, f) = DOMAIN is \cup {f}
           /\ \A g \in DOMAIN is :
                Upserted(is, f)[g].count = is[g].count + (IF g = f THEN 1 ELSE 0)
<1>1. /\ IssuesOK(Counted(is, f))
      /\ DOMAIN Counted(is, f) = DOMAIN is
      /\ \A g \in DOMAIN is :
           Counted(is, f)[g].count = is[g].count + (IF g = f THEN 1 ELSE 0)
  BY CountedOK
<1>2. NewIssue \in IssueRec
  BY DEF NewIssue, IssueRec
<1>. QED BY <1>1, <1>2 DEF Upserted, WithIssue, IssuesOK

LEMMA RowsFinite ==
    ASSUME NEW R \in SUBSET Events, NEW f
    PROVE  IsFiniteSet(RowsOf(R, f)) /\ Cardinality(RowsOf(R, f)) \in Nat
<1>1. RowsOf(R, f) \in SUBSET Events /\ IsFiniteSet(Events)
  BY StoreAssumption DEF RowsOf
<1>. QED BY <1>1, FS_Subset, FS_CardinalityType

LEMMA RowsFewer ==
    ASSUME NEW R \in SUBSET Events, NEW S \in SUBSET R, NEW f
    PROVE  Cardinality(RowsOf(S, f)) <= Cardinality(RowsOf(R, f))
<1>1. RowsOf(S, f) \in SUBSET RowsOf(R, f)
  BY DEF RowsOf
<1>. QED BY <1>1, RowsFinite, FS_Subset

LEMMA RowsAdd ==
    ASSUME NEW R \in SUBSET Events, NEW e \in Events, NEW f
    PROVE  Cardinality(RowsOf(R \cup {e}, f)) <=
             Cardinality(RowsOf(R, f)) + (IF e \in Errors /\ FpOf[e] = f THEN 1 ELSE 0)
<1>1. IsFiniteSet(RowsOf(R, f)) /\ Cardinality(RowsOf(R, f)) \in Nat
  BY RowsFinite
<1>2. CASE e \in Errors /\ FpOf[e] = f
  <2>1. RowsOf(R \cup {e}, f) = RowsOf(R, f) \cup {e}
    BY <1>2 DEF RowsOf
  <2>2. Cardinality(RowsOf(R \cup {e}, f)) =
          IF e \in RowsOf(R, f) THEN Cardinality(RowsOf(R, f)) ELSE Cardinality(RowsOf(R, f)) + 1
    BY <1>1, <2>1, FS_AddElement
  <2>. QED BY <1>1, <1>2, <2>2
<1>3. CASE ~(e \in Errors /\ FpOf[e] = f)
  <2>1. RowsOf(R \cup {e}, f) = RowsOf(R, f)
    BY <1>3 DEF RowsOf
  <2>. QED BY <1>1, <1>3, <2>1
<1>. QED BY <1>2, <1>3

-----------------------------------------------------------------------------
(* The batch, event by event                                               *)

AccType(d) ==
    /\ DOMAIN d = Fields
    /\ IssuesOK(d.issues)
    /\ d.rows \subseteq Events
    /\ d.payloads \subseteq {PayloadOf[e] : e \in Events}
    /\ d.stacks \subseteq Fps
    /\ d.rollups \in Nat
    /\ d.spam \subseteq {Key(e) : e \in Errors}

\* Rows are only added, from the batch, and find what they refer to.
AccRefers(d) ==
    /\ rows \subseteq d.rows /\ d.rows \subseteq rows \cup ToSet(batch)
    /\ \A e \in d.rows \ stripped : PayloadOf[e] \in d.payloads
    /\ \A e \in d.rows \cap Errors : FpOf[e] \in DOMAIN d.issues /\ FpOf[e] \in d.stacks

\* A new row is of no silent issue unless it is deaf, its key is in the spam cache, and it is the
\* only one of its key.
AccNews(d, silent, deaf) ==
    /\ \A e \in (d.rows \ rows) \cap Errors :
          Key(e) \in d.spam /\ (FpOf[e] \notin silent \/ e \in deaf)
    /\ \A a, b \in (d.rows \ rows) \cap Errors : Key(a) = Key(b) => a = b

\* The issues there were are still there, and no row was added uncounted.
AccCounts(d) == \A f \in DOMAIN issues :
    /\ f \in DOMAIN d.issues
    /\ d.issues[f].count - Cardinality(RowsOf(d.rows, f)) >= Surplus(f)

AccInv(d, silent, deaf) == AccType(d) /\ AccRefers(d) /\ AccNews(d, silent, deaf) /\ AccCounts(d)

LEMMA CurrentInv ==
    ASSUME TypeOK, ReferencesResolve, NEW silent, NEW deaf
    PROVE  AccInv(Current, silent, deaf)
<1>1. /\ DOMAIN Current = Fields /\ Current.issues = issues /\ Current.rows = rows
      /\ Current.payloads = payloads /\ Current.stacks = stacks
      /\ Current.rollups = rollups /\ Current.spam = spam
  BY DEF Current, Fields
<1>2. AccType(Current)
  BY <1>1 DEF TypeOK, AccType, IssuesOK, IssueRec
<1>3. AccRefers(Current) /\ AccNews(Current, silent, deaf)
  BY <1>1 DEF AccRefers, AccNews, ReferencesResolve
<1>4. AccCounts(Current)
  <2>1. ASSUME NEW f \in DOMAIN issues PROVE Surplus(f) \in Int
    <3>1. issues[f].count \in Nat /\ Cardinality(RowsOf(rows, f)) \in Nat
      BY RowsFinite DEF TypeOK
    <3>. QED BY <3>1 DEF Surplus
  <2>. QED BY <1>1, <2>1 DEF AccCounts, Surplus
<1>. QED BY <1>2, <1>3, <1>4 DEF AccInv

\* What is counted stays counted: more counts, and at most one row more.
LEMMA CountsMove ==
    ASSUME TypeOK, NEW d, AccType(d), AccCounts(d), NEW w, AccType(w),
           DOMAIN d.issues \subseteq DOMAIN w.issues,
           \A f \in DOMAIN d.issues :
              w.issues[f].count - Cardinality(RowsOf(w.rows, f)) >=
                 d.issues[f].count - Cardinality(RowsOf(d.rows, f))
    PROVE  AccCounts(w)
<1> SUFFICES ASSUME NEW f \in DOMAIN issues
             PROVE  /\ f \in DOMAIN w.issues
                    /\ w.issues[f].count - Cardinality(RowsOf(w.rows, f)) >= Surplus(f)
  BY DEF AccCounts
<1>1. f \in DOMAIN d.issues /\ f \in DOMAIN w.issues
  BY DEF AccCounts
<1>2. d.issues[f].count \in Nat /\ w.issues[f].count \in Nat /\ issues[f].count \in Nat
  BY <1>1 DEF AccType, IssuesOK, IssueRec, TypeOK
<1>3. /\ Cardinality(RowsOf(w.rows, f)) \in Nat /\ Cardinality(RowsOf(d.rows, f)) \in Nat
      /\ Cardinality(RowsOf(rows, f)) \in Nat
  BY RowsFinite DEF AccType, TypeOK
<1>4. d.issues[f].count - Cardinality(RowsOf(d.rows, f)) >= Surplus(f)
  BY DEF AccCounts
<1>. QED BY <1>1, <1>2, <1>3, <1>4 DEF Surplus

LEMMA AnalyticsInv ==
    ASSUME TypeOK, NEW silent, NEW deaf, NEW missed, NEW d, AccInv(d, silent, deaf),
           NEW e \in ToSet(batch), e \in Analytics
    PROVE  AccInv(Write(d, e, SeenBy(e, silent, deaf), missed), silent, deaf)
<1> DEFINE w == Write(d, e, SeenBy(e, silent, deaf), missed)
<1>1. e \in Events /\ e \notin Errors
  BY StoreAssumption DEF Events
<1>2. /\ DOMAIN w = Fields /\ w.issues = d.issues /\ w.rows = d.rows \cup {e}
      /\ w.payloads = d.payloads \cup {PayloadOf[e]} /\ w.stacks = d.stacks
      /\ w.rollups = d.rollups + 1 /\ w.spam = d.spam
  BY AnalyticsFields DEF AccInv, AccType, Write
<1> HIDE DEF w
<1>3. AccType(w)
  BY <1>1, <1>2 DEF AccInv, AccType
<1>4. AccRefers(w)
  BY <1>1, <1>2 DEF AccInv, AccRefers
<1>5. AccNews(w, silent, deaf)
  BY <1>1, <1>2 DEF AccInv, AccNews
<1>6. AccCounts(w)
  <2>1. \A f : RowsOf(w.rows, f) = RowsOf(d.rows, f)
    BY <1>1, <1>2 DEF RowsOf
  <2>. QED BY <1>2, <2>1 DEF AccInv, AccCounts
<1>. QED BY <1>3, <1>4, <1>5, <1>6 DEF AccInv, w

LEMMA SkipInv ==
    ASSUME TypeOK, NEW silent, NEW deaf, NEW missed, NEW d, AccInv(d, silent, deaf),
           NEW e \in ToSet(batch), e \in Errors, Skips(d, e, SeenBy(e, silent, deaf))
    PROVE  AccInv(Write(d, e, SeenBy(e, silent, deaf), missed), silent, deaf)
<1> DEFINE w == Write(d, e, SeenBy(e, silent, deaf), missed)
<1>1. e \notin Analytics /\ AccType(d) /\ AccCounts(d) /\ IssuesOK(d.issues)
  BY StoreAssumption DEF AccInv, AccType
<1>2. /\ DOMAIN w = Fields /\ SameRows(w, d)
      /\ w.issues = d.issues \/ w.issues = Counted(d.issues, FpOf[e])
      /\ w.spam = d.spam \cup {Key(e)}
  BY <1>1, SkipFields DEF AccType
<1> HIDE DEF w
<1>3. /\ IssuesOK(w.issues) /\ DOMAIN w.issues = DOMAIN d.issues
      /\ \A g \in DOMAIN d.issues : w.issues[g].count \in Nat /\ d.issues[g].count \in Nat
                                    /\ w.issues[g].count >= d.issues[g].count
  <2>1. \A g \in DOMAIN d.issues : d.issues[g].count \in Nat
    BY <1>1 DEF IssuesOK, IssueRec
  <2>2. CASE w.issues = d.issues
    BY <1>1, <2>1, <2>2
  <2>3. CASE w.issues = Counted(d.issues, FpOf[e])
    <3>1. /\ IssuesOK(w.issues) /\ DOMAIN w.issues = DOMAIN d.issues
          /\ \A g \in DOMAIN d.issues :
               w.issues[g].count = d.issues[g].count + (IF g = FpOf[e] THEN 1 ELSE 0)
      BY <1>1, <2>3, CountedOK
    <3>. QED BY <2>1, <3>1
  <2>. QED BY <1>2, <2>2, <2>3
<1>4. AccType(w)
  BY <1>1, <1>2, <1>3 DEF AccType, SameRows
<1>5. AccRefers(w)
  BY <1>2, <1>3 DEF AccInv, AccRefers, SameRows
<1>6. AccNews(w, silent, deaf)
  BY <1>2 DEF AccInv, AccNews, SameRows
<1>7. AccCounts(w)
  <2>1. ASSUME NEW f \in DOMAIN d.issues
        PROVE  w.issues[f].count - Cardinality(RowsOf(w.rows, f)) >=
                 d.issues[f].count - Cardinality(RowsOf(d.rows, f))
    <3>1. w.rows = d.rows /\ Cardinality(RowsOf(d.rows, f)) \in Nat
      BY <1>1, <1>2, RowsFinite DEF AccType, SameRows
    <3>2. w.issues[f].count \in Nat /\ d.issues[f].count \in Nat
          /\ w.issues[f].count >= d.issues[f].count
      BY <1>3
    <3>. QED BY <3>1, <3>2
  <2>. QED BY <1>1, <1>3, <1>4, <2>1, CountsMove
<1>. QED BY <1>4, <1>5, <1>6, <1>7 DEF AccInv, w

LEMMA KeepInv ==
    ASSUME TypeOK, NEW silent, NEW deaf, NEW missed, NEW d, AccInv(d, silent, deaf),
           NEW e \in ToSet(batch), e \in Errors, ~Skips(d, e, SeenBy(e, silent, deaf))
    PROVE  AccInv(Write(d, e, SeenBy(e, silent, deaf), missed), silent, deaf)
<1> DEFINE w == Write(d, e, SeenBy(e, silent, deaf), missed)
           f == FpOf[e]
<1>1. /\ e \notin Analytics /\ e \in Events /\ f \in Fps
      /\ AccType(d) /\ AccCounts(d) /\ IssuesOK(d.issues)
  BY StoreAssumption DEF AccInv, AccType, Events
<1>2. /\ DOMAIN w = Fields /\ w.issues = Upserted(d.issues, f)
      /\ w.rows = d.rows \cup {e} /\ w.payloads = d.payloads \cup {PayloadOf[e]}
      /\ w.stacks = d.stacks \cup {f} /\ w.rollups = d.rollups
      /\ w.spam = d.spam \cup {Key(e)}
  BY <1>1, KeepFields DEF AccType
<1> HIDE DEF w
<1>3. /\ IssuesOK(w.issues)
      /\ DOMAIN w.issues = DOMAIN d.issues \cup {f}
      /\ \A g \in DOMAIN d.issues :
           w.issues[g].count = d.issues[g].count + (IF g = f THEN 1 ELSE 0)
  <2> HIDE DEF f
  <2>1. /\ IssuesOK(Upserted(d.issues, f))
        /\ DOMAIN Upserted(d.issues, f) = DOMAIN d.issues \cup {f}
        /\ \A g \in DOMAIN d.issues :
             Upserted(d.issues, f)[g].count = d.issues[g].count + (IF g = f THEN 1 ELSE 0)
    BY <1>1, UpsertedOK
  <2>. QED BY <1>2, <2>1
<1>4. AccType(w)
  BY <1>1, <1>2, <1>3 DEF AccType
<1>5. AccRefers(w)
  BY <1>2, <1>3 DEF AccInv, AccRefers
<1>6. AccNews(w, silent, deaf)
  <2>1. Key(e) \notin d.spam /\ (f \notin silent \/ e \in deaf)
    BY DEF Skips, SeenBy
  <2>2. \A a \in (w.rows \ rows) \cap Errors :
           a = e \/ (a \in (d.rows \ rows) \cap Errors /\ Key(a) \in d.spam)
    BY <1>2 DEF AccInv, AccNews
  <2>. QED BY <1>2, <2>1, <2>2 DEF AccInv, AccNews
<1>7. AccCounts(w)
  <2>1. ASSUME NEW g \in DOMAIN d.issues
        PROVE  w.issues[g].count - Cardinality(RowsOf(w.rows, g)) >=
                 d.issues[g].count - Cardinality(RowsOf(d.rows, g))
    <3>1. Cardinality(RowsOf(w.rows, g)) \in Nat /\ Cardinality(RowsOf(d.rows, g)) \in Nat
      BY <1>1, <1>4, RowsFinite DEF AccType
    <3>2. Cardinality(RowsOf(w.rows, g)) <=
             Cardinality(RowsOf(d.rows, g)) + (IF f = g THEN 1 ELSE 0)
      BY <1>1, <1>2, RowsAdd DEF AccType
    <3>3. d.issues[g].count \in Nat
      BY <1>1 DEF IssuesOK, IssueRec
    <3>. QED BY <1>3, <3>1, <3>2, <3>3
  <2>. QED BY <1>1, <1>3, <1>4, <2>1, CountsMove
<1>. QED BY <1>4, <1>5, <1>6, <1>7 DEF AccInv, w

\* One more event of the batch leaves all of it true.
LEMMA WriteInv ==
    ASSUME TypeOK, NEW silent, NEW deaf, NEW missed, NEW d, AccInv(d, silent, deaf),
           NEW e \in ToSet(batch)
    PROVE  AccInv(Write(d, e, SeenBy(e, silent, deaf), missed), silent, deaf)
<1>1. e \in Analytics \/ e \in Errors
  BY DEF TypeOK, Events, ToSet
<1>. QED BY <1>1, AnalyticsInv, SkipInv, KeepInv

\* The accumulators exist: what is defined by recursion up to n is so up to n + 1.
Step(d, e, silent, missed, deaf) == Write(d, e, SeenBy(e, silent, deaf), missed)
Sofar(n, silent, missed, deaf, a) ==
    a = [i \in 0 .. n |-> IF i = 0 THEN Current
                          ELSE Step(a[i - 1], batch[i], silent, missed, deaf)]

LEMMA WrittenExists ==
    ASSUME NEW silent, NEW deaf, NEW missed, NEW n \in Nat
    PROVE  \E a : Sofar(n, silent, missed, deaf, a)
<1> DEFINE bad == {m \in Nat : ~\E a : Sofar(m, silent, missed, deaf, a)}
<1> SUFFICES ASSUME bad # {} PROVE FALSE
  OBVIOUS
<1>1. PICK x \in bad : \A y \in bad : ~(y < x)
  <2>1. bad \subseteq Nat
    OBVIOUS
  <2> HIDE DEF bad
  <2>2. \E x \in bad : \A y \in bad : <<y, x>> \notin OpToRel(<, Nat)
    BY <2>1, NatLessThanWellFounded, WFMin
  <2>. QED BY <2>1, <2>2 DEF OpToRel
<1>2. x \in Nat /\ ~\E a : Sofar(x, silent, missed, deaf, a)
  OBVIOUS
<1>3. x # 0
  <2>1. Sofar(0, silent, missed, deaf, [i \in 0 .. 0 |-> Current])
    BY DEF Sofar
  <2>. QED BY <1>2, <2>1
<1>4. x - 1 \in Nat /\ x - 1 \notin bad
  BY <1>1, <1>2, <1>3
<1>5. PICK a : Sofar(x - 1, silent, missed, deaf, a)
  BY <1>4
<1> DEFINE b == [i \in 0 .. x |-> IF i = x THEN Step(a[x - 1], batch[x], silent, missed, deaf)
                                  ELSE a[i]]
<1>6. Sofar(x, silent, missed, deaf, b)
  <2>1. \A i \in 0 .. x : i # x => i \in 0 .. x - 1
    BY <1>2
  <2>2. \A i \in 0 .. x - 1 : a[i] = IF i = 0 THEN Current
                                     ELSE Step(a[i - 1], batch[i], silent, missed, deaf)
    BY <1>5 DEF Sofar
  <2>3. \A i \in 0 .. x : i # 0 => i - 1 \in 0 .. x /\ i - 1 # x
    BY <1>2
  <2>4. \A i \in 0 .. x : i # 0 => b[i - 1] = a[i - 1]
    BY <2>3
  <2>5. ASSUME NEW i \in 0 .. x
        PROVE  b[i] = IF i = 0 THEN Current ELSE Step(b[i - 1], batch[i], silent, missed, deaf)
    <3>1. CASE i = x
      BY <1>3, <2>4, <3>1
    <3>2. CASE i # x
      BY <2>1, <2>2, <2>4, <3>2
    <3>. QED BY <3>1, <3>2
  <2> HIDE DEF b
  <2>6. b = [i \in 0 .. x |-> b[i]]
    BY DEF b
  <2>. QED BY <2>5, <2>6 DEF Sofar
<1>. QED BY <1>2, <1>6

LEMMA WrittenSteps ==
    ASSUME TypeOK, NEW silent, NEW deaf, NEW missed
    PROVE  Sofar(Len(batch), silent, missed, deaf, Written(silent, missed, deaf))
<1>1. Len(batch) \in Nat
  BY DEF TypeOK
<1>2. \E a : Sofar(Len(batch), silent, missed, deaf, a)
  BY <1>1, WrittenExists
<1>. QED BY <1>2 DEF Written, Sofar, Step

\* What a flush commits keeps every reference, silence, key and count.
LEMMA WrittenInv ==
    ASSUME TypeOK, ReferencesResolve, NEW silent, NEW deaf, NEW missed
    PROVE  AccInv(Written(silent, missed, deaf)[Len(batch)], silent, deaf)
<1> DEFINE a == Written(silent, missed, deaf)
           bad == {m \in Nat : m <= Len(batch) /\ ~AccInv(a[m], silent, deaf)}
<1>1. Len(batch) \in Nat
  BY DEF TypeOK
<1>2. \A i \in 0 .. Len(batch) : a[i] = IF i = 0 THEN Current
                                        ELSE Step(a[i - 1], batch[i], silent, missed, deaf)
  <2>1. Sofar(Len(batch), silent, missed, deaf, a)
    BY WrittenSteps
  <2> HIDE DEF a
  <2>. QED BY <2>1 DEF Sofar
<1> HIDE DEF a
<1>3. SUFFICES ASSUME bad # {} PROVE FALSE
  BY <1>1 DEF a
<1>4. PICK x \in bad : \A y \in bad : ~(y < x)
  <2>1. bad \subseteq Nat
    OBVIOUS
  <2> HIDE DEF bad
  <2>2. \E x \in bad : \A y \in bad : <<y, x>> \notin OpToRel(<, Nat)
    BY <1>3, <2>1, NatLessThanWellFounded, WFMin
  <2>. QED BY <2>1, <2>2 DEF OpToRel
<1>5. x \in 0 .. Len(batch) /\ ~AccInv(a[x], silent, deaf)
  BY <1>1
<1>6. x # 0
  BY <1>2, <1>5, CurrentInv
<1>7. x - 1 \in Nat /\ x - 1 \notin bad /\ x - 1 <= Len(batch)
  BY <1>1, <1>4, <1>5, <1>6
<1>8. AccInv(a[x - 1], silent, deaf)
  BY <1>7
<1>9. batch[x] \in ToSet(batch)
  BY <1>1, <1>5, <1>6 DEF ToSet, TypeOK
<1>10. AccInv(Step(a[x - 1], batch[x], silent, missed, deaf), silent, deaf)
  BY <1>8, <1>9, WriteInv DEF Step
<1>. QED BY <1>2, <1>5, <1>6, <1>10

-----------------------------------------------------------------------------
(* What a flush commits                                                    *)

LEMMA ImageFinite ==
    ASSUME NEW S, IsFiniteSet(S), NEW g, DOMAIN g = S
    PROVE  IsFiniteSet({g[x] : x \in S}) /\ Cardinality({g[x] : x \in S}) \in Nat
<1> DEFINE T == {g[x] : x \in S}
           h == [x \in S |-> g[x]]
<1>1. h \in Surjection(S, T)
  BY DEF Surjection
<1> HIDE DEF T, h
<1>2. IsFiniteSet(T)
  BY <1>1, FS_Surjection
<1>. QED BY <1>2, FS_CardinalityType DEF T

LEMMA HwidsNat ==
    ASSUME NEW R \in SUBSET Events, NEW f
    PROVE  Hwids(R, f) \in Nat
<1> DEFINE S == RowsOf(R, f)
           g == [e \in S |-> Hwid(e)]
           T == {g[e] : e \in S}
<1>1. IsFiniteSet(T)
  <2>1. IsFiniteSet(S) /\ DOMAIN g = S
    BY RowsFinite
  <2> HIDE DEF S, g
  <2>. QED BY <2>1, ImageFinite
<1>2. T \ {NoUser} = {Hwid(e) : e \in RowsOf(R, f)} \ {NoUser}
  OBVIOUS
<1>3. IsFiniteSet(T \ {NoUser}) /\ Cardinality(T \ {NoUser}) \in Nat
  <2> HIDE DEF T
  <2>1. T \ {NoUser} \in SUBSET T
    OBVIOUS
  <2>. QED BY <1>1, <2>1, FS_Subset, FS_CardinalityType
<1>. QED BY <1>2, <1>3 DEF Hwids

LEMMA AddressesNat ==
    ASSUME NEW R \in SUBSET Events, NEW f
    PROVE  Addresses(R, f) \in Nat
<1> DEFINE S == RowsOf(R, f)
           g == [e \in S |-> Ip(e)]
           T == {g[e] : e \in S}
<1>1. Cardinality(T) \in Nat
  <2>1. IsFiniteSet(S) /\ DOMAIN g = S
    BY RowsFinite
  <2> HIDE DEF S, g
  <2>. QED BY <2>1, ImageFinite
<1>2. T = {Ip(e) : e \in RowsOf(R, f)}
  OBVIOUS
<1>. QED BY <1>1, <1>2 DEF Addresses

LEMMA RecountedOK ==
    ASSUME NEW d, AccType(d), NEW failed
    PROVE  /\ IssuesOK(Recounted(d, failed))
           /\ DOMAIN Recounted(d, failed) = DOMAIN d.issues
           /\ \A f \in DOMAIN d.issues : Recounted(d, failed)[f].count = d.issues[f].count
<1>1. IssuesOK(d.issues)
  BY DEF AccType
<1>2. \A f \in DOMAIN d.issues : Hwids(d.rows, f) \in Nat
  BY HwidsNat DEF AccType
<1>3. ASSUME NEW f \in DOMAIN d.issues
      PROVE  /\ Recounted(d, failed)[f] \in IssueRec
             /\ Recounted(d, failed)[f].count = d.issues[f].count
  <2>1. d.issues[f] \in IssueRec
    BY <1>1 DEF IssuesOK
  <2>2. /\ [d.issues[f] EXCEPT !.users = Hwids(d.rows, f)] \in IssueRec
        /\ [d.issues[f] EXCEPT !.users = Hwids(d.rows, f)].count = d.issues[f].count
    BY <1>2, <2>1 DEF IssueRec
  <2>. QED BY <2>1, <2>2 DEF Recounted
<1>4. DOMAIN Recounted(d, failed) = DOMAIN d.issues
  BY DEF Recounted
<1>. QED BY <1>1, <1>3, <1>4 DEF IssuesOK

\* A flush that commits writes by the suppressions of this very moment.
LEMMA Committing ==
    ASSUME StoreInv, NEW deaf, FlushCommit(deaf)
    PROVE  \E d : \E failed :
              /\ AccInv(d, Suppressed, deaf)
              /\ issues' = Recounted(d, failed) /\ rows' = d.rows
              /\ payloads' = d.payloads /\ stacks' = d.stacks
              /\ rollups' = d.rollups /\ spam' = d.spam
<1> DEFINE silent == IF flush = "read" THEN quiet ELSE Suppressed
<1>1. silent = Suppressed
  BY DEF FlushCommit, StoreInv, SnapshotHolds
<1>2. PICK missed, failed :
         LET d == Written(silent, missed, deaf)[Len(batch)]
         IN  /\ issues' = Recounted(d, failed) /\ rows' = d.rows
             /\ payloads' = d.payloads /\ stacks' = d.stacks
             /\ rollups' = d.rollups /\ spam' = d.spam
  BY DEF FlushCommit
<1>3. AccInv(Written(silent, missed, deaf)[Len(batch)], silent, deaf)
  BY WrittenInv DEF StoreInv
<1> HIDE DEF silent
<1>. QED BY <1>1, <1>2, <1>3

-----------------------------------------------------------------------------
(* The invariant, action by action                                         *)

LEMMA SnapshotKept ==
    ASSUME SnapshotHolds, Committed, UNCHANGED <<flush, quiet>>
    PROVE  SnapshotHolds'
BY DEF SnapshotHolds, Committed, tables, Suppressed

\* An issue is deleted only if no row refers to it.
LEMMA DropKeeps ==
    ASSUME TypeOK, NEW F, DropIssues(F)
    PROVE  /\ IssuesOK(issues') /\ DOMAIN issues' = DOMAIN issues \ F
           /\ \A f \in DOMAIN issues' : issues'[f] = issues[f]
BY DEF DropIssues, TypeOK, IssuesOK, IssueRec

LEMMA FlushCommitInv ==
    ASSUME StoreInv, NEW deaf, FlushCommit(deaf)
    PROVE  StoreInv'
<1>1. PICK d, failed : /\ AccInv(d, Suppressed, deaf)
                       /\ issues' = Recounted(d, failed) /\ rows' = d.rows
                       /\ payloads' = d.payloads /\ stacks' = d.stacks
                       /\ rollups' = d.rollups /\ spam' = d.spam
  BY Committing
<1>2. /\ flush' = "idle" /\ batch' = <<>> /\ hot' = {} /\ quiet' = {} /\ conflict' = FALSE
      /\ UNCHANGED <<masked, stripped, rpm, unsent, adminVars, restarts>>
  BY DEF FlushCommit, FlushOver
<1>3. AccType(d) /\ AccRefers(d)
  BY <1>1 DEF AccInv
<1>4. IssuesOK(issues') /\ DOMAIN issues' = DOMAIN d.issues
  BY <1>1, <1>3, RecountedOK
<1>5. TypeOK'
  <2>1. rows \subseteq rows' /\ rows' \subseteq rows \cup ToSet(batch)
    BY <1>1, <1>3 DEF AccRefers
  <2>2. ToSet(batch') = {} /\ batch' \in Seq(Events)
    BY <1>2 DEF ToSet
  <2>. QED BY <1>1, <1>2, <1>3, <1>4, <2>1, <2>2
              DEF StoreInv, TypeOK, AccType, IssuesOK, IssueRec, adminVars
<1>6. ReferencesResolve'
  BY <1>1, <1>2, <1>3, <1>4 DEF AccRefers, ReferencesResolve
<1>7. SnapshotHolds'
  BY <1>2 DEF SnapshotHolds
<1>. QED BY <1>5, <1>6, <1>7 DEF StoreInv

LEMMA FlushInv ==
    ASSUME StoreInv, FlushBegin \/ FlushRead \/ FlushFail
    PROVE  StoreInv'
<1>1. CASE FlushBegin
  <2>1. PICK b \in Batches :
           /\ IsInjective(b) /\ unsent' = unsent \ ToSet(b)
           /\ rpm' = [f \in Fps |-> rpm[f] + Cardinality(RowsOf(ToSet(b), f))]
           /\ \/ /\ flush' = "open" /\ batch' = b
                 /\ hot' = {b[i] : i \in {j \in DOMAIN b :
                              /\ b[j] \in Errors
                              /\ rpm[FpOf[b[j]]] + Ordinal(b, j) > BreakerLimit}}
              \/ UNCHANGED <<flush, batch, hot>>
    BY <1>1 DEF FlushBegin
  <2>2. b \in Seq(Events) /\ ToSet(b) \subseteq unsent /\ unsent \subseteq Events
    <3>1. PICK n \in 1 .. MaxBatch : b \in [1 .. n -> unsent]
      BY DEF Batches
    <3>2. unsent \subseteq Events /\ n \in Nat
      BY DEF StoreInv, TypeOK
    <3>3. b \in [1 .. n -> Events]
      BY <3>1, <3>2
    <3>. QED BY <3>1, <3>2, <3>3 DEF ToSet
  <2>3. rpm' \in [Fps -> Nat]
    <3>1. \A f \in Fps : Cardinality(RowsOf(ToSet(b), f)) \in Nat
      BY <2>2, RowsFinite
    <3>. QED BY <2>1, <3>1 DEF StoreInv, TypeOK
  <2>4. /\ flush' \in {"idle", "open"} /\ batch' \in Seq(Events) /\ hot' \subseteq Errors
        /\ unsent' \subseteq unsent /\ unsent' \cap ToSet(batch') = {}
        /\ ToSet(batch') \subseteq unsent \cup ToSet(batch) /\ rows \cap ToSet(batch') = {}
    BY <1>1, <2>1, <2>2 DEF FlushBegin, StoreInv, TypeOK
  <2>5. UNCHANGED <<tables, spam, quiet, conflict, adminVars, restarts>>
    BY <1>1 DEF FlushBegin
  <2>6. TypeOK'
    BY <2>3, <2>4, <2>5 DEF StoreInv, TypeOK, tables, adminVars
  <2>. QED BY <2>4, <2>5, <2>6 DEF StoreInv, ReferencesResolve, SnapshotHolds, tables
<1>2. CASE FlushRead
  <2>1. TypeOK'
    BY <1>2 DEF FlushRead, StoreInv, TypeOK, tables, caches, adminVars, Suppressed
  <2>. QED BY <1>2, <2>1 DEF FlushRead, StoreInv, ReferencesResolve, SnapshotHolds,
              Suppressed, tables
<1>3. CASE FlushFail
  <2>1. /\ flush' = "idle" /\ batch' = <<>> /\ hot' = {} /\ quiet' = {} /\ conflict' = FALSE
        /\ UNCHANGED <<tables, rpm, unsent, adminVars, restarts>>
        /\ spam' = spam \cup {Key(e) : e \in ToSet(batch) \cap Errors}
    BY <1>3 DEF FlushFail, FlushOver
  <2>2. ToSet(batch') = {} /\ batch' \in Seq(Events)
    BY <2>1 DEF ToSet
  <2>3. TypeOK'
    BY <2>1, <2>2 DEF StoreInv, TypeOK, tables, adminVars
  <2>. QED BY <2>1, <2>3 DEF StoreInv, ReferencesResolve, SnapshotHolds, tables
<1>. QED BY <1>1, <1>2, <1>3

\* Rows that go take their masks and flags with them.
LEMMA DeleteRowsInv ==
    ASSUME StoreInv, NEW S, DeleteRows(S), Committed,
           UNCHANGED <<issues, payloads, stacks, rollups, caches, flushVars, restarts>>,
           cleaner' \in CleanerStages, deleting' \in Fps \cup {NoFp},
           recount' \in [at : RecountStages, fp : Fps \cup {NoFp}, count : Nat, users : Nat]
    PROVE  StoreInv'
<1>1. TypeOK'
  BY DEF StoreInv, TypeOK, DeleteRows, caches, flushVars, Committed
<1>2. ReferencesResolve'
  BY DEF StoreInv, ReferencesResolve, DeleteRows
<1>3. SnapshotHolds'
  BY SnapshotKept DEF StoreInv, flushVars
<1>. QED BY <1>1, <1>2, <1>3 DEF StoreInv

\* An issue goes when no row refers to it, and not before.
LEMMA DropIssuesInv ==
    ASSUME StoreInv, NEW F, DropIssues(F), \A f \in F : RowsOf(rows, f) = {}, Committed,
           UNCHANGED <<rows, masked, stripped, payloads, stacks, rollups, caches, flushVars,
                       restarts>>,
           cleaner' \in CleanerStages, deleting' \in Fps \cup {NoFp},
           recount' \in [at : RecountStages, fp : Fps \cup {NoFp}, count : Nat, users : Nat]
    PROVE  StoreInv'
<1>1. IssuesOK(issues') /\ DOMAIN issues' = DOMAIN issues \ F
  BY DropKeeps DEF StoreInv
<1>2. TypeOK'
  BY <1>1 DEF StoreInv, TypeOK, IssuesOK, IssueRec, caches, flushVars, Committed
<1>3. ReferencesResolve'
  <2>1. \A e \in rows \cap Errors : FpOf[e] \notin F
    BY DEF RowsOf
  <2>. QED BY <1>1, <2>1 DEF StoreInv, ReferencesResolve
<1>4. SnapshotHolds'
  BY SnapshotKept DEF StoreInv, flushVars
<1>. QED BY <1>2, <1>3, <1>4 DEF StoreInv

LEMMA CacheInv ==
    ASSUME StoreInv, \/ \E k \in spam : SpamExpires(k)
                     \/ \E f \in Fps : RpmExpires(f)
                     \/ SessionRow
    PROVE  StoreInv'
<1>1. TypeOK'
  <2>1. CASE \E k \in spam : SpamExpires(k)
    BY <2>1 DEF StoreInv, TypeOK, SpamExpires, tables, flushVars, adminVars
  <2>2. CASE \E f \in Fps : RpmExpires(f)
    BY <2>2 DEF StoreInv, TypeOK, RpmExpires, tables, flushVars, adminVars
  <2>3. CASE SessionRow
    BY <2>3 DEF StoreInv, TypeOK, SessionRow, tables, caches, flushVars, adminVars
  <2>. QED BY <2>1, <2>2, <2>3
<1>2. ReferencesResolve'
  BY DEF StoreInv, ReferencesResolve, SpamExpires, RpmExpires, SessionRow, tables
<1>3. SnapshotHolds'
  BY DEF StoreInv, SnapshotHolds, Suppressed, SpamExpires, RpmExpires, SessionRow, tables, flushVars
<1>. QED BY <1>1, <1>2, <1>3 DEF StoreInv

LEMMA TriageInv ==
    ASSUME StoreInv, TriageStep
    PROVE  StoreInv'
<1> USE DEF StoreInv
<1>1. ASSUME NEW f \in Fps, UpdateIssue(f) PROVE StoreInv'
  <2>1. PICK s \in BOOLEAN, c \in BOOLEAN :
           issues' = [issues EXCEPT ![f].suppressed = s, ![f].closed = c]
    BY <1>1 DEF UpdateIssue
  <2>2. IssuesOK(issues') /\ DOMAIN issues' = DOMAIN issues
    BY <2>1 DEF TypeOK, IssuesOK, IssueRec
  <2>3. /\ UNCHANGED <<rows, masked, stripped, payloads, stacks, rollups, caches,
                       flushVars, adminVars, restarts>>
        /\ Committed
    BY <1>1 DEF UpdateIssue
  <2>4. TypeOK'
    BY <2>2, <2>3 DEF TypeOK, IssuesOK, IssueRec, caches, flushVars, adminVars, Committed
  <2>5. ReferencesResolve'
    BY <2>2, <2>3 DEF ReferencesResolve
  <2>6. SnapshotHolds'
    BY <2>3, SnapshotKept DEF flushVars
  <2>. QED BY <2>4, <2>5, <2>6
<1>2. ASSUME NEW f \in Fps, DeleteIssueRows(f) PROVE StoreInv'
  BY <1>2, DeleteRowsInv DEF DeleteIssueRows, TypeOK
<1>3. CASE DeleteIssueEnd
  <2>1. \A f \in {g \in {deleting} : Unreferenced(g)} : RowsOf(rows, f) = {}
    BY DEF Unreferenced
  <2>. QED BY <1>3, <2>1, DropIssuesInv DEF DeleteIssueEnd, TypeOK
<1>4. CASE ClearProject
  <2>1. /\ DeleteRows(rows) /\ DropIssues(Fps) /\ Committed
        /\ UNCHANGED <<payloads, stacks, rollups, caches, flushVars, adminVars, restarts>>
    BY <1>4 DEF ClearProject
  <2>2. IssuesOK(issues') /\ rows' = {}
    BY <2>1, DropKeeps DEF DeleteRows
  <2>3. TypeOK'
    BY <2>1, <2>2 DEF TypeOK, IssuesOK, IssueRec, DeleteRows, caches, flushVars, adminVars, Committed
  <2>4. ReferencesResolve'
    BY <2>2 DEF ReferencesResolve
  <2>5. SnapshotHolds'
    BY <2>1, SnapshotKept DEF flushVars
  <2>. QED BY <2>3, <2>4, <2>5
<1>. QED BY <1>1, <1>2, <1>3, <1>4 DEF TriageStep

LEMMA RecountInv ==
    ASSUME StoreInv, RecountStep
    PROVE  StoreInv'
<1> USE DEF StoreInv
<1> DEFINE Recounts == [at : RecountStages, fp : Fps \cup {NoFp}, count : Nat, users : Nat]
<1>0. recount \in Recounts /\ NotDeleting \in Recounts /\ cleaner \in CleanerStages
      /\ deleting \in Fps \cup {NoFp}
  BY DEF TypeOK, NotDeleting, RecountStages
<1>1. ASSUME NEW e \in Events, DeleteEvent(e) PROVE StoreInv'
  <2>1. recount' \in Recounts
    <3>1. e \in Errors => [NotDeleting EXCEPT !.at = "count", !.fp = FpOf[e]] \in Recounts
      BY StoreAssumption DEF NotDeleting, RecountStages
    <3>. QED BY <1>0, <1>1, <3>1 DEF DeleteEvent
  <2>. QED BY <1>0, <1>1, <2>1, DeleteRowsInv DEF DeleteEvent
<1>2. CASE RecountRows \/ RecountUsers
  <2>1. recount' \in Recounts
    <3>1. /\ Cardinality(RowsOf(rows, recount.fp)) \in Nat
          /\ Addresses(rows, recount.fp) \in Nat
      BY RowsFinite, AddressesNat DEF TypeOK
    <3>. QED BY <1>0, <1>2, <3>1 DEF RecountRows, RecountUsers, RecountStages
  <2>2. UNCHANGED <<tables, caches, flushVars, conflict, cleaner, deleting, restarts>>
    BY <1>2 DEF RecountRows, RecountUsers
  <2>3. TypeOK'
    BY <2>1, <2>2 DEF TypeOK, tables, caches, flushVars
  <2>. QED BY <2>2, <2>3 DEF ReferencesResolve, SnapshotHolds, Suppressed, tables, flushVars
<1>3. CASE RecountDrop
  <2>1. \A f \in {g \in {recount.fp} : Unreferenced(g)} : RowsOf(rows, f) = {}
    BY DEF Unreferenced
  <2>. QED BY <1>0, <1>3, <2>1, DropIssuesInv DEF RecountDrop
<1>4. CASE RecountUpdate
  <2>1. /\ recount' = NotDeleting /\ Committed
        /\ UNCHANGED <<rows, masked, stripped, payloads, stacks, rollups, caches,
                       flushVars, cleaner, deleting, restarts>>
    BY <1>4 DEF RecountUpdate
  <2>2. recount.count \in Nat /\ recount.users \in Nat
    BY <1>0
  <2>3. IssuesOK(issues') /\ DOMAIN issues' = DOMAIN issues
    <3>1. IssuesOK(issues)
      BY DEF TypeOK, IssuesOK, IssueRec
    <3>2. CASE recount.fp \in DOMAIN issues
      <4>1. issues' = [issues EXCEPT ![recount.fp].count = recount.count,
                                     ![recount.fp].users = recount.users]
        BY <1>4, <3>2 DEF RecountUpdate
      <4>2. issues'[recount.fp] =
              [issues[recount.fp] EXCEPT !.count = recount.count, !.users = recount.users]
        BY <3>2, <4>1
      <4>3. issues[recount.fp] \in IssueRec
        BY <3>1, <3>2 DEF IssuesOK
      <4>4. issues'[recount.fp] \in IssueRec
        BY <2>2, <4>2, <4>3 DEF IssueRec
      <4>. QED BY <3>1, <4>1, <4>4 DEF IssuesOK
    <3>3. CASE recount.fp \notin DOMAIN issues
      BY <1>4, <3>1, <3>3 DEF RecountUpdate
    <3>. QED BY <3>2, <3>3
  <2>4. TypeOK'
    BY <1>0, <2>1, <2>3 DEF TypeOK, IssuesOK, IssueRec, caches, flushVars, Committed
  <2>5. ReferencesResolve'
    BY <2>1, <2>3 DEF ReferencesResolve
  <2>6. SnapshotHolds'
    BY <2>1, SnapshotKept DEF flushVars
  <2>. QED BY <2>4, <2>5, <2>6
<1>. QED BY <1>1, <1>2, <1>3, <1>4 DEF RecountStep

LEMMA CleanInv ==
    ASSUME StoreInv, CleanStep
    PROVE  StoreInv'
<1> USE DEF StoreInv
<1>1. ASSUME NEW old \in SUBSET rows, CleanClosed(old) \/ CleanExpired(old) PROVE StoreInv'
  <2>1. /\ CleanerKeeps /\ UNCHANGED <<issues, payloads, stacks, rollups>> /\ Committed
        /\ \E S : DeleteRows(S)
        /\ cleaner' \in {"expired", "mask"}
    BY <1>1 DEF CleanClosed, CleanExpired, CleanerDoes
  <2>2. cleaner' \in CleanerStages /\ deleting' \in Fps \cup {NoFp}
        /\ recount' \in [at : RecountStages, fp : Fps \cup {NoFp}, count : Nat, users : Nat]
    BY <2>1 DEF CleanerStages, CleanerKeeps, TypeOK
  <2>. QED BY <2>1, <2>2, DeleteRowsInv DEF CleanerKeeps
<1>2. ASSUME CleanBegin \/ CleanMaskEnd \/ CleanVacuum PROVE StoreInv'
  <2>1. /\ CleanerKeeps /\ UNCHANGED tables /\ cleaner' \in CleanerStages
        /\ conflict' \in {conflict, flush = "read"}
    BY <1>2 DEF CleanBegin, CleanMaskEnd, CleanVacuum, CleanerDoes, CleanerStages
  <2>2. TypeOK'
    BY <2>1 DEF TypeOK, tables, CleanerKeeps, caches, flushVars
  <2>. QED BY <2>1, <2>2 DEF ReferencesResolve, SnapshotHolds, Suppressed, tables, CleanerKeeps,
              flushVars
<1>3. ASSUME \/ \E old \in SUBSET rows : CleanStrip(old)
             \/ \E e \in Events : CleanMask(e)
             \/ CleanPayloads \/ CleanStacks
      PROVE  StoreInv'
  <2>1. /\ CleanerKeeps /\ Committed /\ UNCHANGED <<issues, rows, rollups>>
        /\ cleaner' \in CleanerStages
    BY <1>3 DEF CleanStrip, CleanMask, CleanPayloads, CleanStacks, CleanerDoes, CleanerStages,
       TypeOK
  <2>2. /\ masked' \subseteq rows /\ stripped \subseteq stripped'
        /\ stripped' \subseteq rows \cap Analytics
        /\ payloads' \subseteq payloads /\ stacks' \subseteq stacks
    BY <1>3 DEF CleanStrip, CleanMask, CleanPayloads, CleanStacks, TypeOK
  <2>3. TypeOK'
    BY <2>1, <2>2 DEF TypeOK, CleanerKeeps, caches, flushVars, Committed
  <2>4. \A e \in rows' \ stripped' : PayloadOf[e] \in payloads'
    BY <1>3, <2>1, <2>2 DEF ReferencesResolve, CleanStrip, CleanMask, CleanPayloads, CleanStacks
  <2>5. \A e \in rows' \cap Errors : FpOf[e] \in stacks'
    BY <1>3, <2>1, <2>2 DEF ReferencesResolve, CleanStrip, CleanMask, CleanPayloads, CleanStacks
  <2>6. SnapshotHolds'
    BY <2>1, SnapshotKept DEF CleanerKeeps, flushVars
  <2>. QED BY <2>1, <2>3, <2>4, <2>5, <2>6 DEF ReferencesResolve
<1>. QED BY <1>1, <1>2, <1>3 DEF CleanStep

LEMMA RestartInv ==
    ASSUME StoreInv, Restart
    PROVE  StoreInv'
<1> USE DEF StoreInv
<1> DEFINE F == {f \in Fps : Unreferenced(f)}
<1>1. /\ restarts < MaxRestarts /\ restarts' = restarts + 1 /\ DropIssues(F)
      /\ spam' = {} /\ rpm' = [f \in Fps |-> 0]
      /\ flush' = "idle" /\ batch' = <<>> /\ hot' = {} /\ quiet' = {} /\ conflict' = FALSE
      /\ cleaner' = "idle" /\ deleting' = NoFp /\ recount' = NotDeleting
      /\ UNCHANGED <<rows, masked, stripped, payloads, stacks, rollups, unsent>>
  BY DEF Restart, FlushOver
<1>2. \A f \in F : RowsOf(rows, f) = {}
  BY DEF Unreferenced
<1> HIDE DEF F
<1>3. IssuesOK(issues') /\ DOMAIN issues' = DOMAIN issues \ F
  BY <1>1, DropKeeps
<1>4. ToSet(batch') = {} /\ batch' \in Seq(Events)
  BY <1>1 DEF ToSet
<1>5. recount' \in [at : RecountStages, fp : Fps \cup {NoFp}, count : Nat, users : Nat]
      /\ cleaner' \in CleanerStages /\ restarts' \in 0 .. MaxRestarts
  BY <1>1, StoreAssumption DEF NotDeleting, RecountStages, CleanerStages, TypeOK
<1>6. TypeOK'
  BY <1>1, <1>3, <1>4, <1>5 DEF TypeOK, IssuesOK, IssueRec
<1>7. ReferencesResolve'
  <2>1. \A e \in rows \cap Errors : FpOf[e] \notin F
    BY <1>2 DEF RowsOf
  <2>. QED BY <1>1, <1>3, <2>1 DEF ReferencesResolve
<1>8. SnapshotHolds'
  BY <1>1 DEF SnapshotHolds
<1>. QED BY <1>6, <1>7, <1>8

LEMMA InitInv == Init => StoreInv
<1> SUFFICES ASSUME Init PROVE StoreInv
  OBVIOUS
<1>1. ToSet(batch) = {} /\ batch \in Seq(Events)
  BY DEF Init, ToSet
<1>2. recount \in [at : RecountStages, fp : Fps \cup {NoFp}, count : Nat, users : Nat]
  BY DEF Init, NotDeleting, RecountStages
<1>3. TypeOK
  <2>1. DOMAIN issues = {} /\ rpm \in [Fps -> Nat] /\ unsent \in SUBSET Events
        /\ rows = {} /\ masked = {} /\ stripped = {} /\ payloads = {} /\ stacks = {}
        /\ rollups = 0 /\ spam = {} /\ hot = {} /\ quiet = {} /\ conflict = FALSE
        /\ flush = "idle" /\ cleaner = "idle" /\ deleting = NoFp /\ restarts = 0
    BY DEF Init
  <2>2. restarts \in 0 .. MaxRestarts /\ cleaner \in CleanerStages
    BY <2>1, StoreAssumption DEF CleanerStages
  <2>. QED BY <1>1, <1>2, <2>1, <2>2 DEF TypeOK
<1>. QED BY <1>3 DEF Init, StoreInv, ReferencesResolve, SnapshotHolds

LEMMA NextInv == StoreInv /\ [Next]_vars => StoreInv'
<1> SUFFICES ASSUME StoreInv, [Next]_vars PROVE StoreInv'
  OBVIOUS
<1>1. CASE FlushStep
  BY <1>1, FlushInv, FlushCommitInv DEF FlushStep
<1>2. CASE (\E k \in spam : SpamExpires(k)) \/ (\E f \in Fps : RpmExpires(f)) \/ SessionRow
  BY <1>2, CacheInv
<1>3. CASE TriageStep  BY <1>3, TriageInv
<1>4. CASE RecountStep  BY <1>4, RecountInv
<1>5. CASE CleanStep  BY <1>5, CleanInv
<1>6. CASE Restart  BY <1>6, RestartInv
<1>7. CASE UNCHANGED vars
  <2>1. TypeOK'
    BY <1>7 DEF StoreInv, TypeOK, vars, tables, caches, flushVars, adminVars
  <2>. QED BY <1>7, <2>1 DEF StoreInv, ReferencesResolve, SnapshotHolds, Suppressed, vars, tables,
              flushVars
<1>. QED BY <1>1, <1>2, <1>3, <1>4, <1>5, <1>6, <1>7 DEF Next

\* Whatever flushes, triage, deletions, retention and restarts interleave: a
\* row finds its payload, its issue and its stack trace.
THEOREM StoreTheorem == Spec => []StoreInv
BY InitInv, NextInv, PTL DEF Spec

-----------------------------------------------------------------------------
(* What a step may never do                                                *)

Commits == \E deaf \in DeafSets : FlushCommit(deaf)

\* Only a committed flush adds rows.
LEMMA OthersAddNoRow ==
    ASSUME StoreInv, Next, ~Commits
    PROVE  rows' \subseteq rows
<1>1. CASE FlushStep
  BY <1>1 DEF FlushStep, Commits, FlushBegin, FlushRead, FlushFail, tables
<1>2. CASE (\E k \in spam : SpamExpires(k)) \/ (\E f \in Fps : RpmExpires(f)) \/ SessionRow
  BY <1>2 DEF SpamExpires, RpmExpires, SessionRow, tables
<1>3. CASE TriageStep
  BY <1>3 DEF TriageStep, UpdateIssue, DeleteIssueRows, DeleteIssueEnd, ClearProject, DeleteRows
<1>4. CASE RecountStep
  BY <1>4 DEF RecountStep, DeleteEvent, RecountRows, RecountUsers, RecountDrop, RecountUpdate,
              DeleteRows, tables
<1>5. CASE CleanStep
  BY <1>5 DEF CleanStep, CleanBegin, CleanStrip, CleanClosed, CleanExpired, CleanMask,
              CleanMaskEnd, CleanPayloads, CleanStacks, CleanVacuum, DeleteRows, tables
<1>6. CASE Restart
  BY <1>6 DEF Restart
<1>. QED BY <1>1, <1>2, <1>3, <1>4, <1>5, <1>6 DEF Next

\* The issues suppressed when a flush commits gain no row from it, although it
\* asked for the suppressions before it had the write lock; an event whose own
\* question failed may.
THEOREM SuppressionTheorem == Spec => SuppressedGainsNoRow
<1> DEFINE Silent == \A deaf \in DeafSets :
              (\E e \in (rows' \ rows) \cap (Errors \ deaf) : FpOf[e] \in Suppressed)
                  => ~FlushCommit(deaf)
<1>1. ASSUME StoreInv, NEW deaf, FlushCommit(deaf)
      PROVE  \A e \in (rows' \ rows) \cap (Errors \ deaf) : FpOf[e] \notin Suppressed
  BY <1>1, Committing DEF AccInv, AccNews
<1>2. StoreInv /\ [Next]_vars => [Silent]_vars
  BY <1>1
<1>. QED BY <1>2, StoreTheorem, PTL DEF Spec, SuppressedGainsNoRow

\* A batch with the same error of the same user many times leaves one row.
THEOREM OneRowTheorem == Spec => OneRowPerUser
<1>1. ASSUME StoreInv, Next
      PROVE  \A d, e \in (rows' \ rows) \cap Errors : Key(d) = Key(e) => d = e
  <2>1. CASE Commits
    BY <1>1, <2>1, Committing DEF Commits, AccInv, AccNews
  <2>2. CASE ~Commits
    BY <1>1, <2>2, OthersAddNoRow
  <2>. QED BY <2>1, <2>2
<1>2. StoreInv /\ [Next]_vars
        => [\A d, e \in (rows' \ rows) \cap Errors : Key(d) = Key(e) => d = e]_vars
  BY <1>1
<1>. QED BY <1>2, StoreTheorem, PTL DEF Spec, OneRowPerUser

\* Whatever does not touch a count may only take rows away.
LEMMA FewerRowsKeepSurplus ==
    ASSUME StoreInv, rows' \subseteq rows, NEW f \in DOMAIN issues, f \in DOMAIN issues',
           issues'[f].count = issues[f].count
    PROVE  Surplus(f)' >= Surplus(f)
<1>1. /\ issues[f].count \in Nat /\ rows \in SUBSET Events /\ rows' \in SUBSET rows
      /\ rows' \in SUBSET Events
  BY DEF StoreInv, TypeOK
<1>2. /\ Cardinality(RowsOf(rows, f)) \in Nat /\ Cardinality(RowsOf(rows', f)) \in Nat
      /\ Cardinality(RowsOf(rows', f)) <= Cardinality(RowsOf(rows, f))
  BY <1>1, RowsFinite, RowsFewer
<1>3. Surplus(f)' = issues'[f].count - Cardinality(RowsOf(rows', f))
  BY DEF Surplus, RowsOf
<1>. QED BY <1>1, <1>2, <1>3 DEF Surplus

LEMMA CommitKeepsSurplus ==
    ASSUME StoreInv, NEW deaf, FlushCommit(deaf), NEW f \in DOMAIN issues
    PROVE  Surplus(f)' >= Surplus(f)
<1>1. PICK d, failed : /\ AccInv(d, Suppressed, deaf)
                       /\ issues' = Recounted(d, failed) /\ rows' = d.rows
  BY Committing
<1>2. f \in DOMAIN d.issues
      /\ d.issues[f].count - Cardinality(RowsOf(d.rows, f)) >= Surplus(f)
  BY <1>1 DEF AccInv, AccCounts
<1>3. issues'[f].count = d.issues[f].count
  BY <1>1, <1>2, RecountedOK DEF AccInv
<1>4. Surplus(f)' = issues'[f].count - Cardinality(RowsOf(rows', f))
  BY DEF Surplus, RowsOf
<1>. QED BY <1>1, <1>2, <1>3, <1>4

\* Only a flush and delete_event's UPDATE change a count.
LEMMA OthersCountNothing ==
    ASSUME StoreInv, Next, ~Commits, recount.at # "update",
           NEW f \in DOMAIN issues, f \in DOMAIN issues'
    PROVE  issues'[f].count = issues[f].count
<1>0. ASSUME NEW F, DropIssues(F) PROVE issues'[f].count = issues[f].count
  BY <1>0, DropKeeps DEF StoreInv
<1>1. CASE FlushStep
  BY <1>1 DEF FlushStep, Commits, FlushBegin, FlushRead, FlushFail, tables
<1>2. CASE (\E k \in spam : SpamExpires(k)) \/ (\E g \in Fps : RpmExpires(g)) \/ SessionRow
  BY <1>2 DEF SpamExpires, RpmExpires, SessionRow, tables
<1>3. CASE TriageStep
  <2>1. ASSUME NEW g \in Fps, UpdateIssue(g) PROVE issues'[f].count = issues[f].count
    <3>1. PICK s \in BOOLEAN, c \in BOOLEAN :
             issues' = [issues EXCEPT ![g].suppressed = s, ![g].closed = c]
      BY <2>1 DEF UpdateIssue
    <3>2. issues[f] \in IssueRec
      BY DEF StoreInv, TypeOK, IssueRec
    <3>. QED BY <3>1, <3>2 DEF IssueRec
  <2>. QED BY <1>0, <1>3, <2>1 DEF TriageStep, DeleteIssueRows, DeleteIssueEnd, ClearProject
<1>4. CASE RecountStep
  BY <1>0, <1>4 DEF RecountStep, DeleteEvent, RecountRows, RecountUsers, RecountDrop,
                    RecountUpdate, tables
<1>5. CASE CleanStep
  BY <1>5 DEF CleanStep, CleanBegin, CleanStrip, CleanClosed, CleanExpired, CleanMask,
              CleanMaskEnd, CleanPayloads, CleanStacks, CleanVacuum, tables
<1>6. CASE Restart
  BY <1>0, <1>6 DEF Restart
<1>. QED BY <1>1, <1>2, <1>3, <1>4, <1>5, <1>6 DEF Next

\* No step but delete_event's UPDATE makes an issue claim fewer occurrences
\* than it has rows: a flush counts what it stores, in whatever order.
THEOREM SurplusTheorem == Spec => SurplusNeverShrinks
<1>1. ASSUME StoreInv, Next, NEW f \in DOMAIN issues \cap DOMAIN issues'
      PROVE  Surplus(f)' >= Surplus(f) \/ recount.at = "update"
  <2>1. CASE Commits
    BY <1>1, <2>1, CommitKeepsSurplus DEF Commits
  <2>2. CASE ~Commits /\ recount.at # "update"
    BY <1>1, <2>2, OthersAddNoRow, OthersCountNothing, FewerRowsKeepSurplus
  <2>. QED BY <2>1, <2>2
<1>2. StoreInv /\ [Next]_vars
        => [\A f \in DOMAIN issues \cap DOMAIN issues' :
               Surplus(f)' >= Surplus(f) \/ recount.at = "update"]_vars
  BY <1>1
<1>. QED BY <1>2, StoreTheorem, PTL DEF Spec, SurplusNeverShrinks
=============================================================================
