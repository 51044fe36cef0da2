----------------------------- MODULE IssueStore -----------------------------
(***************************************************************************)
(* One project database: what flush_batch writes into it, and what the     *)
(* triage handlers, the explorer's delete_event, perform_compression and a *)
(* restart do to it in between.                                            *)
(*                                                                         *)
(* flush_batch runs in one deferred transaction, everything else in        *)
(* autocommitted statements that interleave with it.  SQLite in WAL mode   *)
(* gives the transaction the snapshot of its first statement; if that      *)
(* statement only read, and another connection commits before the first    *)
(* write, each write of the transaction fails (SQLITE_BUSY_SNAPSHOT).  The *)
(* two caches of the worker, spam and rpm, are not part of the transaction.*)
(*                                                                         *)
(* Event contents are reduced to what the tables key on.  How old a row is *)
(* is left open: a retention statement takes any set of rows.              *)
(***************************************************************************)
EXTENDS Integers, Sequences, FiniteSets, SequencesExt

CONSTANTS
    Errors,             \* error reports, each with an id of its own
    Analytics,          \* posthog events
    Fps,                \* fingerprints, the keys of issues and stack_traces
    FpOf,               \* of an error report
    UserOf,             \* hwid of an event, or NoUser (NULL)
    IpOf,               \* ip_address of an event
    MaskIp,             \* mask_ip, on addresses
    PayloadOf,          \* payload_hash of an event
    NoUser, Redacted,   \* a hwid of NULL, and the hwid 'REDACTED'
    NoFp,               \* not a fingerprint: delete_event is idle
    BreakerLimit,       \* 100 in the code
    MaxBatch,           \* bound on the size of a project's batch
    MaxRestarts,        \* bound on the number of restarts
    StatementMayFail    \* may an UPDATE of count or users, or the SELECT of
                        \* is_suppressed, fail on its own?

Events == Errors \cup Analytics

ASSUME StoreAssumption ==
    /\ IsFiniteSet(Events)
    /\ Errors \cap Analytics = {}
    /\ FpOf \in [Errors -> Fps]
    /\ NoFp \notin Fps
    /\ {IpOf[e] : e \in Events} \subseteq DOMAIN MaskIp
    /\ \A i \in DOMAIN MaskIp : MaskIp[MaskIp[i]] = MaskIp[i]
    /\ Redacted # NoUser /\ \A e \in Events : UserOf[e] # Redacted
    /\ BreakerLimit \in Nat /\ MaxBatch \in Nat \ {0} /\ MaxRestarts \in Nat
    /\ StatementMayFail \in BOOLEAN

VARIABLES
    issues,     \* table issues: fingerprint -> count, users, suppressed, closed
    rows,       \* table events: the ids in it ...
    masked,     \* ... those with hwid and ip_address masked ...
    stripped,   \* ... and those with payload_hash set to NULL
    payloads,   \* table payloads
    stacks,     \* table stack_traces
    rollups,    \* table analytics_rollups: the sum of its counts
    spam,       \* user_spam_cache
    rpm,        \* issue_rpm_cache
    unsent,     \* events that have not reached a flush yet
    flush,      \* "idle", "open" or "read" (the snapshot is taken)
    batch,      \* the events of the flush
    hot,        \* those beyond BreakerLimit (event_rpms)
    quiet,      \* issues suppressed in the snapshot
    conflict,   \* has another connection committed since the snapshot?
    cleaner,    \* the statement perform_compression is about to run
    deleting,   \* the issue delete_issue is about to delete, or NoFp
    recount,    \* where delete_event stands, and what it has read
    restarts

tables == <<issues, rows, masked, stripped, payloads, stacks, rollups>>
caches == <<spam, rpm>>
flushVars == <<unsent, flush, batch, hot, quiet>>
adminVars == <<cleaner, deleting, recount>>
vars == <<tables, caches, flushVars, conflict, adminVars, restarts>>

-----------------------------------------------------------------------------
Key(e) == <<FpOf[e], UserOf[e]>>

CleanerStages == {"idle", "strip", "closed", "expired", "mask", "payloads",
                  "stacks", "vacuum"}
RecountStages == {"idle", "count", "users", "update"}
NotDeleting == [at |-> "idle", fp |-> NoFp, count |-> 0, users |-> 0]
NewIssue == [count |-> 1, users |-> 1, suppressed |-> FALSE, closed |-> FALSE]

RowsOf(R, f) == {e \in R \cap Errors : FpOf[e] = f}
Hwid(e) == IF e \in masked THEN Redacted ELSE UserOf[e]
Ip(e) == IF e \in masked THEN MaskIp[IpOf[e]] ELSE IpOf[e]

\* COUNT(DISTINCT hwid) and COUNT(DISTINCT ip_address) of an issue
Hwids(R, f) == Cardinality({Hwid(e) : e \in RowsOf(R, f)} \ {NoUser})
Addresses(R, f) == Cardinality({Ip(e) : e \in RowsOf(R, f)})

TypeOK ==
    /\ DOMAIN issues \subseteq Fps
    /\ \A f \in DOMAIN issues :
          issues[f] \in [count : Nat, users : Nat, suppressed : BOOLEAN,
                         closed : BOOLEAN]
    /\ rows \in SUBSET Events
    /\ masked \in SUBSET rows
    /\ stripped \in SUBSET (rows \cap Analytics)
    /\ payloads \in SUBSET {PayloadOf[e] : e \in Events}
    /\ stacks \in SUBSET Fps
    /\ rollups \in Nat
    /\ spam \in SUBSET {Key(e) : e \in Errors}
    /\ rpm \in [Fps -> Nat]
    /\ unsent \in SUBSET Events
    /\ flush \in {"idle", "open", "read"}
    /\ batch \in Seq(Events)
    /\ hot \in SUBSET Errors
    /\ quiet \in SUBSET Fps
    /\ conflict \in BOOLEAN
    /\ cleaner \in CleanerStages
    /\ deleting \in Fps \cup {NoFp}
    /\ recount \in [at : RecountStages, fp : Fps \cup {NoFp},
                    count : Nat, users : Nat]
    /\ restarts \in 0 .. MaxRestarts
    /\ rows \cap (unsent \cup ToSet(batch)) = {} /\ unsent \cap ToSet(batch) = {}

Init ==
    /\ issues = [f \in {} |-> NewIssue]
    /\ rows = {} /\ masked = {} /\ stripped = {}
    /\ payloads = {} /\ stacks = {} /\ rollups = 0
    /\ spam = {}
    /\ rpm = [f \in Fps |-> 0]
    /\ unsent = Events
    /\ flush = "idle" /\ batch = <<>> /\ hot = {}
    /\ quiet = {} /\ conflict = FALSE
    /\ cleaner = "idle" /\ deleting = NoFp /\ recount = NotDeleting
    /\ restarts = 0

-----------------------------------------------------------------------------
(* What one transaction of flush_batch does to the tables, event by event.  *)
(* An accumulator holds the tables and the spam cache.                      *)

Current == [issues |-> issues, rows |-> rows, payloads |-> payloads,
            stacks |-> stacks, rollups |-> rollups, spam |-> spam]

\* UPDATE issues SET count = count + 1: it touches no row if there is no issue.
Count(d, f) ==
    IF f \in DOMAIN d.issues THEN [d EXCEPT !.issues[f].count = @ + 1] ELSE d

\* INSERT INTO issues, where there is none yet
WithIssue(is, f) ==
    [g \in DOMAIN is \cup {f} |-> IF g \in DOMAIN is THEN is[g] ELSE NewIssue]

\* Mutant: ON CONFLICT DO NOTHING.
StoreRowUncounted(d, e) ==
    LET f == FpOf[e] IN
    [d EXCEPT !.issues = WithIssue(@, f),
              !.rows = @ \cup {e},
              !.payloads = @ \cup {PayloadOf[e]},
              !.stacks = @ \cup {f}]

\* Payload, stack trace, issue (upsert) and event row.
StoreRow(d, e) ==
    LET f == FpOf[e] IN
    [Count(d, f) EXCEPT
        !.issues = WithIssue(@, f),
        !.rows = @ \cup {e},
        !.payloads = @ \cup {PayloadOf[e]},
        !.stacks = @ \cup {f}]

\* Posthog events are rolled up and stored, and belong to no issue.
StoreAnalytics(d, e) ==
    [d EXCEPT !.rows = @ \cup {e}, !.payloads = @ \cup {PayloadOf[e]},
              !.rollups = @ + 1]

Suppressed == {f \in DOMAIN issues : issues[f].suppressed}

\* Mutant: the spam cache is filled only after the batch.
WriteUnmarked(d, e, silent, missed) ==
    IF e \in Analytics THEN StoreAnalytics(d, e)
    ELSE IF Key(e) \in d.spam \/ FpOf[e] \in silent \/ e \in hot
         THEN IF e \in missed THEN d ELSE Count(d, FpOf[e])
         ELSE StoreRow(d, e)

\* A repeated, suppressed or too frequent error is only counted; "silent" are
\* the issues the transaction sees suppressed, "missed" the events whose
\* counting UPDATE fails, which does not fail the batch.
Write(d, e, silent, missed) ==
    IF e \in Analytics THEN StoreAnalytics(d, e)
    ELSE LET known == [d EXCEPT !.spam = @ \cup {Key(e)}] IN
         IF Key(e) \in d.spam \/ FpOf[e] \in silent \/ e \in hot
         THEN IF e \in missed THEN known ELSE Count(known, FpOf[e])
         ELSE StoreRow(known, e)

\* The SELECT of a "deaf" event fails, and that counts as not suppressed.
SeenBy(e, silent, deaf) == IF e \in deaf THEN {} ELSE silent

\* The accumulator after each number of events of the batch.
Written(silent, missed, deaf) ==
    LET after[i \in 0 .. Len(batch)] ==
            IF i = 0 THEN Current
            ELSE Write(after[i - 1], batch[i], SeenBy(batch[i], silent, deaf), missed)
    IN  after

\* users_affected of every issue the batch names, but for those whose UPDATE
\* fails, which does not fail the batch either.
Recounted(d, failed) ==
    [f \in DOMAIN d.issues |->
        IF f \notin failed /\ \E e \in ToSet(batch) \cap Errors : FpOf[e] = f
        THEN [d.issues[f] EXCEPT !.users = Hwids(d.rows, f)]
        ELSE d.issues[f]]

-----------------------------------------------------------------------------
(* flush_batch, for this project                                           *)

Batches == UNION {[1 .. n -> unsent] : n \in 1 .. MaxBatch}
Ordinal(b, i) == Cardinality({j \in 1 .. i : b[j] \in Errors /\ FpOf[b[j]] = FpOf[b[i]]})

\* The rpm cache is bumped for every event; without a pool, a connection or a
\* transaction that is all, and the batch is gone.
FlushBegin ==
    /\ flush = "idle"
    /\ \E b \in Batches :
          /\ IsInjective(b)
          /\ unsent' = unsent \ ToSet(b)
          /\ rpm' = [f \in Fps |->
                        rpm[f] + Cardinality(RowsOf(ToSet(b), f))]
          /\ \/ /\ flush' = "open"
                /\ batch' = b
                /\ hot' = {b[i] : i \in {j \in DOMAIN b :
                              /\ b[j] \in Errors
                              /\ rpm[FpOf[b[j]]] + Ordinal(b, j) > BreakerLimit}}
             \/ UNCHANGED <<flush, batch, hot>>
    /\ UNCHANGED <<tables, spam, quiet, conflict, adminVars, restarts>>

DeafSets == IF StatementMayFail THEN SUBSET (ToSet(batch) \cap Errors) ELSE {{}}

FirstIsRead == batch[1] \in Errors /\ Key(batch[1]) \notin spam

\* SELECT is_suppressed as the first statement takes the snapshot.
FlushRead ==
    /\ flush = "open"
    /\ FirstIsRead
    /\ flush' = "read"
    /\ quiet' = Suppressed
    /\ UNCHANGED <<tables, caches, unsent, batch, hot, conflict, adminVars, restarts>>

FlushOver ==
    /\ flush' = "idle" /\ batch' = <<>> /\ hot' = {}
    /\ quiet' = {} /\ conflict' = FALSE

\* Mutant: a commit that does not care who committed in between.
FlushCommitAnyway(deaf) ==
    /\ flush = "open" /\ FirstIsRead => batch[1] \in deaf
    /\ flush # "idle"
    /\ LET silent == IF flush = "read" THEN quiet ELSE Suppressed
           d == Written(silent, {}, deaf)[Len(batch)] IN
          /\ issues' = Recounted(d, {})
          /\ rows' = d.rows
          /\ payloads' = d.payloads
          /\ stacks' = d.stacks
          /\ rollups' = d.rollups
          /\ spam' = d.spam
    /\ FlushOver
    /\ UNCHANGED <<masked, stripped, rpm, unsent, adminVars, restarts>>

\* The first write takes the write lock, until the commit.  A first SELECT that
\* fails takes no snapshot, or took one before it failed.
FlushCommit(deaf) ==
    /\ \/ flush = "open" /\ (FirstIsRead => batch[1] \in deaf)
       \/ flush = "read" /\ ~conflict
    /\ \E missed \in IF StatementMayFail THEN SUBSET ToSet(batch) ELSE {{}},
          failed \in IF StatementMayFail THEN SUBSET Fps ELSE {{}} :
          LET silent == IF flush = "read" THEN quiet ELSE Suppressed
              d == Written(silent, missed, deaf)[Len(batch)] IN
          /\ issues' = Recounted(d, failed)
          /\ rows' = d.rows
          /\ payloads' = d.payloads
          /\ stacks' = d.stacks
          /\ rollups' = d.rollups
          /\ spam' = d.spam
    /\ FlushOver
    /\ UNCHANGED <<masked, stripped, rpm, unsent, adminVars, restarts>>

\* A statement or the commit fails, as the writes do after a conflict: the
\* transaction is rolled back, and the spam cache is not.
FlushFail ==
    /\ flush # "idle"
    /\ spam' = spam \cup {Key(e) : e \in ToSet(batch) \cap Errors}
    /\ FlushOver
    /\ UNCHANGED <<tables, rpm, unsent, adminVars, restarts>>

\* time_to_live of the two caches
SpamExpires(k) ==
    /\ k \in spam
    /\ spam' = spam \ {k}
    /\ UNCHANGED <<tables, rpm, flushVars, conflict, adminVars, restarts>>

RpmExpires(f) ==
    /\ rpm[f] # 0
    /\ rpm' = [rpm EXCEPT ![f] = 0]
    /\ UNCHANGED <<tables, spam, flushVars, conflict, adminVars, restarts>>

-----------------------------------------------------------------------------
(* Triage                                                                  *)

\* Another connection commits: a flush that only read so far is doomed.
Committed == conflict' = (conflict \/ (flush = "read" /\ tables' # tables))

\* update_issue and resolve_issue
UpdateIssue(f) ==
    /\ f \in DOMAIN issues
    /\ \E s, c \in BOOLEAN :
          issues' = [issues EXCEPT ![f].suppressed = s, ![f].closed = c]
    /\ UNCHANGED <<rows, masked, stripped, payloads, stacks, rollups, caches,
                   flushVars, adminVars, restarts>>
    /\ Committed

\* DELETE FROM events, with the masks and flags the rows carried
DeleteRows(S) ==
    /\ rows' = rows \ S
    /\ masked' = masked \ S
    /\ stripped' = stripped \ S

\* DELETE FROM issues: a foreign key keeps the issues that rows refer to.
DropIssues(F) ==
    issues' = [f \in {g \in DOMAIN issues : g \notin F} |-> issues[f]]

\* Mutant: foreign keys are off.
UnreferencedOrNot(f) == f \in Fps

Unreferenced(f) == RowsOf(rows, f) = {}

\* delete_issue: the rows go in one statement, the issue in the next.
DeleteIssueRows(f) ==
    /\ deleting = NoFp
    /\ deleting' = f
    /\ DeleteRows(RowsOf(rows, f))
    /\ UNCHANGED <<issues, payloads, stacks, rollups, caches, flushVars,
                   cleaner, recount, restarts>>
    /\ Committed

DeleteIssueEnd ==
    /\ deleting # NoFp
    /\ deleting' = NoFp
    /\ DropIssues({f \in {deleting} : Unreferenced(f)})
    /\ UNCHANGED <<rows, masked, stripped, payloads, stacks, rollups, caches,
                   flushVars, cleaner, recount, restarts>>
    /\ Committed

\* clear_project_data, in one transaction
ClearProject ==
    /\ DeleteRows(rows)
    /\ DropIssues(Fps)
    /\ UNCHANGED <<payloads, stacks, rollups, caches, flushVars, adminVars, restarts>>
    /\ Committed

\* delete_event: the row, then COUNT(*), COUNT(DISTINCT ip_address) and the
\* UPDATE, or the DELETE of an issue without rows, each on its own.
DeleteEvent(e) ==
    /\ recount.at = "idle"
    /\ e \in rows
    /\ DeleteRows({e})
    /\ recount' = IF e \in Errors
                  THEN [NotDeleting EXCEPT !.at = "count", !.fp = FpOf[e]]
                  ELSE recount
    /\ UNCHANGED <<issues, payloads, stacks, rollups, caches, flushVars,
                   cleaner, deleting, restarts>>
    /\ Committed

RecountRows ==
    /\ recount.at = "count"
    /\ recount' = [recount EXCEPT !.count = Cardinality(RowsOf(rows, recount.fp)),
                                  !.at = "users"]
    /\ UNCHANGED <<tables, caches, flushVars, conflict, cleaner, deleting, restarts>>

RecountUsers ==
    /\ recount.at = "users"
    /\ recount.count # 0
    /\ recount' = [recount EXCEPT !.users = Addresses(rows, recount.fp),
                                  !.at = "update"]
    /\ UNCHANGED <<tables, caches, flushVars, conflict, cleaner, deleting, restarts>>

RecountDrop ==
    /\ recount.at = "users"
    /\ recount.count = 0
    /\ recount' = NotDeleting
    /\ DropIssues({f \in {recount.fp} : Unreferenced(f)})
    /\ UNCHANGED <<rows, masked, stripped, payloads, stacks, rollups, caches,
                   flushVars, cleaner, deleting, restarts>>
    /\ Committed

RecountUpdate ==
    /\ recount.at = "update"
    /\ recount' = NotDeleting
    /\ IF recount.fp \in DOMAIN issues
       THEN issues' = [issues EXCEPT ![recount.fp].count = recount.count,
                                     ![recount.fp].users = recount.users]
       ELSE UNCHANGED issues
    /\ UNCHANGED <<rows, masked, stripped, payloads, stacks, rollups, caches,
                   flushVars, cleaner, deleting, restarts>>
    /\ Committed

-----------------------------------------------------------------------------
(* perform_compression, statement by statement; errors are ignored         *)

CleanerDoes(from, to) == cleaner = from /\ cleaner' = to
CleanerKeeps == UNCHANGED <<caches, flushVars, deleting, recount, restarts>>

CleanBegin ==
    /\ CleanerDoes("idle", "strip")
    /\ CleanerKeeps /\ UNCHANGED <<tables, conflict>>

\* payload_hash = NULL for old posthog events
CleanStrip(old) ==
    /\ CleanerDoes("strip", "closed")
    /\ stripped' = stripped \cup (old \cap Analytics)
    /\ CleanerKeeps
    /\ UNCHANGED <<issues, rows, masked, payloads, stacks, rollups>>
    /\ Committed

\* Old rows of resolved or suspended issues
CleanClosed(old) ==
    /\ CleanerDoes("closed", "expired")
    /\ DeleteRows({e \in old \cap Errors :
                      FpOf[e] \in DOMAIN issues /\ issues[FpOf[e]].closed})
    /\ CleanerKeeps
    /\ UNCHANGED <<issues, payloads, stacks, rollups>>
    /\ Committed

\* The hard retention limit
CleanExpired(old) ==
    /\ CleanerDoes("expired", "mask")
    /\ DeleteRows(old)
    /\ CleanerKeeps
    /\ UNCHANGED <<issues, payloads, stacks, rollups>>
    /\ Committed

\* One UPDATE per old row that still has an address or a hwid
CleanMask(e) ==
    /\ cleaner = "mask"
    /\ e \in rows \ masked
    /\ masked' = masked \cup {e}
    /\ CleanerKeeps
    /\ UNCHANGED <<issues, rows, stripped, payloads, stacks, rollups, cleaner>>
    /\ Committed

CleanMaskEnd ==
    /\ CleanerDoes("mask", "payloads")
    /\ CleanerKeeps /\ UNCHANGED <<tables, conflict>>

CleanPayloads ==
    /\ CleanerDoes("payloads", "stacks")
    /\ payloads' = {PayloadOf[e] : e \in rows \ stripped} \cap payloads
    /\ CleanerKeeps
    /\ UNCHANGED <<issues, rows, masked, stripped, stacks, rollups>>
    /\ Committed

\* hash NOT IN (SELECT stack_hash FROM events) is never true while a posthog
\* event, whose stack_hash is NULL, is in the table.
CleanStacks ==
    /\ CleanerDoes("stacks", "vacuum")
    /\ stacks' = IF rows \cap Analytics # {} THEN stacks
                 ELSE stacks \cap {FpOf[e] : e \in rows}
    /\ CleanerKeeps
    /\ UNCHANGED <<issues, rows, masked, stripped, payloads, rollups>>
    /\ Committed

CleanVacuum ==
    /\ CleanerDoes("vacuum", "idle")
    /\ conflict' \in {conflict, flush = "read"}
    /\ CleanerKeeps /\ UNCHANGED tables

-----------------------------------------------------------------------------
\* flush_sessions commits rows of its own into the same database.
SessionRow ==
    /\ flush = "read"
    /\ conflict' = TRUE
    /\ UNCHANGED <<tables, caches, flushVars, adminVars, restarts>>

\* The process dies and starts again.  Whoever needs the project first opens
\* its pool, and get_project_pool deletes the issues without rows.
Restart ==
    /\ restarts < MaxRestarts
    /\ restarts' = restarts + 1
    /\ DropIssues({f \in Fps : Unreferenced(f)})
    /\ spam' = {}
    /\ rpm' = [f \in Fps |-> 0]
    /\ FlushOver
    /\ cleaner' = "idle" /\ deleting' = NoFp /\ recount' = NotDeleting
    /\ UNCHANGED <<rows, masked, stripped, payloads, stacks, rollups, unsent>>

FlushStep ==
    \/ FlushBegin \/ FlushRead \/ FlushFail
    \/ \E deaf \in DeafSets : FlushCommit(deaf)

TriageStep ==
    \/ \E f \in Fps : UpdateIssue(f) \/ DeleteIssueRows(f)
    \/ DeleteIssueEnd
    \/ ClearProject

RecountStep ==
    \/ \E e \in Events : DeleteEvent(e)
    \/ RecountRows \/ RecountUsers \/ RecountDrop \/ RecountUpdate

CleanStep ==
    \/ CleanBegin
    \/ \E old \in SUBSET rows : CleanStrip(old) \/ CleanClosed(old) \/ CleanExpired(old)
    \/ \E e \in Events : CleanMask(e)
    \/ CleanMaskEnd \/ CleanPayloads \/ CleanStacks \/ CleanVacuum

Next ==
    \/ FlushStep
    \/ \E k \in spam : SpamExpires(k)
    \/ \E f \in Fps : RpmExpires(f)
    \/ TriageStep
    \/ RecountStep
    \/ CleanStep
    \/ SessionRow
    \/ Restart

Spec == Init /\ [][Next]_vars

-----------------------------------------------------------------------------
(* Safety                                                                  *)

\* Nothing in the tables dangles, though payloads has no foreign key and the
\* cleaner's statements interleave with flushes and deletions: a row finds its
\* payload (unless stripped), and an error its issue and its stack trace.
ReferencesResolve ==
    /\ \A e \in rows \ stripped : PayloadOf[e] \in payloads
    /\ \A e \in rows \cap Errors : FpOf[e] \in DOMAIN issues /\ FpOf[e] \in stacks

\* A flush whose transaction can still commit knows which issues are
\* suppressed now, although it asked before it took the write lock.
SnapshotHolds == flush = "read" /\ ~conflict => quiet = Suppressed

\* Well-typed tables and caches whose references resolve, and no flush about to
\* write by a suppression that was changed since it looked.
StoreInv == TypeOK /\ ReferencesResolve /\ SnapshotHolds

\* A flush gives a suppressed issue no row, however suppression and flush
\* interleave, but for the events whose own SELECT of is_suppressed failed.
SuppressedGainsNoRow ==
    [][\A deaf \in DeafSets :
          (\E e \in (rows' \ rows) \cap (Errors \ deaf) : FpOf[e] \in Suppressed)
              => ~FlushCommit(deaf)]_vars

\* A flush stores at most one row of the same error of the same user, even
\* when a batch carries it more than once.
OneRowPerUser ==
    [][\A d, e \in (rows' \ rows) \cap Errors : Key(d) = Key(e) => d = e]_vars

\* No flush, triage or retention makes an issue claim fewer occurrences than
\* it has rows; only delete_event's UPDATE, with a count it read earlier, can.
Surplus(f) == issues[f].count - Cardinality(RowsOf(rows, f))
SurplusNeverShrinks ==
    [][\A f \in DOMAIN issues \cap DOMAIN issues' :
          Surplus(f)' >= Surplus(f) \/ recount.at = "update"]_vars

-----------------------------------------------------------------------------
(* What the documents and comments say, and the code does not keep          *)

\* "Wait up to 5 seconds if another writer holds the lock (avoids SQLITE_BUSY
\* errors)": another writer never dooms a flush.
WritersWait == flush # "idle" => ~conflict

\* A repeated error "merely increments the issue count": a committed flush
\* leaves each of its errors counted.
RepeatsAreCounted ==
    [][(\E deaf \in DeafSets : FlushCommit(deaf)) =>
        \A f \in {FpOf[e] : e \in ToSet(batch) \cap Errors} :
            /\ f \in DOMAIN issues'
            /\ issues'[f].count = Cardinality(RowsOf(ToSet(batch), f))
                  + (IF f \in DOMAIN issues THEN issues[f].count ELSE 0)]_vars

\* "When raw data is deleted, the statistical aggregations (..., crash counts,
\* ...) are strictly preserved": an issue no admin deletes keeps its count.
CountsArePreserved ==
    [][deleting = NoFp /\ recount.at = "idle" /\ Restart =>
          DOMAIN issues \subseteq DOMAIN issues']_vars

\* "Update the count and users_affected": what delete_event writes covers the
\* rows there are.
RecountIsFresh ==
    [][RecountUpdate /\ recount.fp \in DOMAIN issues =>
          issues'[recount.fp].count >= Cardinality(RowsOf(rows, recount.fp))]_vars
=============================================================================
