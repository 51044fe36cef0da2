--------------------------- MODULE EventDelivery ---------------------------
(***************************************************************************)
(* What the ingestion path promises about the events of a request, with no *)
(* channel, batch, worker or transaction in sight.                         *)
(*                                                                         *)
(* An event is taken over at most once (Accept), or skipped as a duplicate *)
(* (Skip); an accepted event is settled exactly once, in a group that is   *)
(* stored or lost as a whole.  A request answered "ok" has had all of its  *)
(* events taken over or skipped; once a request is answered, none of its   *)
(* remaining events is taken over any more.  IngestPipeline implements     *)
(* this module.                                                            *)
(***************************************************************************)
EXTENDS Integers

CONSTANTS
    Events,     \* the events of all requests
    Owners,     \* the requests
    OwnerOf     \* the request an event belongs to

VARIABLES
    status,     \* of each event: "unsent", "queued", "skipped", "stored", "lost"
    verdict     \* what each client was told: "none", "ok", "error", "reset"

deliveryVars == <<status, verdict>>

EventsOf(r) == {e \in Events : OwnerOf[e] = r}
Queued      == {e \in Events : status[e] = "queued"}

Mark(S, s) == status' = [e \in Events |-> IF e \in S THEN s ELSE status[e]]

DeliveryInit ==
    /\ status = [e \in Events |-> "unsent"]
    /\ verdict = [r \in Owners |-> "none"]

Accept(e) ==
    /\ status[e] = "unsent"
    /\ verdict[OwnerOf[e]] = "none"
    /\ Mark({e}, "queued")
    /\ UNCHANGED verdict

SkipEvent(e) ==
    /\ status[e] = "unsent"
    /\ verdict[OwnerOf[e]] = "none"
    /\ Mark({e}, "skipped")

\* Skipping the last open event of a request may answer it in the same step.
Skip(e) ==
    /\ SkipEvent(e)
    /\ \/ UNCHANGED verdict
       \/ /\ \A d \in EventsOf(OwnerOf[e]) \ {e} : status[d] # "unsent"
          /\ verdict' = [verdict EXCEPT ![OwnerOf[e]] = "ok"]

AnswerOk(r) ==
    /\ verdict[r] = "none"
    /\ \A e \in EventsOf(r) : status[e] # "unsent"
    /\ verdict' = [verdict EXCEPT ![r] = "ok"]
    /\ UNCHANGED status

AnswerError(r) ==
    /\ verdict[r] = "none"
    /\ EventsOf(r) # {} => \E e \in EventsOf(r) : status[e] = "unsent"
    /\ verdict' = [verdict EXCEPT ![r] = "error"]
    /\ UNCHANGED status

Settle(S) ==
    /\ S # {}
    /\ S \subseteq Queued
    /\ Mark(S, "stored") \/ Mark(S, "lost")
    /\ UNCHANGED verdict

\* The client of a request gives up before it is answered.
Abandon(r) ==
    /\ verdict[r] = "none"
    /\ verdict' = [verdict EXCEPT ![r] = "reset"]
    /\ UNCHANGED status

\* The process dies: nothing queued survives, and the clients of some
\* requests never see an answer.
Crash ==
    /\ Mark(Queued, "lost")
    /\ \E R \in SUBSET {r \in Owners : verdict[r] = "none"} :
          verdict' = [r \in Owners |-> IF r \in R THEN "reset" ELSE verdict[r]]

DeliveryNext ==
    \/ \E e \in Events : Accept(e) \/ Skip(e)
    \/ \E r \in Owners : AnswerOk(r) \/ AnswerError(r) \/ Abandon(r)
    \/ \E S \in SUBSET Queued : Settle(S)
    \/ Crash

DeliverySpec == DeliveryInit /\ [][DeliveryNext]_deliveryVars
=============================================================================
