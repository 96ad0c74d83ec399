------------------------------- MODULE Ingest -------------------------------
(***************************************************************************)
(* The ingestion handlers, internal/events/handler.go: HandleIngest and    *)
(* HandleBatchIngest decode and validate a request, publish its events to  *)
(* the stream, write them to PostgreSQL directly (best effort), broadcast  *)
(* them to the live feed (best effort) and answer 202.  HandleIngest is    *)
(* the case of a batch of one.                                             *)
(***************************************************************************)
EXTENDS Postgres, Faults

CONSTANTS Requests,
          Batch,          \* Batch[q]: the events of a request, in order
          MaxBatch,       \* 100 in HandleBatchIngest
          Invalid         \* events Validate or an enforcing schema rejects

ASSUME IngestAssumption ==
  /\ Batch \in [Requests -> Seq(Events)]
  /\ MaxBatch \in Nat
  /\ Invalid \subseteq Events
  /\ \A q \in Requests : \A i \in DOMAIN Batch[q] : Batch[q][i] \notin Malformed
  /\ \A q, r \in Requests : \A i \in DOMAIN Batch[q], j \in DOMAIN Batch[r] :
       Batch[q][i] = Batch[r][j] => q = r /\ i = j

VARIABLES req,            \* the state of each request in its handler
          feed            \* the events broadcast to the live feed

ingestVars == <<req, feed>>

\* next: the event to publish next; err: some XADD of the pipeline failed.
RequestState == [pc : {"new", "publish", "store", "broadcast",
                       "accepted", "rejected", "failed", "aborted"},
                 next : Nat, err : BOOLEAN]

IngestInit == /\ req = [q \in Requests |-> [pc |-> "new", next |-> 1, err |-> FALSE]]
              /\ feed = {}

EventsOf(q) == {Batch[q][i] : i \in DOMAIN Batch[q]}

Goto(q, to) == req' = [req EXCEPT ![q].pc = to]

\* The checks before anything is published: an empty or oversized batch, an
\* event that fails Validate, an event an enforcing schema rejects.  One bad
\* event rejects the request.
WellFormed(q) == /\ Batch[q] # <<>>
                 /\ Len(Batch[q]) <= MaxBatch
                 /\ EventsOf(q) \cap Invalid = {}

Decode(q) == /\ req[q].pc = "new"
             /\ Goto(q, IF WellFormed(q) THEN "publish" ELSE "rejected")
             /\ NoFault
             /\ UNCHANGED <<stream, tables, feed>>

\* A wrong Published, for the mutants: errors of the pipeline are ignored.
PublishedAnyway(q, failed) ==
  req' = [req EXCEPT ![q] =
           [pc   |-> IF req[q].next = Len(Batch[q]) THEN "store" ELSE "publish",
            next |-> req[q].next + 1,
            err  |-> FALSE]]

\* Publish and PublishBatch: one XADD per event, in a pipeline that is not a
\* transaction.  The call fails if any XADD does; the others stay applied.
Published(q, failed) ==
  LET err  == req[q].err \/ failed
      last == req[q].next = Len(Batch[q])
  IN  req' = [req EXCEPT ![q] =
               [pc   |-> IF ~last THEN "publish" ELSE IF err THEN "failed" ELSE "store",
                next |-> req[q].next + 1,
                err  |-> err]]

Publish(q) ==
  /\ req[q].pc = "publish"
  /\ LET e == Batch[q][req[q].next] IN
       \/ XAdd(e) /\ Published(q, FALSE) /\ NoFault
       \/ XAddTwice(e) /\ Published(q, FALSE) /\ Fault
       \/ XAdd(e) /\ Published(q, TRUE) /\ Fault
       \/ UNCHANGED stream /\ Published(q, TRUE) /\ Fault
  /\ UNCHANGED <<tables, feed>>

\* Store or BatchStore, after the publish; an error is logged and ignored.
DirectStore(q) ==
  /\ req[q].pc = "store"
  /\ Goto(q, "broadcast")
  /\ \/ InsertEvents(Batch[q]) /\ NoFault
     \/ UNCHANGED rows /\ Fault
  /\ UNCHANGED <<stream, daily, active, hooks, dlq, feed>>

\* broadcastEvent for each event, errors ignored, then 202.
Broadcast(q) ==
  /\ req[q].pc = "broadcast"
  /\ Goto(q, "accepted")
  /\ \/ feed' = feed \cup EventsOf(q) /\ NoFault
     \/ \E S \in SUBSET EventsOf(q) :
          S # EventsOf(q) /\ feed' = feed \cup S /\ Fault
  /\ UNCHANGED <<stream, tables>>

\* The server dies in the middle of the handler: no answer.
Abort(q) == /\ req[q].pc \in {"publish", "store", "broadcast"}
            /\ Goto(q, "aborted")
            /\ Fault
            /\ UNCHANGED <<stream, tables, feed>>

\* An entry without a decodable payload, XADDed by something that is not the
\* ingestion API.
ForeignAdd(e) == /\ e \in Malformed
                 /\ \A i \in Slots : stream[i].ev # e
                 /\ XAdd(e)
                 /\ NoFault
                 /\ UNCHANGED <<tables, ingestVars>>

HandleIngest(q) == Decode(q) \/ Publish(q) \/ DirectStore(q) \/ Broadcast(q)

=============================================================================
