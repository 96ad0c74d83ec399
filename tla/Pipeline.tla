------------------------------ MODULE Pipeline ------------------------------
(***************************************************************************)
(* The ingestion pipeline: the API handlers and the worker processes,      *)
(* composed over the Redis stream and the PostgreSQL tables they share.    *)
(***************************************************************************)
EXTENDS Ingest, Worker

vars == <<stream, tables, ingestVars, workerVars, faults>>

Init == /\ StreamInit /\ PostgresInit /\ IngestInit /\ WorkerInit
        /\ faults = 0

IngestNext == \/ \E q \in Requests : HandleIngest(q) \/ Abort(q)
              \/ \E e \in Malformed : ForeignAdd(e)

WorkerNext == \/ \E w \in Workers : Step(w)
              \/ \E i \in Slots : Elapse(i)
              \/ \E p \in Procs : Sigterm(p) \/ Crash(p) \/ Restart(p)

Next == \/ IngestNext /\ UNCHANGED workerVars
        \/ WorkerNext /\ UNCHANGED ingestVars

\* Handlers run to their end, goroutines keep looping, time passes, and the
\* platform restarts a worker process that is down.  Nothing is assumed of
\* faults but that there are finitely many.
Fairness ==
  /\ \A q \in Requests : WF_vars(HandleIngest(q) /\ UNCHANGED workerVars)
  /\ \A w \in Workers : WF_vars(Step(w) /\ UNCHANGED ingestVars)
  /\ \A i \in Slots : WF_vars(~Held(i) /\ Elapse(i) /\ UNCHANGED ingestVars)
  /\ \A p \in Procs : WF_vars(Restart(p) /\ UNCHANGED ingestVars)

Spec == Init /\ [][Next]_vars

FairSpec == Spec /\ Fairness

-----------------------------------------------------------------------------
TypeOK ==
  /\ stream \in [Slots -> Entry]
  /\ rows \subseteq Events
  /\ daily \in [Slots -> Nat]
  /\ active \subseteq Users
  /\ hooks \subseteq Events
  /\ dlq \in [Slots -> Nat]
  /\ req \in [Requests -> RequestState]
  /\ feed \subseteq Events
  /\ pc \in [Workers -> {"loop", "claimed", "message", "enqueue", "count",
                         "active", "ack", "exited"}]
  /\ batch \in [Workers -> SUBSET Slots]
  /\ seen \in [Workers -> [Slots -> Nat]]
  /\ proc \in [Procs -> {"up", "stopping", "down"}]
  /\ faults \in 0 .. MaxFaults

\* What acknowledging an entry is supposed to mean: its event is in the events
\* table, or its payload is in dead_letter_events.
Settled(i) == dlq[i] > 0 \/ (stream[i].ev \notin Malformed /\ Stored(stream[i].ev))

\* worker.go 106-165, 167-205: no entry leaves the pending list before its
\* event is durable, whatever fails, crashes or is processed twice.
AckedIsSettled == \A i \in With({"acked"}) : Settled(i)

\* handler.go 128-145: an event the API has answered 202 for is never lost.
\* It is waiting in the stream, pending, stored or dead-lettered.
AcceptedIsNeverLost ==
  \A q \in Requests : req[q].pc = "accepted" =>
    \A e \in EventsOf(q) : \E i \in Used :
      stream[i].ev = e /\ (stream[i].st # "acked" \/ Settled(i))

\* worker.go 94-99, consumer.go 74-113: a payload that decodes is given up
\* only after MaxRetries deliveries, although the count a goroutine acts on
\* was read in an earlier round trip and may be stale or missing.
GivenUpOnlyWhenExhausted ==
  \A i \in Slots : dlq[i] > 0 /\ stream[i].ev \notin Malformed
                     => stream[i].n >= MaxRetries

\* The promise of the pipeline: an abstract queue of entries.
Queue == INSTANCE AtLeastOnce WITH Entries  <- Slots,
                                   accepted <- Used,
                                   settled  <- {i \in Used : Settled(i)},
                                   acked    <- With({"acked"})

\* worker.go 58-205, handler.go 91-222: with all its calls, failures and
\* redeliveries the pipeline is such a queue.  Entries are acknowledged one
\* by one and only when they are durable; no entry that was taken in, no row
\* and no dead letter is given up again, and an acknowledged entry never
\* comes back.
IsAtLeastOnce == Queue!Spec

EntriesOf(e) == {i \in Used : stream[i].ev = e}

\* worker.go 149, store.go 32-44: the daily aggregate is not idempotent, but
\* an entry is counted at most once per delivery, whoever holds it as well.
CountedAtMostOncePerDelivery == \A i \in Slots : daily[i] <= stream[i].n

\* No other event in the stream carries the idempotency key of e.
Unrepeated(e) == \A j \in Used : Conflicts(e, stream[j].ev) => stream[j].ev = e

\* handler.go 91-222, worker.go 106-165: as long as nothing has failed, an
\* acknowledged event was processed exactly once, with other goroutines and a
\* direct write racing it: it is in the stream once, was delivered once, and
\* exactly one row stands for its key.  It was counted and enqueued for the
\* webhooks once if no other event carries its key.  Nothing is asked of the
\* aggregates of a repetition: the worker counts and enqueues it like any
\* other event, where the documents say that it is dropped.
FaultFreeIsExactlyOnce ==
  faults = 0 =>
    \A i \in With({"acked"}) :
      LET e == stream[i].ev IN
      e \notin Malformed =>
        /\ EntriesOf(e) = {i} /\ stream[i].n = 1 /\ dlq[i] = 0
        /\ \E f \in rows : \A r \in rows : Conflicts(e, r) <=> r = f
        /\ Unrepeated(e) => /\ daily[i] = 1 /\ e \in hooks
                            /\ User[e] \in active \cup {NoUser}

\* runLoop, reclaimAndProcess: every entry of the stream is acknowledged in
\* the end, whichever goroutine was holding it when something failed.
EveryEntrySettles ==
  \A i \in Slots : (stream[i].st # "free") ~> (stream[i].st = "acked")

\* worker.go 46-56: a process told to stop does stop.
ShutdownTerminates ==
  \A p \in Procs : (proc[p] = "stopping") ~> (proc[p] = "down")

=============================================================================
