------------------------------- MODULE Batcher ------------------------------
(***************************************************************************)
(* The TypeScript SDK, sdk/src: EventPulseClient, its AutoBatcher and      *)
(* withRetry.  The SDK is single-threaded: an action is what runs from one *)
(* await, timer or call of the application to the next.                    *)
(*                                                                         *)
(* A send is one run of AutoBatcher.send: "flush" is the one that          *)
(* flushInFlight points to, the others belong to calls of trackBatch.      *)
(***************************************************************************)
EXTENDS Naturals, Sequences, FiniteSetsExt, Functions

CONSTANTS Events,         \* each with its own idempotency key
          Calls,          \* calls of trackBatch
          Flushes,        \* calls of flush by the application
          MaxQueueSize,   \* maxQueueSize: 100
          MaxRetries,     \* maxRetries: 3
          MaxBatch        \* the largest batch the API takes: 100

ASSUME BatcherAssumption == /\ Calls \cap {"flush", "queue", "settled"} = {}
                            /\ {MaxQueueSize, MaxRetries, MaxBatch} \subseteq Nat \ {0}

VARIABLES queue,          \* queue
          timer,          \* the interval timer is set
          send,           \* the sends in progress
          result,         \* how the send of an event ended
          await,          \* the application's calls of flush
          accepted,       \* the events the API has accepted
          posts           \* history: how often an event was POSTed

vars == <<queue, timer, send, result, await, accepted, posts>>

Sends == {"flush"} \cup Calls

NoSend == [at |-> "none", batch |-> {}, attempt |-> 0]

NoAwait == [at |-> "none", need |-> {}, shared |-> FALSE]

Queued == Range(queue)

Init == /\ queue = <<>> /\ timer = TRUE
        /\ send = [s \in Sends |-> NoSend]
        /\ result = [e \in Events |-> "none"]
        /\ await = [f \in Flushes |-> NoAwait]
        /\ accepted = {}
        /\ posts = [e \in Events |-> 0]

Busy == send["flush"].at # "none"

\* Where an event is: the queue, a send, or settled.
Places(e) == {s \in Sends : e \in send[s].batch}
             \cup {p \in {"queue"} : e \in Queued}
             \cup {p \in {"settled"} : result[e] # "none"}

\* The events the application has not handed over.
New == {e \in Events : Places(e) = {}}

\* send(batch): the first call of postBatch.
Begin(S) == [at |-> "fetch", batch |-> S, attempt |-> 0]

\* Wrong versions of Flush, for the mutants: the queue is copied and not
\* spliced, and what is in flight is not looked at.
FlushCopies(q) ==
  /\ queue' = q
  /\ IF Busy \/ q = <<>> THEN UNCHANGED send
                        ELSE send' = [send EXCEPT !["flush"] = Begin(Range(q))]

FlushOverlaps(q) ==
  IF q = <<>> THEN queue' = q /\ UNCHANGED send
  ELSE queue' = <<>> /\ send' = [send EXCEPT !["flush"] = Begin(Range(q))]

\* flush(), when the queue is q: share what is in flight, or splice.
Flush(q) ==
  IF Busy \/ q = <<>> THEN queue' = q /\ UNCHANGED send
  ELSE /\ queue' = <<>>
       /\ send' = [send EXCEPT !["flush"] = Begin(Range(q))]

-----------------------------------------------------------------------------
\* The application.

\* track and enqueue.
Track(e) == /\ e \in New
            /\ LET q == Append(queue, e) IN
               IF Len(q) >= MaxQueueSize THEN Flush(q) ELSE queue' = q /\ UNCHANGED send
            /\ UNCHANGED <<timer, result, await, accepted, posts>>

\* trackBatch and sendBatch.
TrackBatch(c, S) == /\ send[c].at = "none" /\ S # {}
                    /\ send' = [send EXCEPT ![c] = Begin(S)]
                    /\ UNCHANGED <<queue, timer, result, await, accepted, posts>>

\* A wrong AwaitFlush, for the mutants: the promise is dropped (void).
AwaitNothing(f) ==
  /\ await[f].at = "none"
  /\ await' = [await EXCEPT ![f] = [at |-> "done", need |-> Queued, shared |-> Busy]]
  /\ Flush(queue)
  /\ UNCHANGED <<timer, result, accepted, posts>>

\* await client.flush()
AwaitFlush(f) ==
  /\ await[f].at = "none"
  /\ await' = [await EXCEPT ![f] =
                 [at |-> IF Busy \/ queue # <<>> THEN "waiting" ELSE "done",
                  need |-> Queued, shared |-> Busy]]
  /\ Flush(queue)
  /\ UNCHANGED <<timer, result, accepted, posts>>

Destroy == /\ timer
           /\ timer' = FALSE
           /\ UNCHANGED <<queue, send, result, await, accepted, posts>>

\* A wrong Interval, for the mutants: only a full queue is flushed.
IntervalIfFull == /\ timer
                  /\ IF Len(queue) >= MaxQueueSize THEN Flush(queue) ELSE UNCHANGED <<queue, send>>
                  /\ UNCHANGED <<timer, result, await, accepted, posts>>

\* The interval timer fires.
Interval == /\ timer
            /\ Flush(queue)
            /\ UNCHANGED <<timer, result, await, accepted, posts>>

-----------------------------------------------------------------------------
\* send, withRetry and postBatch.

\* Wrong versions of Settle, for the mutants: the error is swallowed, and the
\* promise does not settle after one.
SettleAsSent(s, r) ==
  /\ send' = [send EXCEPT ![s] = NoSend]
  /\ result' = [e \in Events |-> IF e \in send[s].batch THEN "sent" ELSE result[e]]
  /\ await' = IF s # "flush" THEN await ELSE
                [f \in Flushes |-> IF await[f].at = "waiting"
                                   THEN [await[f] EXCEPT !.at = "done"] ELSE await[f]]

SettleSilently(s, r) ==
  /\ send' = [send EXCEPT ![s] = NoSend]
  /\ result' = [e \in Events |-> IF e \in send[s].batch THEN r ELSE result[e]]
  /\ await' = IF s # "flush" \/ r = "failed" THEN await ELSE
                [f \in Flushes |-> IF await[f].at = "waiting"
                                   THEN [await[f] EXCEPT !.at = "done"] ELSE await[f]]

\* The promise of s settles, and with it the application's flushes.
Settle(s, r) ==
  /\ send' = [send EXCEPT ![s] = NoSend]
  /\ result' = [e \in Events |-> IF e \in send[s].batch THEN r ELSE result[e]]
  /\ await' = IF s # "flush" THEN await ELSE
                [f \in Flushes |-> IF await[f].at = "waiting"
                                   THEN [await[f] EXCEPT !.at = "done"] ELSE await[f]]

\* The attempt threw a RetryableError: sleep, or give up.
Retry(s) ==
  IF send[s].attempt >= MaxRetries - 1 THEN Settle(s, "failed")
  ELSE /\ send' = [send EXCEPT ![s].at = "sleep"]
       /\ UNCHANGED <<result, await>>

Fetch(s) ==
  LET S == send[s].batch IN
  /\ send[s].at = "fetch"
  /\ posts' = [e \in Events |-> IF e \in S THEN posts[e] + 1 ELSE posts[e]]
  \* 202
  /\ \/ /\ Cardinality(S) <= MaxBatch
        /\ accepted' = accepted \cup S
        /\ Settle(s, "sent")
     \* A network error or a 5xx: the API may have accepted any part, but
     \* nothing of an oversized batch.
     \/ /\ \E P \in SUBSET (IF Cardinality(S) <= MaxBatch THEN S ELSE {}) :
             accepted' = accepted \cup P
        /\ Retry(s)
     \* 429 or another 4xx.
     \/ UNCHANGED accepted /\ Settle(s, "failed")
  /\ UNCHANGED <<queue, timer>>

\* The back-off is over.
Wake(s) == /\ send[s].at = "sleep"
           /\ send' = [send EXCEPT ![s].at = "fetch", ![s].attempt = @ + 1]
           /\ UNCHANGED <<queue, timer, result, await, accepted, posts>>

Next == \/ \E e \in Events : Track(e)
        \/ \E c \in Calls, S \in SUBSET New : TrackBatch(c, S)
        \/ \E f \in Flushes : AwaitFlush(f)
        \/ \E s \in Sends : Fetch(s) \/ Wake(s)
        \/ Interval \/ Destroy

Spec == Init /\ [][Next]_vars

\* Requests are answered or fail, and timers fire.
FairSpec == /\ Spec
            /\ \A s \in Sends : WF_vars(Fetch(s)) /\ WF_vars(Wake(s))
            /\ WF_vars(Interval)

-----------------------------------------------------------------------------
TypeOK ==
  /\ queue \in Seq(Events)
  /\ timer \in BOOLEAN
  /\ send \in [Sends -> [at : {"none", "fetch", "sleep"}, batch : SUBSET Events,
                         attempt : 0 .. MaxRetries - 1]]
  /\ result \in [Events -> {"none", "sent", "failed"}]
  /\ await \in [Flushes -> [at : {"none", "waiting", "done"}, need : SUBSET Events,
                            shared : BOOLEAN]]
  /\ accepted \subseteq Events
  /\ posts \in [Events -> Nat]

\* batcher.ts 33-61: an event is queued once, in one send or settled, so
\* overlapping flushes and trackBatch never send it in two batches.
InOnePlace == /\ Cardinality(Queued) = Len(queue)
              /\ \A e \in Events : Cardinality(Places(e)) <= 1

\* batcher.ts 44-55: an event that was handed over stays somewhere until it is
\* settled, whatever is flushed while an earlier batch is in flight.
NothingIsForgotten == [][New' \subseteq New]_vars

\* batcher.ts 70-90, retry.ts 29-46: sent is said only of events the API has
\* accepted, and no event is POSTed more than maxRetries times, however flushes
\* by size, by timer and by hand follow each other.
OutcomeIsTrue == \A e \in Events : /\ result[e] = "sent" => e \in accepted
                                   /\ posts[e] <= MaxRetries

\* client.ts 53-59: what flush() promises does hold when nothing was in flight:
\* when it returns, the events queued at the call are settled.
UnsharedFlushSettles ==
  \A f \in Flushes : await[f].at = "done" /\ ~await[f].shared =>
    \A e \in await[f].need : result[e] # "none"

\* batcher.ts 28-30: while the timer is not destroyed every event is settled.
EveryEventSettles ==
  \A e \in Events : (e \in Queued) ~> (result[e] # "none" \/ ~timer)

\* batcher.ts 44-55: a call of flush always returns, destroyed timer or not.
EveryFlushReturns ==
  \A f \in Flushes : (await[f].at = "waiting") ~> (await[f].at = "done")

=============================================================================
