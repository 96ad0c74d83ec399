------------------------------- MODULE Worker -------------------------------
(***************************************************************************)
(* The worker processes, internal/worker/worker.go and cmd/worker/main.go: *)
(* each process runs several goroutines of runLoop.  A goroutine reads a   *)
(* batch of new entries or reclaims a batch of idle ones, and handles them *)
(* one by one, one action per call that leaves the process.                *)
(*                                                                         *)
(* All goroutines of a host share one consumer name (consumerID), and      *)
(* XAUTOCLAIM looks at the idle time only, so which consumer an entry is   *)
(* pending for never matters and is not modelled.                          *)
(***************************************************************************)
EXTENDS Postgres, Faults

CONSTANTS Workers,        \* the goroutines
          Procs,          \* the processes
          Process,        \* Process[w]: the process of a goroutine
          MaxRetries      \* queue.MaxRetries: 3

ASSUME WorkerAssumption == /\ IsFiniteSet(Workers)
                           /\ Process \in [Workers -> Procs]
                           /\ MaxRetries \in Nat \ {0}

VARIABLES pc,             \* where each goroutine is
          batch,          \* the entries it has read and not finished
          seen,           \* Message.DeliveryCount of those entries
          proc            \* the state of each process

workerVars == <<pc, batch, seen, proc>>

NoCounts == [i \in Slots |-> 0]

WorkerInit == /\ pc = [w \in Workers |-> "loop"]
              /\ batch = [w \in Workers |-> {}]
              /\ seen = [w \in Workers |-> NoCounts]
              /\ proc = [p \in Procs |-> "up"]

Up(w) == proc[Process[w]] = "up"

\* A call succeeds only while the context is live: after SIGTERM the context
\* every call is given is cancelled, and the call fails at no cost.
Succeeds(w) == Up(w) /\ NoFault

Fails(w) == \/ Up(w) /\ Fault
            \/ proc[Process[w]] = "stopping" /\ NoFault

Held(i) == \E w \in Workers : i \in batch[w]

-----------------------------------------------------------------------------
\* runLoop, reclaimAndProcess and StreamConsumer.Read and Reclaim.

Take(w, S, to) == /\ Deliver(S)
                  /\ batch' = [batch EXCEPT ![w] = S]
                  /\ pc' = [pc EXCEPT ![w] = to]

\* XREADGROUP: the messages get DeliveryCount 0.
Read(w) == /\ pc[w] = "loop"
           /\ NextNew # {}
           /\ Take(w, NextNew, "message")
           /\ Succeeds(w)
           /\ UNCHANGED <<seen, proc, tables>>

\* The 2 second block passes with nothing to read.
ReadNothing(w) == /\ pc[w] = "loop" /\ Up(w)
                  /\ NextNew = {}
                  /\ NoFault
                  /\ UNCHANGED <<stream, tables, workerVars>>

\* On the ticker: XAUTOCLAIM.
Reclaim(w) == /\ pc[w] = "loop"
              /\ NextIdle # {}
              /\ Take(w, NextIdle, "claimed")
              /\ Succeeds(w)
              /\ UNCHANGED <<seen, proc, tables>>

\* The server delivers or claims, and the answer is lost: nobody holds the
\* entries, the loop goes on.
LoseAnswer(w) == /\ pc[w] = "loop" /\ Up(w)
                 /\ \E S \in {NextNew, NextIdle} \ {{}} : Deliver(S)
                 /\ Fault
                 /\ UNCHANGED <<tables, workerVars>>

\* deliveryCounts, in a second round trip; on an error every count is 0.
CountDeliveries(w) ==
  /\ pc[w] = "claimed"
  /\ \/ Succeeds(w) /\ seen' = [seen EXCEPT ![w] = DeliveryCounts(batch[w])]
     \/ Fails(w) /\ UNCHANGED seen
  /\ pc' = [pc EXCEPT ![w] = "message"]
  /\ UNCHANGED <<stream, tables, batch, proc>>

-----------------------------------------------------------------------------
\* handleMessage and deadLetter, for the first entry of the batch.

Current(w, i) == i \in batch[w] /\ \A j \in batch[w] : i <= j

\* Return from the handler: go on with the rest of the batch.
Finish(w, i) == /\ batch' = [batch EXCEPT ![w] = @ \ {i}]
                /\ seen' = [seen EXCEPT ![w][i] = 0]
                /\ pc' = [pc EXCEPT ![w] = IF batch[w] = {i} THEN "loop" ELSE "message"]

Advance(w, to) == /\ pc' = [pc EXCEPT ![w] = to]
                  /\ UNCHANGED <<batch, seen>>

\* A wrong GivesUp, for the mutants: one delivery too early.
GivesUpEarly(w, i) == seen[w][i] >= MaxRetries - 1 \/ stream[i].ev \in Malformed

\* reclaimAndProcess gives up on the entry, or decodeEvent fails.
GivesUp(w, i) == seen[w][i] >= MaxRetries \/ stream[i].ev \in Malformed

\* A wrong DeadLetter, for the mutants: the entry is acknowledged even when
\* the INSERT failed.
DeadLetterAnyway(w, i) ==
  /\ pc[w] = "message" /\ Current(w, i) /\ GivesUp(w, i)
  /\ \/ Succeeds(w) /\ InsertDeadLetter(i)
     \/ Fails(w) /\ UNCHANGED dlq
  /\ Advance(w, "ack")
  /\ UNCHANGED <<stream, rows, daily, active, hooks, proc>>

\* deadLetter: the INSERT; on an error the entry stays pending.
DeadLetter(w, i) ==
  /\ pc[w] = "message" /\ Current(w, i) /\ GivesUp(w, i)
  /\ \/ Succeeds(w) /\ InsertDeadLetter(i) /\ Advance(w, "ack")
     \/ Fails(w) /\ UNCHANGED dlq /\ Finish(w, i)
     \/ Up(w) /\ Fault /\ InsertDeadLetter(i) /\ Finish(w, i)
  /\ UNCHANGED <<stream, rows, daily, active, hooks, proc>>

\* events.Store; on an error, even one that follows the commit, the entry
\* stays pending.
Store(w, i) ==
  /\ pc[w] = "message" /\ Current(w, i) /\ ~GivesUp(w, i)
  /\ \/ Succeeds(w) /\ InsertEvents(<<stream[i].ev>>) /\ Advance(w, "enqueue")
     \/ Fails(w) /\ UNCHANGED rows /\ Finish(w, i)
     \/ Up(w) /\ Fault /\ InsertEvents(<<stream[i].ev>>) /\ Finish(w, i)
  /\ UNCHANGED <<stream, daily, active, hooks, dlq, proc>>

\* The three calls whose errors are logged and ignored.
Enqueue(w, i) ==
  /\ pc[w] = "enqueue" /\ Current(w, i)
  /\ \/ Succeeds(w) /\ EnqueueDeliveries(stream[i].ev)
     \/ Fails(w) /\ UNCHANGED hooks
  /\ Advance(w, "count")
  /\ UNCHANGED <<stream, rows, daily, active, dlq, proc>>

\* A wrong CountDay, for the mutants: the active user is forgotten.
CountDayOnly(w, i) ==
  /\ pc[w] = "count" /\ Current(w, i)
  /\ \/ Succeeds(w) /\ UpsertDailyCount(i)
     \/ Fails(w) /\ UNCHANGED daily
  /\ Advance(w, "ack")
  /\ UNCHANGED <<stream, rows, active, hooks, dlq, proc>>

CountDay(w, i) ==
  /\ pc[w] = "count" /\ Current(w, i)
  /\ \/ Succeeds(w) /\ UpsertDailyCount(i)
     \/ Fails(w) /\ UNCHANGED daily
  /\ Advance(w, "active")
  /\ UNCHANGED <<stream, rows, active, hooks, dlq, proc>>

CountUser(w, i) ==
  /\ pc[w] = "active" /\ Current(w, i)
  /\ \/ Succeeds(w) /\ UpsertDailyActiveUser(stream[i].ev)
     \/ Fails(w) /\ UNCHANGED active
  /\ Advance(w, "ack")
  /\ UNCHANGED <<stream, rows, daily, hooks, dlq, proc>>

\* A wrong Ack, for the mutants: after an error the message is handled again
\* on the spot.
AckOrRepeat(w, i) ==
  /\ pc[w] = "ack" /\ Current(w, i)
  /\ \/ Succeeds(w) /\ XAck(i) /\ Finish(w, i)
     \/ Fails(w) /\ UNCHANGED stream /\ Advance(w, "message")
  /\ UNCHANGED <<tables, proc>>

\* Ack; an error is logged and the entry stays pending.
Ack(w, i) ==
  /\ pc[w] = "ack" /\ Current(w, i)
  /\ \/ Succeeds(w) /\ XAck(i)
     \/ Fails(w) /\ UNCHANGED stream
  /\ Finish(w, i)
  /\ UNCHANGED <<tables, proc>>

-----------------------------------------------------------------------------
\* The processes.

\* MinIdleTime passes.  For an entry a goroutine still holds, that means the
\* goroutine (or the batch before the entry) is that slow.
Elapse(i) == /\ BecomeIdle(i)
             /\ IF Held(i) THEN Fault ELSE NoFault
             /\ UNCHANGED <<tables, workerVars>>

\* SIGTERM cancels the context of the process.
Sigterm(p) == /\ proc[p] = "up"
              /\ proc' = [proc EXCEPT ![p] = "stopping"]
              /\ Fault
              /\ UNCHANGED <<stream, tables, pc, batch, seen>>

\* A wrong Exit, for the mutants: the stream is drained first, with a context
\* that is already cancelled.
ExitWhenDrained(w) ==
  LET p == Process[w] IN
  /\ proc[p] = "stopping" /\ pc[w] = "loop" /\ With({"new"}) = {}
  /\ pc' = [pc EXCEPT ![w] = "exited"]
  /\ proc' = IF \A v \in Workers \ {w} : Process[v] = p => pc[v] = "exited"
             THEN [proc EXCEPT ![p] = "down"] ELSE proc
  /\ NoFault
  /\ UNCHANGED <<stream, tables, batch, seen>>

\* runLoop sees ctx.Done(); main returns when Run's WaitGroup is empty.
Exit(w) ==
  LET p == Process[w] IN
  /\ proc[p] = "stopping" /\ pc[w] = "loop"
  /\ pc' = [pc EXCEPT ![w] = "exited"]
  /\ proc' = IF \A v \in Workers \ {w} : Process[v] = p => pc[v] = "exited"
             THEN [proc EXCEPT ![p] = "down"] ELSE proc
  /\ NoFault
  /\ UNCHANGED <<stream, tables, batch, seen>>

\* Forget everything the goroutines of p hold in memory.
Reset(p, to) ==
  /\ pc' = [w \in Workers |-> IF Process[w] = p THEN to ELSE pc[w]]
  /\ batch' = [w \in Workers |-> IF Process[w] = p THEN {} ELSE batch[w]]
  /\ seen' = [w \in Workers |-> IF Process[w] = p THEN NoCounts ELSE seen[w]]

Crash(p) == /\ proc[p] # "down"
            /\ proc' = [proc EXCEPT ![p] = "down"]
            /\ Reset(p, "exited")
            /\ Fault
            /\ UNCHANGED <<stream, tables>>

\* main again: the group exists already, the goroutines start at the loop.
Restart(p) == /\ proc[p] = "down"
              /\ proc' = [proc EXCEPT ![p] = "up"]
              /\ Reset(p, "loop")
              /\ NoFault
              /\ UNCHANGED <<stream, tables>>

Handle(w, i) == \/ DeadLetter(w, i) \/ Store(w, i) \/ Enqueue(w, i)
                \/ CountDay(w, i) \/ CountUser(w, i) \/ Ack(w, i)

Step(w) == \/ Read(w) \/ ReadNothing(w) \/ Reclaim(w) \/ LoseAnswer(w)
           \/ CountDeliveries(w) \/ Exit(w)
           \/ \E i \in Slots : Handle(w, i)

=============================================================================
