----------------------------- MODULE Dispatcher -----------------------------
(***************************************************************************)
(* Webhook delivery, internal/webhooks: subscriptions, the rows of         *)
(* webhook_deliveries, and the dispatchers (one per worker process) that   *)
(* claim due rows in batches and POST them one after the other.            *)
(*                                                                         *)
(* Time is relative: next_retry_at is kept as the ticks to wait until it,  *)
(* at least -Overdue.  A POST takes up to Timeout ticks; database calls    *)
(* take none, unless a fault makes one slow.                               *)
(***************************************************************************)
EXTENDS Integers, FiniteSets, Faults

CONSTANTS Subs,           \* webhook_subscriptions
          Events,         \* processed events
          Matches,        \* pairs <<s, e>>: filter_event of s lets e pass
          Dispatchers,    \* the dispatcher goroutines
          BatchSize,      \* 50
          Timeout,        \* HTTPTimeout: 10 seconds
          Buffer,         \* 30 seconds
          MinInterval,    \* 1 second
          MaxAttempts,    \* 5
          BaseBackoff,    \* 1 second
          MaxBackoff,     \* 1 hour
          Overdue         \* bound: rows overdue by more are not told apart

ASSUME DispatcherAssumption ==
  /\ IsFiniteSet(Subs) /\ IsFiniteSet(Events)
  /\ Matches \subseteq Subs \X Events
  /\ \A n \in {BatchSize, Timeout, MaxAttempts, BaseBackoff} : n \in Nat \ {0}
  /\ \A n \in {Buffer, MinInterval, Overdue, MaxBackoff} : n \in Nat
  /\ BaseBackoff <= MaxBackoff

VARIABLES sub,            \* the state of each subscription
          row,            \* the delivery rows, keyed by <<s, e>>
          phase,          \* where each dispatcher is
          todo,           \* the claimed rows it is not done with
          copy,           \* DeliveryWithSub.Attempts of the rows it claimed
          job,            \* the row it attempts, the rest of the timeout, the result
          cool,           \* subLimiter: ticks until the subscription is allowed
          oks,            \* history: 2xx answers received for a row
          tried,          \* history: attempts made for a row
          causes          \* history: rows of which an answer, a result or the
                          \* claim was lost while a dispatcher had them

dispatcherVars == <<phase, todo, copy, job, cool>>
historyVars == <<oks, tried, causes>>
vars == <<sub, row, dispatcherVars, historyVars, faults>>

Deliveries == Subs \X Events

NoRow == [st |-> "none", att |-> 0, wait |-> 0]

Pending == {d \in Deliveries : row[d].st = "pending"}

ClaimWindow == Timeout * 2 + Buffer

MaxWait == IF ClaimWindow > MaxBackoff THEN ClaimWindow ELSE MaxBackoff

\* nextBackoff(n): the loop doubles, and cuts off at MaxBackoff.
nextBackoff[n \in 1 .. MaxAttempts] ==
  IF n = 1 THEN BaseBackoff
  ELSE IF nextBackoff[n - 1] * 2 > MaxBackoff THEN MaxBackoff ELSE nextBackoff[n - 1] * 2

NoJob == [d |-> <<>>, left |-> 0, ok |-> FALSE]

NoCopy == [d \in Deliveries |-> 0]

NoCool == [s \in Subs |-> 0]

Init == /\ sub = [s \in Subs |-> "none"]
        /\ row = [d \in Deliveries |-> NoRow]
        /\ phase = [x \in Dispatchers |-> "idle"]
        /\ todo = [x \in Dispatchers |-> {}]
        /\ copy = [x \in Dispatchers |-> NoCopy]
        /\ job = [x \in Dispatchers |-> NoJob]
        /\ cool = [x \in Dispatchers |-> NoCool]
        /\ oks = [d \in Deliveries |-> 0]
        /\ tried = [d \in Deliveries |-> 0]
        /\ causes = {}
        /\ faults = 0

-----------------------------------------------------------------------------
\* The subscription handlers and the worker's enqueuer.

HandleCreate(s) == /\ sub[s] = "none"
                   /\ sub' = [sub EXCEPT ![s] = "active"]
                   /\ NoFault
                   /\ UNCHANGED <<row, dispatcherVars, historyVars>>

\* The rows of the subscription go with it (ON DELETE CASCADE).
HandleDelete(s) == /\ sub[s] = "active"
                   /\ sub' = [sub EXCEPT ![s] = "deleted"]
                   /\ row' = [d \in Deliveries |-> IF d[1] = s THEN NoRow ELSE row[d]]
                   /\ NoFault
                   /\ UNCHANGED <<dispatcherVars, historyVars>>

\* EnqueueDeliveries, again when the stream message is processed again.
Enqueue(e) ==
  /\ row' = [d \in Deliveries |->
               IF d \in Matches /\ d[2] = e /\ sub[d[1]] = "active" /\ row[d].st = "none"
               THEN [NoRow EXCEPT !.st = "pending"] ELSE row[d]]
  /\ NoFault
  /\ UNCHANGED <<sub, dispatcherVars, historyVars>>

-----------------------------------------------------------------------------
\* processBatch: ClaimDueDeliveries.

Due == {d \in Pending : row[d].wait <= 0}

\* ORDER BY next_retry_at LIMIT BatchSize.
Claimable == {S \in SUBSET Due :
                /\ Cardinality(S) = IF Cardinality(Due) < BatchSize
                                    THEN Cardinality(Due) ELSE BatchSize
                /\ \A d \in S, f \in Due \ S : row[d].wait <= row[f].wait}

\* A wrong Bump, for the mutants: claimed rows stay due.
BumpNothing(S) == row' = row

Bump(S) == row' = [d \in Deliveries |->
                     IF d \in S THEN [row[d] EXCEPT !.wait = ClaimWindow] ELSE row[d]]

Claim(x) ==
  /\ phase[x] = "idle" /\ Due # {}
  /\ \E S \in Claimable :
       /\ Bump(S)
       /\ \/ /\ todo' = [todo EXCEPT ![x] = S]
             /\ copy' = [copy EXCEPT ![x] =
                           [d \in Deliveries |-> IF d \in S THEN row[d].att ELSE 0]]
             /\ phase' = [phase EXCEPT ![x] = "batch"]
             /\ NoFault
          \* The UPDATE is committed and its answer lost.
          \/ Fault /\ UNCHANGED <<todo, copy, phase>>
  /\ UNCHANGED <<sub, job, cool, historyVars>>

-----------------------------------------------------------------------------
\* attempt, for one row of the batch.

\* Done with d; the ticker may fire again when the batch is empty.
Finish(x, d) == /\ todo' = [todo EXCEPT ![x] = @ \ {d}]
                /\ copy' = [copy EXCEPT ![x][d] = 0]
                /\ phase' = [phase EXCEPT ![x] = IF todo[x] = {d} THEN "idle" ELSE "batch"]

\* A wrong Skip, for the mutants: a skipped row is charged an attempt.
SkipCounts(x, d) ==
  /\ phase[x] = "batch" /\ d \in todo[x]
  /\ cool[x][d[1]] > 0
  /\ row' = [row EXCEPT ![d].att = IF @ < MaxAttempts - 1 THEN @ + 1 ELSE @]
  /\ Finish(x, d)
  /\ NoFault
  /\ UNCHANGED <<sub, job, cool, historyVars>>

\* subLimiter.allow says no: the row stays claimed.
Skip(x, d) == /\ phase[x] = "batch" /\ d \in todo[x]
              /\ cool[x][d[1]] > 0
              /\ Finish(x, d)
              /\ NoFault
              /\ UNCHANGED <<sub, row, job, cool, historyVars>>

\* subLimiter.allow says yes.  DecryptSecret may fail, which counts as a failed
\* attempt; with which keys and secrets it does is not modelled.
Start(x, d) ==
  /\ phase[x] = "batch" /\ d \in todo[x]
  /\ cool[x][d[1]] = 0
  /\ cool' = [cool EXCEPT ![x][d[1]] = MinInterval]
  /\ tried' = [tried EXCEPT ![d] = IF @ < MaxAttempts THEN @ + 1 ELSE @]
  /\ job' = [job EXCEPT ![x] = [d |-> d, left |-> Timeout, ok |-> FALSE]]
  /\ \E to \in {"post", "record"} : phase' = [phase EXCEPT ![x] = to]
  /\ NoFault
  /\ UNCHANGED <<sub, row, todo, copy, oks, causes>>

\* A wrong Post, for the mutants: any answer counts as delivered.
PostIgnoresStatus(x) ==
  /\ phase[x] = "post"
  /\ phase' = [phase EXCEPT ![x] = "record"]
  /\ job' = [job EXCEPT ![x].ok = TRUE]
  /\ \/ oks' = [oks EXCEPT ![job[x].d] = IF @ < 2 THEN @ + 1 ELSE @]
     \/ UNCHANGED oks
  /\ NoFault
  /\ UNCHANGED <<sub, row, todo, copy, cool, tried, causes>>

\* Client.Deliver returns: the receiver took the request and its 2xx answer came
\* in time; or it took it, and the answer is late, lost or not read; or it did
\* not take it.
Post(x) ==
  /\ phase[x] = "post"
  /\ phase' = [phase EXCEPT ![x] = "record"]
  /\ \/ /\ job' = [job EXCEPT ![x].ok = TRUE]
        /\ oks' = [oks EXCEPT ![job[x].d] = IF @ < 2 THEN @ + 1 ELSE @]
        /\ UNCHANGED causes
     \/ causes' = causes \cup {job[x].d} /\ UNCHANGED <<job, oks>>
     \/ UNCHANGED <<job, oks, causes>>
  /\ NoFault
  /\ UNCHANGED <<sub, row, todo, copy, cool, tried>>

\* An UPDATE of the row d, if it still exists.
Update(d, r) == row' = IF row[d].st = "none" THEN row ELSE [row EXCEPT ![d] = r]

MarkDelivered(d) == Update(d, [row[d] EXCEPT !.st = "delivered"])

\* A wrong RescheduleOrFail, for the mutants: attempts is not stored.
RescheduleForever(d, n) ==
  Update(d, [st |-> "pending", att |-> row[d].att, wait |-> nextBackoff[n]])

RescheduleOrFail(d, n) ==
  Update(d, IF n >= MaxAttempts THEN [st |-> "failed", att |-> n, wait |-> 0]
                                ELSE [st |-> "pending", att |-> n, wait |-> nextBackoff[n]])

\* The rows of which x has a 2xx answer that it has not written down.
Unwritten(x) == IF phase[x] = "record" /\ job[x].ok THEN {job[x].d} ELSE {}

\* The result is written down; an error is only logged.
Record(x, d) ==
  /\ phase[x] = "record" /\ job[x].d = d
  /\ \/ /\ IF job[x].ok THEN MarkDelivered(d) ELSE RescheduleOrFail(d, copy[x][d] + 1)
        /\ UNCHANGED causes
        /\ NoFault
     \/ Fault /\ UNCHANGED row /\ causes' = causes \cup Unwritten(x)
  /\ Finish(x, d)
  /\ job' = [job EXCEPT ![x] = NoJob]
  /\ UNCHANGED <<sub, cool, oks, tried>>

-----------------------------------------------------------------------------
\* The worker process dies and is started again.
Crash(x) == /\ phase[x] # "idle"
            /\ phase' = [phase EXCEPT ![x] = "idle"]
            /\ todo' = [todo EXCEPT ![x] = {}]
            /\ copy' = [copy EXCEPT ![x] = NoCopy]
            /\ job' = [job EXCEPT ![x] = NoJob]
            /\ cool' = [cool EXCEPT ![x] = NoCool]
            /\ causes' = causes \cup Unwritten(x)
            /\ Fault
            /\ UNCHANGED <<sub, row, oks, tried>>

\* Time passes for a dispatcher between polls or within its POST; for one in
\* a database call it takes a fault.
Waits(x) == phase[x] = "idle" \/ (phase[x] = "post" /\ job[x].left > 0)

Down(n, min) == IF n > min THEN n - 1 ELSE n

\* Rows whose claim runs out with the next tick while they are in a batch.
Lapsing == {d \in Pending : row[d].wait = 1 /\ \E x \in Dispatchers : d \in todo[x]}

Tick ==
  /\ \A x \in Dispatchers : phase[x] = "post" => job[x].left > 0
  /\ row' = [d \in Deliveries |->
               IF d \in Pending THEN [row[d] EXCEPT !.wait = Down(@, -Overdue)] ELSE row[d]]
  /\ job' = [x \in Dispatchers |-> [job[x] EXCEPT !.left = Down(@, 0)]]
  /\ cool' = [x \in Dispatchers |-> [s \in Subs |-> Down(cool[x][s], 0)]]
  /\ IF \A x \in Dispatchers : Waits(x) THEN NoFault ELSE Fault
  /\ causes' = causes \cup Lapsing
  /\ UNCHANGED <<sub, phase, todo, copy, oks, tried>>

Step(x) == \/ Claim(x) \/ Post(x)
           \/ \E d \in Deliveries : Skip(x, d) \/ Start(x, d) \/ Record(x, d)

Next == \/ \E s \in Subs : HandleCreate(s) \/ HandleDelete(s)
        \/ \E e \in Events : Enqueue(e)
        \/ \E x \in Dispatchers : Step(x) \/ Crash(x)
        \/ Tick

Spec == Init /\ [][Next]_vars

\* Dispatchers keep polling and time passes.
FairSpec == /\ Spec
            /\ \A x \in Dispatchers : WF_vars(Step(x))
            /\ WF_vars(Tick)

-----------------------------------------------------------------------------
TypeOK ==
  /\ sub \in [Subs -> {"none", "active", "deleted"}]
  /\ row \in [Deliveries -> [st : {"none", "pending", "delivered", "failed"},
                             att : 0 .. MaxAttempts, wait : -Overdue .. MaxWait]]
  /\ phase \in [Dispatchers -> {"idle", "batch", "post", "record"}]
  /\ todo \in [Dispatchers -> SUBSET Deliveries]
  /\ copy \in [Dispatchers -> [Deliveries -> 0 .. MaxAttempts - 1]]
  /\ job \in [Dispatchers -> [d : Deliveries \cup {<<>>}, left : 0 .. Timeout, ok : BOOLEAN]]
  /\ cool \in [Dispatchers -> [Subs -> 0 .. MinInterval]]
  /\ oks \in [Deliveries -> 0 .. 2]
  /\ tried \in [Deliveries -> 0 .. MaxAttempts]
  /\ causes \subseteq Deliveries
  /\ faults \in 0 .. MaxFaults

\* dispatcher.go 129-137, store.go 135-144: a row says delivered only if its
\* receiver answered 2xx, whoever else has claimed the row.
DeliveredIsReceived == \A d \in Deliveries : row[d].st = "delivered" => oks[d] > 0

\* dispatcher.go 107-113, 143-149: a row is given up only after MaxAttempts
\* attempts were made, although the count written back is a copy taken when
\* the row was claimed and another dispatcher may have written since.
FailedOnlyAfterMaxAttempts ==
  \A d \in Deliveries : row[d].st = "failed" => tried[d] >= MaxAttempts

\* What store.go 87-89 says of claims: a row is not sent again once its
\* receiver has accepted it and said so.
NoDoubleSend == \A d \in Deliveries : oks[d] <= 1

\* store.go 87-132, dispatcher.go 75-161: a receiver that has accepted a row is
\* sent it again for three reasons only: an answer was late or lost, a success
\* was not written down (a crash or a failed UPDATE), or the claim ran out
\* while a dispatcher was still at its batch.  Otherwise claims keep
\* dispatchers apart, whatever is retried, skipped, deleted or lost on the way.
ResentOnlyWithCause == \A d \in Deliveries : oks[d] > 1 => d \in causes

\* dispatcher.go 61-161: every row is delivered, given up or deleted in the
\* end, skipped and retried as it may be, whatever crashes or fails to be
\* recorded.
EveryRowEnds == \A d \in Deliveries : (row[d].st = "pending") ~> (row[d].st # "pending")

=============================================================================
