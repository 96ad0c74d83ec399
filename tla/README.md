# EventPulse in TLA+

TLA+ models of [EventPulse](../src/README.md), the TLC configurations that check them on small
instances, and TLAPS proofs of their main safety properties for all parameters. Everything here is
translated from the source; where documents and source disagree, the source is modelled and the
disagreement is recorded (see "Where documents and code disagree").

## 1. Inventory

EventPulse ingests product-analytics events over HTTP, queues them in a Redis stream, stores them in
PostgreSQL, and serves analytics, a live feed and webhooks. The parts, in the order an event meets them:

| Part | State it keeps | Operations | Talks to | Hard behaviours | Correct if |
|---|---|---|---|---|---|
| TypeScript SDK (`sdk/src`) | queue, interval timer, the flush in flight | `track`, `identify`, `trackBatch`, `flush`, `destroy`; timer; `send`, `withRetry` | ingestion API over HTTP | flushes by size, timer and hand meet a batch in flight; retries of an accepted POST | no event is lost, sent in two batches or reported sent without being accepted; flushes return |
| Rate limiter: circuit breaker (`internal/ratelimit/circuit_breaker.go`) | three atomics; a gauge | `allow`, `recordSuccess`, `recordFailure`, notification | Redis (through the script) | lock-free updates of three words by concurrent requests | only legal transitions; counter reset; recovers |
| Rate limiter: sliding window (`ratelimit.go`) | a sorted set per API key with a TTL | Lua script, `Allow`, Retry-After | Redis | clock read before the script runs; scripts reordered or run twice; rounding | the rate is bounded; Retry-After is exact |
| Schema registry (`internal/schemas`) | `event_schemas` row; compiled cache per API process; singleflight | `HandleUpsert`, `HandleDelete`, `resolveEntry`, `Invalidate` | PostgreSQL; called by ingestion | cache fill races invalidation; waiters share the leader's fate; replicas | one flight; stale only after a race; every validation ends |
| Ingestion handlers (`internal/events/handler.go`) | none of their own | `HandleIngest`, `HandleBatchIngest` | publish to the stream, write directly to PostgreSQL, broadcast | a pipeline of XADDs that fails in part, is repeated, or whose answer is lost; crash in mid-handler | an event answered 202 is never lost; a rejected batch leaves nothing |
| Stream (`internal/queue`) | entries; the group's pending list and delivery counts | `Publish`, `PublishBatch`, `Read`, `Reclaim`, `deliveryCounts`, `Ack` | Redis | delivery counts read in a second round trip; lost answers | – (promises of Redis) |
| Worker (`internal/worker`, `cmd/worker`) | goroutines with the batch in hand | `runLoop`, `reclaimAndProcess`, `handleMessage`, `deadLetter`, shutdown | stream, PostgreSQL, webhook rows | redelivery to a second goroutine while the first is working; crash or SIGTERM between any two calls; errors that are ignored | nothing is acknowledged before it is durable; no early dead letter; every entry is settled |
| Event tables (`internal/events/store.go`, migrations) | events, daily counts, active users, dead letters | `Store`, `BatchStore`, upserts | PostgreSQL | idempotency keys; aggregates that are not idempotent | counted at most once per delivery |
| Webhooks (`internal/webhooks`) | subscriptions, `webhook_deliveries`; per process a rate limiter and a claimed batch | create, delete, enqueue, claim, attempt, mark, reschedule | PostgreSQL, receivers | claims that lapse, copies of attempt counts, crashes after the POST, cascade delete in mid-attempt | what a row says is true; what was accepted is sent again only for a known cause; every row ends |
| Live feed (`internal/sse`) | one Redis subscription per connection | broadcast, `Handle` | ingestion, dashboard | SUBSCRIBE is not awaited; a full channel drops; reconnecting clients | who is subscribed hears it |
| Dashboard hooks (`web/src/hooks`, `web/src/lib/connection.ts`) | per use: data, status, polls in flight; the EventSource with its timer, the buffer; one online flag | poll, interval, `refetch`; connect, `onopen`, `onmessage`, `onerror`; `reportSuccess`, `reportFailure` | live feed, API | answers out of order, clean-up with polls in flight, reconnects, late failures | nothing received is missing or shown twice; a severed stream is reopened; a refresh is never overwritten by an older poll |
| Monitor tab (`EventFeed`, `StatsPanel`, `EventFilters`) | seeded flag, filters | seed, fallback, filtering | both hooks | seed and stream deliver the same event in any order; filters change under a poll | as above |
| Analytics tab (the cards) and `internal/analytics` | the polled answers; `UserActivity`'s selected user, rows, requests | poll, refresh, select a user; funnel, retention, lists in SQL | API, events table | answers of two selections cross; boundaries of buckets, windows and days | views lose and double nothing; funnel and retention agree with what they are defined to count |
| Console (`EventSender`, `WebhookPanel`, `SchemaPanel`, `RateLimitBanner`) | busy flags, lockout, flashes with timers, the two lists | send four ways, create, register, delete, test; open, close, leave | API, SDK | handlers outlive their component; answers are lost; timers of an older message | the send, save and test buttons are disabled exactly while a request of theirs runs, a delete button only then; the lockout holds; lists are the API's; everything transient goes |
| Authentication, health, routing, configuration, telemetry, tracing, docs, seed, load test, remaining UI | – | – | – | wiring, read-only lookups, rendering | not modelled |

`PROJECT.json` lists the same parts with their files, and the hazards of each with the line where
they bite.

## 2. Modules

| Module | Models | Uses |
|---|---|---|
| `Faults` | the budget of environment faults (failed, ambiguous or slow calls, crashes, signals) | – |
| `Stream` | Redis stream and consumer group as `internal/queue` uses them | – |
| `Postgres` | the tables the ingestion path writes, one operator per SQL statement | `Stream` |
| `Ingest` | the ingestion handlers | `Postgres`, `Faults` |
| `Worker` | worker processes and their goroutines | `Postgres`, `Faults` |
| `Pipeline` | ingestion handlers and workers composed over stream and tables; the pipeline's properties; its refinement mapping | `Ingest`, `Worker`, `AtLeastOnce` |
| `AtLeastOnce` | abstract: a queue whose entries are accepted, settled and acknowledged, each for good | – |
| `PipelineProofs` | TLAPS proofs about `Pipeline`, the refinement included | `Pipeline` |
| `Breaker` | the circuit breaker, one action per atomic operation | – |
| `SlidingWindow` | the rate-limit script, clock readings, expiry, Retry-After | – |
| `RateLimitProofs` | TLAPS proofs about both halves of the rate limiter | `Breaker`, `SlidingWindow` |
| `SchemaCache` | schema row, caches, singleflight, writers | `Faults` |
| `SchemaCacheProofs` | TLAPS proofs about `SchemaCache` | `SchemaCache` |
| `Dispatcher` | webhook subscriptions, delivery rows, dispatchers, relative time | `Faults` |
| `DispatcherProofs` | TLAPS proofs about `Dispatcher` | `Dispatcher` |
| `Batcher` | the TypeScript SDK | – |
| `BatcherProofs` | TLAPS proofs about `Batcher` | `Batcher` |
| `Polling` | the polling hook and the connection store | – |
| `LiveFeed` | SSE handler, `useEventSource`, the monitor tab | `Polling` |
| `LiveFeedProofs` | TLAPS proofs about `LiveFeed` | `LiveFeed` |
| `Charts` | queries of `internal/analytics` and the views the cards derive, as operators with reference definitions | – |
| `Analytics` | the analytics tab: polling cards, refresh, `UserActivity` | `Polling`, `Charts` |
| `AnalyticsProofs` | TLAPS proofs about `Analytics` | `Analytics` |
| `Sender` | `EventSender` and the lockout | – |
| `Panels` | `WebhookPanel`, `SchemaPanel` and the rows of the API they list | – |
| `Console` | the two composed inside the tab that is mounted and unmounted | `Sender`, `Panels` |
| `ConsoleProofs` | TLAPS proofs about `Console` | `Console` |
| `MC*` | small instances for TLC | one of the above |

Operators whose comment begins "A wrong ..." are mutations of the operator that follows them: a
plausible bug in that piece of code. They are not part of any specification. Each property of a passing run is known to
fail when the mutation named beside it in `PROJECT.json` takes the place of the original, so no
property holds merely by the shape of the model.

### How state and actions correspond to the code

**Pipeline.** `stream[i]` is a stream entry with what the consumer group knows of it: status (`new`,
`pending`, `idle` for MinIdleTime, `acked`) and the delivery counter `n`. `rows`, `daily`, `active`,
`hooks`, `dlq` are the tables; `daily[i]` is what entry `i` has added to its row of daily_event_counts. `req[q]` is a request inside `HandleBatchIngest` (`HandleIngest` is a
batch of one): `Decode` (all validation, before anything is written), `Publish` (one XADD of the
pipeline at a time, with the pipeline's error remembered), `DirectStore`, `Broadcast`. Note the order:
the code publishes first and writes directly afterwards, although the repository's README.md:46 describes the
direct write as coming before XADD. A goroutine `w` has its place `pc[w]` in `runLoop` /
`handleMessage`, its unfinished `batch[w]`, and `seen[w]`, the delivery counts `Reclaim` attached. Every
call that leaves the process is an action: `Read`, `Reclaim`, `CountDeliveries` (XPENDING over the claimed
range, cut off at as many replies as there are claimed entries), `Store`, `Enqueue`, `CountDay`,
`CountUser`, `Ack`, `DeadLetter`. Each may fail (a fault), and where it matters may fail after taking
effect. When the process is stopping its context is cancelled and every call fails for free. The stream
is durable and never trimmed (the code sets no MAXLEN).

**Breaker.** `state`, `failures`, `age` (time since `openedAt`) are the three atomics, `gauge` the
exported metric. One action per Load, CompareAndSwap, Add or Store, in program order. `time.Now()` and the Store of `openedAt` are two
steps (`ReadNow`, `Stamp`): `seen` ages while a request is held up between them, and what it stores then is that old. The comparison of `openedAt` with the clock
(`CheckAge`) is one step: time that passes between the two readings could only turn the request away, which changes nothing of the breaker. A request may stall after it, before its CompareAndSwap. `healthy` says
whether script calls succeed; it changes freely. History variables: `sinceOpen`, the time since the state
became open, `opener` and `stampedBy`, who opened the breaker and who stored `openedAt` last, and `overlapped`, whether the state ever changed while a notification was still due.

**SlidingWindow.** Members of the sorted set are [age, nano]; time is relative, so the model is finite
without a bound on time. A caller reads its clock, the script runs up to `MaxLag` later, once or twice.

**SchemaCache.** One (project, event name). A schema is the number of the write that made it. Compiling,
JSON Schema evaluation and the list/get handlers are left out. The cache is a plain map without eviction,
as in the code (docs/tradeoffs.md speaks of an LRU).

**Dispatcher.** `row[<<s, e>>]` is a `webhook_deliveries` row; `wait` is `next_retry_at` relative to now.
`Claim` is the UPDATE with SKIP LOCKED; `copy` holds the attempt counts that travel with a claimed batch and are
written back later. What receivers answer, and whether a secret can be decrypted, is nondeterministic. A POST is answered, is not received, or is received
and its answer late or lost, which the dispatcher takes for a failure. `causes` (history) holds the rows for which one of three things has happened: an answer was late or lost, a success
was not written down, or the claim ran out while the row was in a batch.

**Batcher.** JavaScript is single-threaded, so an action is what runs between two awaits. `send` holds the
runs of `AutoBatcher.send`: the one `flushInFlight` points to, and those of `trackBatch`.

**AtLeastOnce.** Its entries are the stream's. An entry is accepted when it is in the stream, settled when its event has a
row (its own or one with the same idempotency key) or a dead letter, acked when the group has acknowledged it. `Pipeline` maps to it with
`Queue == INSTANCE AtLeastOnce WITH ...`.

**Polling, LiveFeed.** A poll in flight is first served by the API and lands later, so that an answer can be
old when it arrives; polls are not ordered. Those of a cleaned-up effect are dropped at once, because the hook ignores what
they return. `conn` is the EventSource: opening, open, or one of the two reconnect timers. An open stream may end at any time, with the API up or down
(`OnError`): the handler cannot clear the write deadline (section 6), so that any message after `WriteTimeout` severs it. A filter is two sets, the events whose name
and user id contain what was typed (the browser's filter) and those where they are equal to it (`Exact`, the API's). `subscribed` is set
after the connection or before it opens, since the handler does not wait for Redis to apply SUBSCRIBE. An event is its number in
the order of timestamps; storing and broadcasting are separate, as in `Ingest`. `owed` (history) is what the browser was really
sent. `StatsPanel`'s two polls behave alike and are one resource. `feed_stream` does not keep the rows the fallback
reads (`ReadsData = {}`): while the stream is in error the display is whatever was read last, and of this display `FeedIsComplete` only says that it shows
nothing twice. The proof of `FeedIsComplete` is for every `ReadsData`. Lists are sorted by rank and filtered by a recursive function, so that proofs can unfold them.

**Charts, Analytics.** A table is a sequence of rows [name, user, at]. The events table only grows, so a polled answer
is represented by the number of rows it was computed from. `Charts` states, next to each computation, what it is to compute (`ListViewsOf`,
`FunnelOf`, `RetentionOf`), and `Analytics` checks it on the tables of its behaviours and on every table of up to `SampleSize` rows over
`SampleRows`. What the code sorts is sorted by rank (`Sorted`), so that proofs can unfold it. `Today` is the UTC date of the Go process (the first cohort)
and PostgreSQL's CURRENT_DATE (the last day) in one; around midnight, or with another time zone of the session, they differ by a day, which adds or takes a column.

**Sender, Panels, Console.** A handler is split at its await. Its component may be unmounted meanwhile: the call then stays in
`sends` or `calls` with `live = FALSE`, and what it sets on its old state has no effect, while what it sets on its parent's does (`pipelining`).
The API acts on a call, refuses it, or acts and has its answer lost. `clean` (history) records that nothing happened which
the code lets set a list apart from the API's. The filter of a list is a recursive function and the API's order a rank, so that proofs can
unfold them. Only this browser changes the API's rows: what other clients of the project create or delete is not listed before the panel is opened again, and `ListIsServer` does not speak of it.

## 3. Runs

All with `tlc -workers 2 -config <cfg> <module>`; each finishes in about two minutes or less.

| Run | Instance | Shows |
|---|---|---|
| `pipeline_requests` | three requests (an event; its repetition with the same key in a batch of two; a batch with an invalid event), two goroutines, 3 stream slots, 1 fault | `AcceptedIsNeverLost`, `FaultFreeIsExactlyOnce` |
| `pipeline_redelivery` | one event and one malformed entry, two processes, 2 faults, fairness | `AckedIsSettled`, `GivenUpOnlyWhenExhausted`, `CountedAtMostOncePerDelivery`, `IsAtLeastOnce` (refinement), `EveryEntrySettles`, `ShutdownTerminates` |
| `breaker_requests` | two request slots, threshold 2, reset time 2, fail-closed, fairness | `CounterIsCleared`, `OpenersStampIsNotOlder`, `GaugeUnlessOverlapped`, `LegalTransitions`, `OpenIsProbed`, `ClosesAfterRecovery` |
| `window_limit` | two senders, limit 2, window 4 ms, lag 1 ms, 2 clock readings per ms, a "second" of 2 ms | `RateIsBounded`, `RetryAfterIsExact` |
| `dispatcher_claims` | two dispatchers, two rows of one subscription, 3 attempts, timeout and claim window that let a batch outlast its claim, 1 fault, fairness | `DeliveredIsReceived`, `FailedOnlyAfterMaxAttempts`, `ResentOnlyWithCause`, `EveryRowEnds` |
| `schema_replicas` | two requests and two writers on one replica, a third writer on another, 1 fault, fairness | `FreshUnlessRaced`, `EveryValidationEnds` |
| `batcher_batches` | three events, one `trackBatch`, one `flush`, queue and batch size 2, 3 attempts, fairness | `InOnePlace`, `OutcomeIsTrue`, `UnsharedFlushSettles`, `NothingIsForgotten`, `EveryEventSettles`, `EveryFlushReturns` |
| `feed_stream` | two events, a filter that hides one in the browser and both at the API, buffer 2, one fast reconnect, channel of 1, fairness | `FeedIsComplete`, `StreamReopens`, `BannerGoes` |
| `analytics_cards` | one refreshable card with two polls in flight, two users with two requests, two rows; all tables of up to 4 of 7 sample rows | `ListedIsSelected`, `ListViewsAgree`, `FunnelIsSound`, `RetentionIsComplete`, `ForwardUnlessOverlapped` |
| `console_clicks` | five clicks of any kind, one schema name, two webhooks, a lockout of 1 or 2 seconds, fairness | `BusyFlagsAreTrue`, `LockoutHolds`, `ListIsServer`, `ConsoleSettles` |
| `dispatcher_doc_claim`, `schema_doc_fresh` | minimal instances | a statement of a document or comment that the code does not keep (section 6) |

Modules state type invariants too (`TypeOK`). Those of `Pipeline`, `Breaker` and `Batcher` are theorems, the others are part of the inductive
invariants of section 4; the runs spend their properties on what could really go wrong.

**Why the bounds are enough.** A goroutine, dispatcher, request or caller only ever interferes with another
through shared state, and every listed hazard needs two of them. Three deliveries are what the dead-letter threshold
needs; two faults on one entry reach it, and the third delivery is still free to succeed. A fault budget of
one or two is spent anywhere, so each run covers every place a single failure, or pair of failures, can hit.
Two stream entries make the cut-off XPENDING reply happen. In `dispatcher_claims`, as with the defaults of the code, a batch of timeouts
outlasts its claim, so that the other dispatcher takes over rows that are still being attempted. The properties that are proved (section 4) hold without these bounds. In `feed_stream` one fast
reconnect and then a slow one show the whole cycle of the attempt counter; a buffer of 2 is filled by the two events, a channel of 1
overflows. In `batcher_batches` three events make a batch larger than the API takes only through `trackBatch`; a queue that has outgrown its limit behind a busy flush is covered by the theorems. In `analytics_cards` two polls, or two requests, are what overtaking takes; the sample rows hold steps within, outside and
on the edge of the window, on the edge of two buckets, on three days, without a user, and in the browser's future. In
`console_clicks` five clicks let a handler outlive its component, meet the next mount's handlers, and conflict with a change of the same row.
Symmetry (of goroutines of one process) is used in `pipeline_requests` only, which checks no liveness property.

**Deadlock** is checked everywhere except in the SDK, where a destroyed client with an empty queue really has nothing left to do,
and in the console, where the user has stopped clicking.

**Fairness, and why the code justifies it.**
- *Pipeline*: handlers run to their end; goroutines loop until their context ends, with a 2 s block on Read
  and a ticker for Reclaim; time passes for entries nobody holds; the platform restarts a worker that is
  down (`railway.worker.toml:6`, restart policy "always"). Faults are never required, only finitely many.
- *Breaker*: requests keep arriving and run to their end, and time passes. `OpenIsProbed` really needs the
  first: without traffic an open breaker stays open.
- *SchemaCache*: handlers run to their end.
- *Dispatcher*: the ticker keeps firing, POSTs end (HTTP timeout), time passes.
- *Batcher*: `fetch` settles, timers fire.
- *LiveFeed*: intervals and the reconnect timer fire, requests are answered or fail, Redis applies SUBSCRIBE, the browser reports a stream as open once
  the API answers. Nothing is assumed of the network: `StreamReopens` and `BannerGoes` only speak of behaviours in which the API stays up from some point on, and there they say
that the stream is open, and the banner gone, again and again. That they stay so would be false: nothing keeps the server from severing the stream.
- *Console*: requests are answered or fail, timers fire. The user need not click.

## 4. Proofs

The 29 properties of the passing runs that are not liveness properties are theorems: all invariants, the action properties and the refinement, for every value of the constants the modules' assumptions allow. Except where it is
said otherwise an assumption only gives types, or bounds a set that is finite in every deployment.

`PipelineProofs` proves, for every number of requests, batches, events, goroutines, processes, entries and
faults:
- `TypeCorrect`: `Spec => []TypeOK`;
- `NoEntryIsLost`: `Spec => []AckedIsSettled`;
- `NoAcceptedEventIsLost`: `Spec => []AcceptedIsNeverLost`;
- `NoEarlyDeadLetter`: `Spec => []GivenUpOnlyWhenExhausted`;
- `CountedPerDelivery`: `Spec => []CountedAtMostOncePerDelivery`;
- `ExactlyOnceWithoutFaults`: `Spec => []FaultFreeIsExactlyOnce`;
- `PipelineIsAtLeastOnce`: `Spec => IsAtLeastOnce`, the pipeline implements `AtLeastOnce`.

Assumptions are the ones the modules state about their constants (`MaxFaultsAssumption`, `StreamAssumption`,
`KeyAssumption`, `UserAssumption`, `IngestAssumption`, `WorkerAssumption`); TLC evaluates them in the runs. Two say more than types:
there are finitely many goroutines, and an event (with the ID the handler gave it) belongs to one place of one request; a client's repetition is
another event with the same key.

None of these invariants is inductive alone. The inductive invariant (`Invariance`) adds:
- with the types, `UsedHasEvent` (a used slot holds an event), `HeldIsDelivered` (a goroutine only holds
  entries that were delivered), `PublishPosition` (where a request is in its batch);
- `PublishedPrefix`: a request past `Publish` without an error has put every event before `next` in the stream.
  This is what makes a 202 mean something;
- `StoredBeforeAck`: a goroutine past `Store` has its event's row, and one that came to `ack` through
  `deadLetter` has the dead-letter row. It ties the local place in `handleMessage` to the shared tables,
  which other goroutines only extend;
- `SeenIsPast`: a delivery count in a goroutine's memory is never larger than the entry's counter now, which
  is why acting on a stale or missing count cannot give up early;
- `LoopHoldsNothing` and `DeadLetteredIsUsed`, which keep counts and dead letters from outliving their entries.
The steps are lemmas: what each stream operation does to entries (`StreamGrows`: entries are never removed, their event never
changes, counters only grow), what each handler step does to the tables, and then one case per action.

The refinement rests on the same invariant. Initially nothing is accepted. A step of `Ingest` either puts events in free slots (`AcceptingStep`), which cannot
be settled or acknowledged yet by `DeadLetteredIsUsed` and `UsedIsNotFree`, or writes a row, which settles entries (`SettlingStep`). A step of a goroutine
settles (`Store`, `DeadLetter`), acknowledges (`AckingStep`: only entries it has settled, by `StoredBeforeAck`), or changes nothing the abstract queue sees. That rows, dead letters and
acknowledgements are never taken back is `StepIsDurable`.

`CountedAtMostOncePerDelivery` needs a budget (`CountBudget`): what an entry has added to the daily count, plus the goroutines that may still add to it,
is at most the number of its deliveries. Every delivery lets one more goroutine count, and each counts once. For `FaultFreeIsExactlyOnce` the
invariant says what does not happen before the first fault (`Undisturbed`: nothing is reclaimed or left behind, a pending entry is held by
one goroutine, it was delivered once), what a goroutine has done when it is at a given call (`DoneInOrder`), and that
an event has one entry (`OneEntryEach`, from `FromHandler`: entries are published by a handler that has gone past them). That one row stands for a key is
`OneRowEach`: `InsertEvents` skips what conflicts with a row or with an earlier event of its batch. The theorem asks nothing of the aggregates of a repeated key: the code counts the repetition (section 6).

`RateLimitProofs` proves, about `Breaker`, for every set of concurrent requests, threshold and reset time (`BreakerAssumption`):
`TypeCorrect`, `CounterAlwaysCleared`, `OpenersStampNeverOlder`, `GaugeIsRight`, `OnlyLegalTransitions`.
`CounterIsCleared` is inductive relative to the types; `OpenersStampIsNotOlder` needs that the time an opener has read and not yet stored is not older than its opening
(`ReadIsNotOlder`). It speaks of an `openedAt` that the last opener was also the last to store: an earlier opener that is held up between reading and storing overwrites it with an
older time, which is no fault of the model but of the code; `GaugeUnlessOverlapped` needs `GaugeInv`: without an overlap
at most one request owes a notification, and what it is going to report is the current state.

About `SlidingWindow` it proves, for every limit, window, lag and set of senders (`WindowAssumption`: the lag is shorter than the window):
- `RateIsLimited`: `WindowSpec => []RateIsBounded`. The admitted requests are not counted by the script but by the set, so the invariant says that
  the set holds at most `Limit` members (`SetIsBounded`), that each admitted request is in it while it is in the window
  (`AdmittedIsCounted`), and that the key's expiry does not take members that are still in the window (`OutlivesWindow`);
- `RetryAfterIsRight`: `WindowSpec => RetryAfterIsExact`, an action property: the seconds told are enough, and one less is not. It rests on the oldest member
  being the maximum of a finite set of ages and on what rounding up does.

`SchemaCacheProofs`, for every number of requests, writers and replicas: `StaleOnlyAfterRace` (`FreshUnlessRaced`). A request is validated with
what the cache holds or with what a fill under way has read, so the invariant says of both that they are not older than the last write the replica
has answered (`CacheIsFresh`, `FillIsFresh`), which is not older than what the request may expect (`FloorIsPast`).

`DispatcherProofs`, for every set of subscriptions, events and dispatchers, every timing and number of attempts:
- `DeliveredIsTrue` (`DeliveredIsReceived`) and `GivenUpIsTried` (`FailedOnlyAfterMaxAttempts`). The attempt counts that are written back are copies, so
  `CountedIsTried` bounds rows and copies by the attempts made, and `OkIsReceived` ties the result a dispatcher carries to the receiver;
- `ResendHasCause` (`ResentOnlyWithCause`), for every batch size, timeout and claim window. As long as a row has no cause, at most one dispatcher has it in its batch, its claim has not run
  out, and nobody carries a result for it that contradicts the row (`Exclusive`); so a row that was accepted once is marked delivered and not claimed again. Each way out of that state is one of
  the three causes.

`BatcherProofs`, for every set of events and calls and every size: `TypeCorrect`, `OneBatchPerEvent` (`InOnePlace`), `NoEventForgotten`
(`NothingIsForgotten`, an action property), `OutcomesAreTrue` (`OutcomeIsTrue`), `UnsharedFlushIsTrue` (`UnsharedFlushSettles`). The invariant says that an event has at most one
holder (`OneHolder`, with `QueuedOnce`), that a send's attempts are the POSTs of its events (`PostsAreAttempts`), and that what a flush waits for is settled
or in the batch it waits for (`WaitersAreCovered`).

`AnalyticsProofs`, for every number of cards, rows, polls and requests: `ListedIsRight` (`ListedIsSelected`) and `CardsGoForward`
(`ForwardUnlessOverlapped`, an action property). `PollsAreSound` bounds what a poll in flight brings from both sides: not more rows than the table has, not
fewer than when its effect started, and without an overlap not fewer than the card shows. `RequestIsSelected`: without a race the only request is that of the user selected.
Of what the cards compute it proves, for every table of rows, not only those of up to `SampleSize` rows (`ChartsAssumption`: types, finitely many users, at least two steps, and a
timeline that does not begin before the epoch):
- `FunnelsAreSound` (`FunnelIsSound`). The time of a user's step is the least time after the step before (`StepTimeFacts`). By induction over the steps who has a time has
  a chain of events (`TimedIsChained`), and a chain within one window never lags behind these times (`ChainedIsTimed`); so the sets of users only shrink (`FunnelNarrows`);
- `RetentionsAreComplete` (`RetentionIsComplete`). A user's first day is one day, so the cohorts are disjoint and their sizes add up to the number of
  users (`SumIsCount`, by induction over the days), and each offset lies between 0 and the largest one of the grid (`OffsetFacts`, `CellFacts`);
- `ViewsAgree` (`ListViewsAgree`). Whatever is sorted is sorted by rank (`Sorted`): ranks of a strict total order are different and below the number of elements, so
  each rank is taken once and nothing is lost or doubled (`SortedFacts`). Hence the counts add up to the number of rows, whoever is left out of the top comes after them, and
  the index of a bar is the only interval its row is in (`IndexFacts`). Each percentage is rounded by at most half a point, and the sum of the exact ones is 100 (`RoundingBound`).

`LiveFeedProofs`, for every number of events, page size, buffer, channel, number of reconnects and set of filters: `FeedsAreComplete` (`FeedIsComplete`). The invariant
(`FeedInv`) says that the buffer, and every answer kept or under way, is a list without repetition, and that what the browser is owed is in the buffer or in the
channel until the buffer is full. It is kept because the reducer never shortens the buffer: the step that fills it is the last that can cut anything off
(`WithEventFacts`, `WithSeedFacts`, which rest on what joining, cutting and filtering lists do: `JoinFacts`, `CapFacts`, `KeptFacts`). The theorem is about `Spec`, which `FairSpec` implies.

`ConsoleProofs`, for every number of clicks, schemas and webhooks:
- `LockoutIsKept` (`LockoutHolds`): the lockout is set by the answer of a send, and at that moment no other send of the component is
  under way (`OneLiveSend`);
- `ButtonsAreTrue` (`BusyFlagsAreTrue`): a flag is a Boolean, so it can only be right if at most one call stands behind it (`SaveMatches`, `TestsMatch`); a test that is
  under way has its row in the list, and a save drops no other row (`FilteredFacts`, by induction along the list). That a row leaves the list together with its test
  is what `Concludes` says of every answer;
- `ListsAreTrue` (`ListIsServer`): the list and the rows of the API differ while calls are under way, so the invariant (`ListInv`) says by how much. The API has exactly the rows that
  the panel lists or will list once it knows of the changes made for it (`Accounts`), a load under way is alone (`LoadAlone`), and no row is saved and deleted at once (`Apart`).
  The flag `clean` is lowered at every step that breaks one of these; nothing else does. Without calls the difference is nothing, which is the property.

Where a proof needs induction over numbers or along a list it uses the least-number principle (`LeastNatural`, `LeastNumber`, from the well-foundedness of < on the naturals): the
set of counterexamples has a least element.

**Only model-checked**: the liveness properties, since the prover has no rules for fairness (`EveryEntrySettles`, `ShutdownTerminates`, `OpenIsProbed`, `ClosesAfterRecovery`,
`EveryRowEnds`, `EveryValidationEnds`, `EveryEventSettles`, `EveryFlushReturns`, `StreamReopens`, `BannerGoes`, `ConsoleSettles`), and the two counterexamples of section 6.

## 5. Not modelled

SSRF address checks, AES-GCM and HMAC (arithmetic on bytes); JSON and JSON Schema; `Stats` and `TopEvents` of the analytics (single aggregate
queries) and the parsing of query parameters; authentication (one read-only lookup); metrics other than the breaker's gauge; tracing; loss of
Redis data (the stream is taken to be durable) and the creation of the consumer group at start-up, after which
every read would fail until the workers restart (`consumer.go:38`). Queue statistics only read.

Of the dashboard: layout and wording, the request log, which rows are expanded, `lastUpdated`, the counters of reconnects and
sent events (shown only), keep-alive comments of the stream, the double mounting of React's StrictMode (development builds only), components that render props, or a polled resource without a
computation of their own, and `components/ui`, which is generated.

## 6. Where documents and code disagree

Shown by a run (the `findings` of `PROJECT.json`):
- `dispatcher_doc_claim`: a batch can take longer to POST than its claim lasts (50 x 10 s against
  50 s), so another dispatcher sends its rows again, without any fault; `store.go:88` says claims prevent it.
- `schema_doc_fresh`: a cache fill that read the old row lands after `Invalidate`; docs/tradeoffs.md:314 says
  "subsequent ingestions immediately see the updated schema".

Seen while modelling, and visible in the models, but not kept as runs:
- A failed `EnqueueDeliveries` is logged and the message acknowledged, so its webhooks are never queued; docs/tradeoffs.md:277
  promises "No drops".
- `RescheduleOrFail` and `MarkDelivered` do not look at the row's status, so a dispatcher whose claim has run out can set a delivered row back to pending, or to failed.
- `sse/handler.go:54` says that the write deadline is cleared, since the server's timeout "would sever SSE connections after every timeout interval", and docs/slo.md:94 counts on
  "cleared write deadlines". `SetWriteDeadline` fails: `statusRecorder` (`telemetry/middleware.go:14`), which both middlewares put around the writer, has no `Unwrap`. So the first
  message more than 10 s (`config.go:42`) after the connection severs it; what was under way is lost, the banner appears and the feed reconnects.
- `flush()` during a flight returns that flight's promise and leaves the queue unsent; `client.ts:54` says
  "Force-flush all queued events immediately."
- A repetition with the same Idempotency-Key stores no second row, but it is an entry of its own: without any fault the worker counts it again in daily_event_counts, enqueues
  webhooks for it (its event ID is new, so the unique index does not help) and `HandleIngest` broadcasts it again. docs/api.md:137 says that it "produces no duplicate event", docs/api.md:166 that it is
  "silently dropped", and README.md:22 and 144 that it "stores nothing" and "appears once in the feed". `FaultFreeIsExactlyOnce` therefore asks for one row per key, and for counts and webhooks only of events whose key is not repeated.
- An entry is dead-lettered on its third delivery, after two failed attempts, and possibly after its
  event was stored (README.md:25, docs/api.md:106).
- `deadLetter` looks for `project_id` in a payload whose field is `ProjectID`, so the dead letters of a project are
  not counted by the queue statistics.
- SIGTERM cancels the context that `handleMessage` uses, so the message in hand is not finished (`worker.go:44`).
- In the breaker, successes do not reset the counter while it is closed (`circuit_breaker.go:11` says
  "consecutive"), and a probe can come before `resetAfter` has elapsed (line 12): between the CompareAndSwap to open and the Store of `openedAt`; after an earlier opener, held up between
  reading the clock and storing it, has overwritten a newer time; and by a request that has compared an old `openedAt` and stalls before its CompareAndSwap. Reordered notifications can leave the gauge wrong until the next transition.
- The limiter is wired with the default `FailClosed`; README.md:146 says it fails open.
- Two requests that read the same nanosecond share one member of the rate-limit set (`ratelimit.go:98`).
- `Invalidate` reaches one replica only (docs/tradeoffs.md:211 calls the API stateless), and waiters of a singleflight leader whose client hangs up
  are accepted unvalidated.
- While a flush is in flight the SDK's queue grows past `maxQueueSize`, and the next batch may be larger than
  the API accepts.

- The fallback poll runs at mount and whenever the status enters or leaves "error"; `EventFeed.tsx:131` says "only when SSE is in error state". It asks the API for
  equality with the filters (`analytics.go:103`), where the browser looks for a part in either case (`EventFeed.tsx:112`), so that typing half a name empties the fallback. On an
  error the display switches to whatever the fallback read last, which may be old, until the next poll lands.
- The seed is read once and never retried; events of an outage, or between connection and SUBSCRIBE, are not shown until the tab is
  mounted again. `useEventSource` goes on with slow reconnects for ever, although
  `useEventSource.ts:66` says "max 5 times".
- Overlapping polls of one card can take it back to an older answer (`overlapped`); two selections in `UserActivity` can leave one user's rows
  under another's name (`raced`).
- The funnel follows each user from the earliest event of the first step only: a later, complete pass is not counted.
- In the console: the lockout is forgotten when the tab is left, and a 429 in the duplicate demo starts none; a send that ends puts out
  the pipeline light of another one; an older timer takes back a newer flash; one slot marks the row being deleted, so that any delete that ends clears it; creating
  a webhook while the list loads can show it twice; a schema's delete error stays; a lost answer is logged as a 400, and leaves the list without the row that was created, or with the one that was deleted, until the panel is opened again.

## 7. Plan

Done: the pipeline with its proofs and its refinement of the abstract queue; rate limiter, schema cache, webhook dispatcher, SDK, live feed, analytics tab and
console, each with the proofs of all its safety properties.

Next, in this order:
1. Composition of `Dispatcher` behind `Worker`'s `Enqueue`, so that "stored" leads to "sent" end to end.
2. Proofs of the liveness properties, should the prover get rules for fairness: the invariants they would start from are those of section 4.
