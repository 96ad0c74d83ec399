------------------------------ MODULE LiveFeed ------------------------------
(***************************************************************************)
(* The "Send & Monitor" tab as far as it reads: useEventSource.ts, the     *)
(* EventFeed with its seed and its fallback poll, the StatsPanel, and the  *)
(* server side of the stream, internal/sse/handler.go.                     *)
(*                                                                         *)
(* An event is its number in the order of its timestamp.  It is stored and *)
(* broadcast by the ingestion API, in this order unless the direct write   *)
(* failed and the worker stores it later (module Ingest).                  *)
(***************************************************************************)
EXTENDS Polling, FiniteSetsExt, Functions

CONSTANTS EventCount,     \* the events are 1 .. EventCount
          Matching,       \* the filters a user may set: the events they let through
          Exact,          \* Exact[m]: the events the API lets through for the filter m
          SeedLimit,      \* INITIAL_LIMIT: 50
          PollLimit,      \* limit of the fallback poll: 20
          MaxBuffer,      \* MAX_BUFFER: 100
          MaxReconnects,  \* MAX_RECONNECTS: 5
          ChanSize        \* pubSubBufSize: 64

Events == 1 .. EventCount

ASSUME FeedAssumption ==
  /\ Resources = {"seed", "fallback", "stats"}
  /\ {EventCount, SeedLimit, PollLimit, MaxBuffer, ChanSize} \subseteq Nat \ {0}
  /\ MaxReconnects \in Nat
  /\ Events \in Matching /\ Matching \subseteq SUBSET Events
  /\ Exact \in [Matching -> SUBSET Events] /\ Exact[Events] = Events
  /\ \A m \in Matching : Exact[m] \subseteq m

VARIABLES stored,         \* the rows of the events table
          cast,           \* the events broadcast
          tab,            \* "monitor" or another tab of App
          conn,           \* the EventSource and reconnectTimer
          subscribed,     \* Redis has applied the SUBSCRIBE of the handler
          chan,           \* broadcast events on their way to the browser
          buffer,         \* state.events
          status,         \* state.status
          attempt,        \* attempt
          seeded,         \* seeded.current
          filter,         \* what eventFilter and userIdFilter let through
          owed            \* history: the events the browser should have

serverVars == <<stored, cast>>
streamVars == <<conn, subscribed, chan, status, attempt>>
feedVars == <<streamVars, buffer, seeded, owed>>
vars == <<pollingVars, serverVars, feedVars, tab, filter>>

-----------------------------------------------------------------------------
\* listEvents: the newest rows, at most limit, newest first.
Newest(S, limit) ==
  [k \in 1 .. Min({limit, Cardinality(S)}) |->
     CHOOSE e \in S : Cardinality({d \in S : d > e}) = k - 1]

ListEvents(limit, match) == Newest(stored \cap match, limit)

\* What a poll of r asks for: the fetcher is called with the filters of the
\* last render.  The API compares the name and the user id for equality, the
\* browser looks for a part of them in either case.
Query(r) == IF r = "fallback" THEN Exact[filter] ELSE Events

\* What the API answers to it.
Answer(r, q) == CASE r = "seed"     -> ListEvents(SeedLimit, q)
                  [] r = "fallback" -> ListEvents(PollLimit, q)
                  [] r = "stats"    -> <<>>

Init == /\ PollingInit
        /\ stored = {} /\ cast = {}
        /\ tab = "other" /\ filter = Events
        /\ conn = "closed" /\ subscribed = FALSE /\ chan = <<>>
        /\ status = "connecting" /\ attempt = 0
        /\ buffer = <<>> /\ seeded = FALSE /\ owed = {}

-----------------------------------------------------------------------------
\* App: TabsContent mounts the tab that is shown and unmounts the others.

\* Every hook runs its effect: three polls and connect().
Enter == /\ tab = "other" /\ tab' = "monitor"
         /\ res' = [r \in Resources |-> Mounted(Events)]
         /\ conn' = "opening" /\ subscribed' = FALSE /\ chan' = <<>>
         /\ status' = "connecting" /\ attempt' = 0
         /\ buffer' = <<>> /\ seeded' = FALSE /\ owed' = {}
         /\ filter' = Events
         /\ UNCHANGED <<serverVars, online, up>>

\* The clean-up: polls are cancelled, the EventSource and its timer closed.
Leave == /\ tab = "monitor" /\ tab' = "other"
         /\ res' = [r \in Resources |-> Fresh]
         /\ conn' = "closed" /\ subscribed' = FALSE /\ chan' = <<>>
         /\ status' = "connecting" /\ attempt' = 0
         /\ buffer' = <<>> /\ seeded' = FALSE /\ owed' = {}
         /\ filter' = Events
         /\ UNCHANGED <<serverVars, online, up>>

-----------------------------------------------------------------------------
\* The server.

\* Store or the worker's InsertEvent.
Store(e) == /\ e \notin stored
            /\ stored' = stored \cup {e}
            /\ UNCHANGED <<pollingVars, cast, feedVars, tab, filter>>

\* Broadcast: only a subscription that Redis knows of, and whose channel has
\* room, gets the event.
Broadcast(e) ==
  /\ e \notin cast
  /\ cast' = cast \cup {e}
  /\ LET heard == subscribed /\ Len(chan) < ChanSize IN
       /\ chan' = IF heard THEN Append(chan, e) ELSE chan
       /\ owed' = IF heard THEN owed \cup {e} ELSE owed
  /\ UNCHANGED <<pollingVars, stored, conn, subscribed, buffer, status, attempt,
                 seeded, tab, filter>>

\* Handle calls Subscribe before it answers, and does not wait for Redis.
Subscribe == /\ up /\ conn \in {"opening", "open"} /\ ~subscribed
             /\ subscribed' = TRUE
             /\ UNCHANGED <<pollingVars, serverVars, conn, chan, status, attempt,
                            buffer, seeded, owed, tab, filter>>

-----------------------------------------------------------------------------
\* useEventSource: the reducer.

\* Array.filter: the rows that are in S.
Kept(rows, S) ==
  LET kept[n \in 0 .. Len(rows)] ==
        IF n = 0 THEN <<>>
        ELSE IF rows[n] \in S THEN Append(kept[n - 1], rows[n]) ELSE kept[n - 1]
  IN  kept[Len(rows)]

\* case 'event': an event that is in the buffer already is skipped.
WithEvent(b, e) ==
  IF Contains(b, e) THEN b ELSE SubSeq(<<e>> \o b, 1, Min({MaxBuffer, Len(b) + 1}))

\* A wrong WithSeed, for the mutants: the seed replaces what the stream has
\* delivered.
SeedReplaces(b, s) == s

\* case 'seed': what the stream delivered first, then the seed without it.
WithSeed(b, s) ==
  LET merged == b \o Kept(s, Events \ Range(b))
  IN  SubSeq(merged, 1, Min({MaxBuffer, Len(merged)}))

\* fallbackActive changes the interval, so the effect of the fallback runs
\* again whenever status becomes, or stops being, "error".
Restarted(new) == IF (status = "error") = (new = "error") THEN res
                  ELSE [res EXCEPT !["fallback"] = Started(@, Query("fallback"))]

\* onopen.
OnOpen == /\ up /\ conn = "opening"
          /\ conn' = "open" /\ attempt' = 0
          /\ status' = "open" /\ res' = Restarted("open")
          /\ Report(TRUE)
          /\ UNCHANGED <<up, serverVars, subscribed, chan, buffer, seeded, owed, tab, filter>>

\* onmessage.
OnMessage == /\ conn = "open" /\ chan # <<>>
             /\ chan' = Tail(chan)
             /\ buffer' = WithEvent(buffer, Head(chan))
             /\ UNCHANGED <<pollingVars, serverVars, conn, subscribed, status, attempt,
                            seeded, owed, tab, filter>>

\* A wrong Delayed, for the mutants: no more reconnects after the fast ones.
DelayedFast == IF attempt >= MaxReconnects THEN "closed" ELSE "backoff"

\* The timer that onerror sets: up to MAX_RECONNECTS fast ones, then 60 s.
Delayed == IF attempt >= MaxReconnects THEN "slow" ELSE "backoff"

\* onerror: what was under way is lost.  A stream that is open ends with the
\* API up as well: statusRecorder has no Unwrap, so that SetWriteDeadline fails
\* and the first message after WriteTimeout severs the connection.  Any message
\* of the project does that, so it may happen at any time.
OnError ==
  /\ conn = "open" \/ (conn = "opening" /\ ~up)
  /\ conn' = Delayed /\ attempt' = IF attempt >= MaxReconnects THEN attempt ELSE attempt + 1
  /\ subscribed' = FALSE /\ chan' = <<>> /\ owed' = owed \ Range(chan)
  /\ status' = "error" /\ res' = Restarted("error")
  /\ Report(FALSE)
  /\ UNCHANGED <<up, serverVars, buffer, seeded, tab, filter>>

\* reconnectTimer fires: connect(true).
Reconnect == /\ conn \in {"backoff", "slow"}
             /\ conn' = "opening" /\ attempt' = IF conn = "slow" THEN 0 ELSE attempt
             /\ status' = "connecting" /\ res' = Restarted("connecting")
             /\ UNCHANGED <<online, up, serverVars, subscribed, chan, buffer, seeded,
                            owed, tab, filter>>

-----------------------------------------------------------------------------
\* The polls of the tab.

\* Which of them have an interval: the seed is read once.
Periodic(r) == r = "stats" \/ (r = "fallback" /\ status = "error")

PollTick(r) == /\ tab = "monitor" /\ Periodic(r)
               /\ Tick(r, Query(r))
               /\ UNCHANGED <<serverVars, feedVars, tab, filter>>

PollServe(r) == /\ \E i \in DOMAIN res[r].flights : Serve(r, i, Answer(r, res[r].flights[i].ask))
                /\ UNCHANGED <<serverVars, feedVars, tab, filter>>

\* A poll lands.  The effect on seedEvents dispatches 'seed' once, when there
\* is something in it.
PollLand(r) ==
  /\ \E i \in DOMAIN res[r].flights :
       LET f == res[r].flights[i]
           seeds == r = "seed" /\ f.at = "ok" /\ ~seeded /\ f.got # <<>>
       IN  /\ Land(r, i)
           /\ buffer' = IF seeds THEN WithSeed(buffer, f.got) ELSE buffer
           /\ owed' = IF seeds THEN owed \cup Range(f.got) ELSE owed
           /\ seeded' = (seeded \/ seeds)
  /\ UNCHANGED <<serverVars, streamVars, tab, filter>>

\* EventFilters, and the user id of an event that is clicked on.
SetFilter(m) == /\ tab = "monitor" /\ m # filter
                /\ filter' = m
                /\ UNCHANGED <<pollingVars, serverVars, feedVars, tab>>

-----------------------------------------------------------------------------
\* The filtering of events, by their name and user id.
Filtered(rows) == Kept(rows, filter)

\* displayEvents, and what is on screen.
Shown == LET d == res["fallback"].data
         IN  Filtered(IF status = "error" /\ d # NoData THEN d ELSE buffer)

FeedWeather == Weather /\ UNCHANGED <<serverVars, feedVars, tab, filter>>

Next == \/ Enter \/ Leave
        \/ \E e \in Events : Store(e) \/ Broadcast(e)
        \/ Subscribe \/ OnOpen \/ OnMessage \/ OnError \/ Reconnect
        \/ \E r \in Resources : PollTick(r) \/ PollServe(r) \/ PollLand(r)
        \/ \E m \in Matching : SetFilter(m)
        \/ FeedWeather

Spec == Init /\ [][Next]_vars

\* Timers fire, and requests are answered or fail in the end.
FairSpec == /\ Spec
            /\ WF_vars(Subscribe) /\ WF_vars(OnOpen) /\ WF_vars(OnMessage)
            /\ WF_vars(Reconnect)
            /\ \A r \in Resources : /\ WF_vars(PollTick(r))
                                    /\ WF_vars(PollServe(r))
                                    /\ WF_vars(PollLand(r))

-----------------------------------------------------------------------------
\* useEventSource.ts 30-53 and EventFeed.tsx 103-111: however the seed, the
\* stream and its interruptions are interleaved, an event that the seed or the
\* stream brought is on screen exactly once if it passes the filter, unless
\* newer ones fill the buffer.
FeedIsComplete ==
  /\ IsInjective(Shown) /\ Len(buffer) <= MaxBuffer
  /\ status # "error" /\ Len(buffer) < MaxBuffer =>
       owed \cap filter \subseteq Range(Shown) \cup Range(chan)

\* useEventSource.ts 116-135: while the API is up the stream is open again and
\* again, after any number of failed reconnects.  It does not stay open: the
\* server severs it (see OnError).
StreamReopens == <>[](up /\ tab = "monitor") => []<>(status = "open")

\* connection.ts 17-29: the banner never stays while the API is up, in whatever
\* order late failures and successes are reported.  Every severed stream shows
\* it again.
BannerGoes == <>[](up /\ tab = "monitor") => []<>~Banner

=============================================================================
