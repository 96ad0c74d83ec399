--------------------------- MODULE BatcherProofs ----------------------------
(***************************************************************************)
(* Proofs about Batcher, for every set of events and of calls, every size  *)
(* of the queue and of a batch, and every number of retries.               *)
(***************************************************************************)
EXTENDS Batcher, FiniteSetTheorems, TLAPS

\* A send that is not under way has no batch.
NoneIsEmpty == \A s \in Sends : send[s].at = "none" => send[s].batch = {}

\* No event is queued twice.
QueuedOnce == IsInjective(queue)

\* An event is in at most one of the sends, the queue and the settled ones.
OneHolder(e) ==
  /\ \A s, t \in Sends : e \in send[s].batch /\ e \in send[t].batch => s = t
  /\ \A s \in Sends : e \in send[s].batch => e \notin Queued /\ result[e] = "none"
  /\ e \in Queued => result[e] = "none"

\* Events are POSTed by sends only, once in each of their attempts.
PostsAreAttempts ==
  /\ \A s \in Sends : send[s].at = "sleep" => send[s].attempt < MaxRetries - 1
  /\ \A s \in Sends : \A e \in send[s].batch :
       posts[e] = IF send[s].at = "sleep" THEN send[s].attempt + 1 ELSE send[s].attempt
  /\ \A e \in Events : result[e] = "none" /\ (\A s \in Sends : e \notin send[s].batch) =>
       posts[e] = 0

\* What a flush waits for is in the batch it waits for.
WaitersAreCovered ==
  \A f \in Flushes : await[f].at = "waiting" /\ ~await[f].shared =>
    \A e \in await[f].need : result[e] # "none" \/ e \in send["flush"].batch

IInv == /\ TypeOK /\ NoneIsEmpty /\ QueuedOnce /\ \A e \in Events : OneHolder(e)
        /\ PostsAreAttempts /\ OutcomeIsTrue /\ WaitersAreCovered /\ UnsharedFlushSettles

-----------------------------------------------------------------------------
Send == [at : {"none", "fetch", "sleep"}, batch : SUBSET Events, attempt : 0 .. MaxRetries - 1]
Await == [at : {"none", "waiting", "done"}, need : SUBSET Events, shared : BOOLEAN]

LEMMA Numbers == MaxRetries \in Nat \ {0}
BY BatcherAssumption

\* The names of places do not collide.
LEMMA Names == /\ "flush" \in Sends /\ "queue" \notin Sends /\ "settled" \notin Sends
               /\ Calls \subseteq Sends /\ "flush" \notin Calls
BY BatcherAssumption DEF Sends

\* What a fresh send is.
LEMMA BeginType ==
  ASSUME NEW S \in SUBSET Events
  PROVE  /\ Begin(S) \in Send /\ Begin(S).at = "fetch"
         /\ Begin(S).batch = S /\ Begin(S).attempt = 0
BY Numbers DEF Begin, Send

LEMMA NoSendType == /\ NoSend \in Send /\ NoSend.at = "none" /\ NoSend.batch = {}
BY Numbers DEF NoSend, Send

\* The events of a queue, and of a queue with one more.
LEMMA Queues ==
  ASSUME NEW q \in Seq(Events)
  PROVE  /\ Range(q) \subseteq Events
         /\ \A e \in Events : /\ Append(q, e) \in Seq(Events)
                              /\ Range(Append(q, e)) = Range(q) \cup {e}
                              /\ IsInjective(q) /\ e \notin Range(q) => IsInjective(Append(q, e))
         /\ <<>> \in Seq(Events) /\ Range(<<>>) = {} /\ IsInjective(<<>>)
<1>1. DOMAIN q = 1 .. Len(q) /\ \A i \in 1 .. Len(q) : q[i] \in Events OBVIOUS
<1>2. Range(q) \subseteq Events BY <1>1 DEF Range
<1>3. ASSUME NEW e \in Events
      PROVE  /\ Append(q, e) \in Seq(Events)
             /\ Range(Append(q, e)) = Range(q) \cup {e}
             /\ IsInjective(q) /\ e \notin Range(q) => IsInjective(Append(q, e))
  <2> DEFINE r == Append(q, e)
  <2>1. r \in Seq(Events) /\ Len(r) = Len(q) + 1 /\ DOMAIN r = 1 .. Len(q) + 1 OBVIOUS
  <2>2. r[Len(q) + 1] = e /\ \A i \in 1 .. Len(q) : r[i] = q[i] OBVIOUS
  <2>3. Len(q) \in Nat OBVIOUS
  <2> HIDE DEF r
  <2>4. Range(r) \subseteq Range(q) \cup {e} BY <1>1, <2>1, <2>2, <2>3 DEF Range
  <2>5. Range(q) \cup {e} \subseteq Range(r) BY <1>1, <2>1, <2>2, <2>3 DEF Range
  <2>6. ASSUME IsInjective(q), e \notin Range(q) PROVE IsInjective(r)
    BY <1>1, <2>1, <2>2, <2>3, <2>6 DEF Range, IsInjective
  <2> QED BY <2>1, <2>4, <2>5, <2>6 DEF r
<1>4. <<>> \in Seq(Events) /\ Range(<<>>) = {} /\ IsInjective(<<>>) BY DEF Range, IsInjective
<1> QED BY <1>2, <1>3, <1>4

\* An event is new if it is nowhere.
LEMMA NewIs ==
  ASSUME NEW e \in Events
  PROVE  e \in New <=> /\ e \notin Queued /\ result[e] = "none"
                       /\ \A s \in Sends : e \notin send[s].batch
BY DEF New, Places

\* The initial states satisfy the invariant.
LEMMA InitIInv == Init => IInv
<1> SUFFICES ASSUME Init PROVE IInv OBVIOUS
<1>0. Queued = {} /\ QueuedOnce BY DEF Init, Queued, QueuedOnce, Range, IsInjective
<1>1. TypeOK
  <2>1. NoAwait \in Await BY DEF NoAwait, Await
  <2> QED BY <2>1, NoSendType DEF Init, TypeOK, Send, Await
<1>2. NoneIsEmpty BY NoSendType DEF Init, NoneIsEmpty
<1>3. \A e \in Events : OneHolder(e) BY <1>0, NoSendType DEF Init, OneHolder
<1>4. PostsAreAttempts /\ OutcomeIsTrue
  BY NoSendType, Numbers DEF Init, PostsAreAttempts, OutcomeIsTrue
<1>5. WaitersAreCovered /\ UnsharedFlushSettles
  BY DEF Init, NoAwait, WaitersAreCovered, UnsharedFlushSettles
<1> QED BY <1>0, <1>1, <1>2, <1>3, <1>4, <1>5 DEF IInv

-----------------------------------------------------------------------------
\* What enqueue and flush do, and what stays the same: the queue becomes q, or
\* q becomes the batch in flight.
Handover(q) == \/ queue' = q /\ send' = send
               \/ /\ queue' = <<>> /\ ~Busy
                  /\ send' = [send EXCEPT !["flush"] = Begin(Range(q))]

LEMMA HandoverInv ==
  ASSUME IInv, NEW q \in Seq(Events), IsInjective(q),
         Queued \subseteq Range(q), \A e \in Range(q) \ Queued : e \in New,
         Handover(q), UNCHANGED <<result, accepted, posts>>
  PROVE  /\ queue' \in Seq(Events) /\ send' \in [Sends -> Send]
         /\ NoneIsEmpty' /\ QueuedOnce' /\ \A e \in Events : OneHolder(e)'
         /\ PostsAreAttempts' /\ OutcomeIsTrue'
         /\ \A e \in send["flush"].batch : e \in send'["flush"].batch
         /\ \A e \in Events : e \in New' => e \in New
<1> DEFINE R == Range(q)
<1>0. R \subseteq Events BY Queues
<1>1. send \in [Sends -> Send] /\ "flush" \in Sends BY Names DEF IInv, TypeOK, Send
<1>2. \A e \in R : result[e] = "none" /\ \A s \in Sends : e \notin send[s].batch
  BY <1>0, NewIs DEF IInv, OneHolder
<1>3. CASE queue' = q /\ send' = send
  <2>1. Queued' = R BY <1>3 DEF Queued
  <2>2. \A e \in Events : OneHolder(e)'
    BY <1>2, <1>3, <2>1 DEF IInv, OneHolder
  <2>3. NoneIsEmpty' /\ QueuedOnce' BY <1>3 DEF IInv, NoneIsEmpty, QueuedOnce
  <2>4. PostsAreAttempts' /\ OutcomeIsTrue' BY <1>3 DEF IInv, PostsAreAttempts, OutcomeIsTrue
  <2>5. \A e \in Events : e \in New' => e \in New
    <3>1. \A e \in Events : e \in New' <=> /\ e \notin Queued' /\ result'[e] = "none"
                                           /\ \A s \in Sends : e \notin send'[s].batch
      BY DEF New, Places
    <3> QED BY <1>3, <2>1, <3>1, NewIs
  <2> QED BY <1>1, <1>3, <2>2, <2>3, <2>4, <2>5
<1>4. CASE /\ queue' = <<>> /\ ~Busy
           /\ send' = [send EXCEPT !["flush"] = Begin(R)]
  <2>1. Queued' = {} BY <1>4, Queues DEF Queued
  <2>2. /\ Begin(R) \in Send /\ Begin(R).at = "fetch"
        /\ Begin(R).batch = R /\ Begin(R).attempt = 0
    BY <1>0, BeginType
  <2>3. /\ send' \in [Sends -> Send] /\ send'["flush"] = Begin(R)
        /\ \A s \in Sends \ {"flush"} : send'[s] = send[s]
    BY <1>1, <1>4, <2>2
  <2>4. send["flush"].batch = {} BY <1>1, <1>4 DEF IInv, NoneIsEmpty, Busy
  <2>5. \A e \in Events : OneHolder(e)' BY <1>2, <2>1, <2>2, <2>3 DEF IInv, OneHolder
  <2>6. NoneIsEmpty' BY <2>2, <2>3 DEF IInv, NoneIsEmpty
  <2>7. QueuedOnce' BY <1>4, Queues DEF QueuedOnce
  <2>8. OutcomeIsTrue' BY DEF IInv, OutcomeIsTrue
  <2>9. PostsAreAttempts'
    <3>1. \A e \in R : posts[e] = 0 BY <1>0, <1>2 DEF IInv, PostsAreAttempts
    <3>2. \A s \in Sends : send'[s].at = "sleep" => s # "flush" BY <2>2, <2>3
    <3>3. \A s \in Sends : \A e \in send'[s].batch :
            posts[e] = IF send'[s].at = "sleep" THEN send'[s].attempt + 1 ELSE send'[s].attempt
      BY <2>2, <2>3, <3>1 DEF IInv, PostsAreAttempts
    <3>4. \A e \in Events : result[e] = "none" /\ (\A s \in Sends : e \notin send'[s].batch) =>
            posts[e] = 0
      BY <2>3, <2>4 DEF IInv, PostsAreAttempts
    <3> QED BY <2>3, <3>2, <3>3, <3>4 DEF IInv, PostsAreAttempts
  <2>10. \A e \in Events : e \in New' => e \in New
    <3>1. \A e \in Events : e \in New' <=> /\ e \notin Queued' /\ result'[e] = "none"
                                           /\ \A s \in Sends : e \notin send'[s].batch
      BY DEF New, Places
    <3> QED BY <1>1, <2>2, <2>3, <2>4, <3>1, NewIs
  <2> QED BY <1>4, <2>3, <2>4, <2>5, <2>6, <2>7, <2>8, <2>9, <2>10, Queues
<1> QED BY <1>3, <1>4 DEF Handover

\* What flush() makes of the queue.
LEMMA FlushHandsOver == ASSUME NEW q, Flush(q) PROVE Handover(q)
BY DEF Flush, Handover

\* The waiting flushes are left alone while their batch stays in flight.
LEMMA WaitersStay ==
  ASSUME IInv, UNCHANGED <<await, result>>,
         \A e \in send["flush"].batch : e \in send'["flush"].batch
  PROVE  WaitersAreCovered' /\ UnsharedFlushSettles'
BY DEF IInv, WaitersAreCovered, UnsharedFlushSettles

\* track
LEMMA TrackInv == ASSUME IInv, NEW e \in Events, Track(e) PROVE IInv' /\ New' \subseteq New
<1> DEFINE q == Append(queue, e)
<1>0. e \in New /\ UNCHANGED <<timer, result, await, accepted, posts>> BY DEF Track
<1>1. queue \in Seq(Events) BY DEF IInv, TypeOK
<1>2. e \notin Range(queue) BY <1>0, NewIs DEF Queued
<1>3. q \in Seq(Events) /\ Range(q) = Queued \cup {e} /\ IsInjective(q)
  BY <1>1, <1>2, Queues DEF Queued, IInv, QueuedOnce
<1>4. Handover(q) BY FlushHandsOver DEF Track, Handover
<1> HIDE DEF q
<1>5. /\ queue' \in Seq(Events) /\ send' \in [Sends -> Send]
      /\ NoneIsEmpty' /\ QueuedOnce' /\ \A f \in Events : OneHolder(f)'
      /\ PostsAreAttempts' /\ OutcomeIsTrue'
      /\ \A f \in send["flush"].batch : f \in send'["flush"].batch
      /\ \A f \in Events : f \in New' => f \in New
  BY <1>0, <1>3, <1>4, HandoverInv
<1>6. TypeOK' BY <1>0, <1>5 DEF IInv, TypeOK, Send
<1>7. WaitersAreCovered' /\ UnsharedFlushSettles' BY <1>0, <1>5, WaitersStay
<1>8. New' \subseteq Events BY DEF New
<1> QED BY <1>5, <1>6, <1>7, <1>8 DEF IInv

\* The timer.
LEMMA IntervalInv == ASSUME IInv, Interval PROVE IInv' /\ New' \subseteq New
<1>0. UNCHANGED <<timer, result, await, accepted, posts>> BY DEF Interval
<1>1. queue \in Seq(Events) BY DEF IInv, TypeOK
<1>2. Handover(queue) BY FlushHandsOver DEF Interval
<1>3. /\ queue' \in Seq(Events) /\ send' \in [Sends -> Send]
      /\ NoneIsEmpty' /\ QueuedOnce' /\ \A f \in Events : OneHolder(f)'
      /\ PostsAreAttempts' /\ OutcomeIsTrue'
      /\ \A f \in send["flush"].batch : f \in send'["flush"].batch
      /\ \A f \in Events : f \in New' => f \in New
  BY <1>0, <1>1, <1>2, HandoverInv DEF Queued, IInv, QueuedOnce
<1>4. TypeOK' BY <1>0, <1>3 DEF IInv, TypeOK, Send
<1>5. WaitersAreCovered' /\ UnsharedFlushSettles' BY <1>0, <1>3, WaitersStay
<1>6. New' \subseteq Events BY DEF New
<1> QED BY <1>3, <1>4, <1>5, <1>6 DEF IInv

\* flush() called by the application: with nothing in flight, all that is
\* queued becomes the batch that the call waits for.
LEMMA AwaitFlushInv == ASSUME IInv, NEW f \in Flushes, AwaitFlush(f) PROVE IInv' /\ New' \subseteq New
<1> DEFINE a == [at |-> IF Busy \/ queue # <<>> THEN "waiting" ELSE "done",
                 need |-> Queued, shared |-> Busy]
<1>0. /\ UNCHANGED <<timer, result, accepted, posts>>
      /\ await' = [await EXCEPT ![f] = a] /\ Flush(queue)
  BY DEF AwaitFlush
<1>1. queue \in Seq(Events) /\ Queued \subseteq Events BY Queues DEF IInv, TypeOK, Queued
<1>2. Handover(queue) BY <1>0, FlushHandsOver
<1>3. /\ queue' \in Seq(Events) /\ send' \in [Sends -> Send]
      /\ NoneIsEmpty' /\ QueuedOnce' /\ \A e \in Events : OneHolder(e)'
      /\ PostsAreAttempts' /\ OutcomeIsTrue'
      /\ \A e \in send["flush"].batch : e \in send'["flush"].batch
      /\ \A e \in Events : e \in New' => e \in New
  BY <1>0, <1>1, <1>2, HandoverInv DEF Queued, IInv, QueuedOnce
<1>4. a \in Await BY <1>1 DEF Await, Busy
<1>5. await \in [Flushes -> Await] BY DEF IInv, TypeOK, Await
<1>6. /\ await' \in [Flushes -> Await] /\ await'[f] = a
      /\ \A g \in Flushes \ {f} : await'[g] = await[g]
  BY <1>0, <1>4, <1>5
<1>7. TypeOK'
  <2>1. await' \in [Flushes -> [at : {"none", "waiting", "done"}, need : SUBSET Events,
                                shared : BOOLEAN]]
    BY <1>6 DEF Await
  <2> QED BY <1>0, <1>3, <2>1 DEF IInv, TypeOK, Send
<1>8. ~Busy /\ queue # <<>> => Queued \subseteq send'["flush"].batch
  <2> SUFFICES ASSUME ~Busy, queue # <<>> PROVE Queued \subseteq send'["flush"].batch OBVIOUS
  <2>1. send' = [send EXCEPT !["flush"] = Begin(Queued)] BY <1>0 DEF Flush, Queued
  <2>2. send'["flush"] = Begin(Queued) BY <2>1, Names DEF IInv, TypeOK
  <2> QED BY <1>1, <2>2, BeginType
<1>9. queue = <<>> => Queued = {} BY <1>1, Queues DEF Queued
<1>10. a.need = Queued /\ (a.shared <=> Busy) /\ a.at \in {"waiting", "done"}
       /\ (a.at = "waiting" <=> Busy \/ queue # <<>>)
  OBVIOUS
<1> HIDE DEF a
<1>11. WaitersAreCovered'
  <2>1. await'[f].at = "waiting" /\ ~await'[f].shared =>
          \A e \in await'[f].need : e \in send'["flush"].batch
    BY <1>6, <1>8, <1>10
  <2>2. \A g \in Flushes \ {f} : await'[g].at = "waiting" /\ ~await'[g].shared =>
          \A e \in await'[g].need : result'[e] # "none" \/ e \in send'["flush"].batch
    BY <1>0, <1>3, <1>6 DEF IInv, WaitersAreCovered
  <2> QED BY <2>1, <2>2 DEF WaitersAreCovered
<1>12. UnsharedFlushSettles'
  <2>1. await'[f].at = "done" => await'[f].need = {} BY <1>6, <1>9, <1>10
  <2> QED BY <1>0, <1>6, <2>1 DEF IInv, UnsharedFlushSettles
<1>13. New' \subseteq Events BY DEF New
<1> QED BY <1>3, <1>7, <1>11, <1>12, <1>13 DEF IInv

\* trackBatch: new events become a batch of their own.
LEMMA TrackBatchInv ==
  ASSUME IInv, NEW c \in Calls, NEW S \in SUBSET New, TrackBatch(c, S)
  PROVE  IInv' /\ New' \subseteq New
<1>0. /\ UNCHANGED <<queue, timer, result, await, accepted, posts>>
      /\ send' = [send EXCEPT ![c] = Begin(S)] /\ send[c].at = "none"
  BY DEF TrackBatch
<1>a. c \in Sends /\ c # "flush" /\ S \subseteq Events /\ "flush" \in Sends BY Names DEF New
<1>1. Begin(S) \in Send /\ Begin(S).at = "fetch" /\ Begin(S).batch = S /\ Begin(S).attempt = 0
  BY <1>a, BeginType
<1>2. send \in [Sends -> Send] BY DEF IInv, TypeOK, Send
<1>3. /\ send' \in [Sends -> Send] /\ send'[c] = Begin(S)
      /\ \A s \in Sends \ {c} : send'[s] = send[s]
  BY <1>0, <1>1, <1>2, <1>a
<1>4. \A e \in S : e \notin Queued /\ result[e] = "none" /\ \A s \in Sends : e \notin send[s].batch
  BY <1>a, NewIs
<1>5. Queued' = Queued BY <1>0 DEF Queued
<1>6. send[c].batch = {} BY <1>0, <1>a DEF IInv, NoneIsEmpty
<1>7. TypeOK' BY <1>0, <1>3 DEF IInv, TypeOK, Send
<1>8. NoneIsEmpty' BY <1>1, <1>3 DEF IInv, NoneIsEmpty
<1>9. QueuedOnce' /\ OutcomeIsTrue' BY <1>0 DEF IInv, QueuedOnce, OutcomeIsTrue
<1>10. \A e \in Events : OneHolder(e)' BY <1>0, <1>1, <1>3, <1>4, <1>5 DEF IInv, OneHolder
<1>11. PostsAreAttempts'
  <2>1. \A e \in S : posts[e] = 0 BY <1>4, <1>a DEF IInv, PostsAreAttempts
  <2>2. \A s \in Sends : send'[s].at = "sleep" => s # c BY <1>1, <1>3
  <2>3. \A s \in Sends : \A e \in send'[s].batch :
          posts[e] = IF send'[s].at = "sleep" THEN send'[s].attempt + 1 ELSE send'[s].attempt
    BY <1>1, <1>3, <2>1 DEF IInv, PostsAreAttempts
  <2>4. \A e \in Events : result[e] = "none" /\ (\A s \in Sends : e \notin send'[s].batch) =>
          posts[e] = 0
    BY <1>3, <1>6 DEF IInv, PostsAreAttempts
  <2> QED BY <1>0, <1>3, <2>2, <2>3, <2>4 DEF IInv, PostsAreAttempts
<1>12. WaitersAreCovered' /\ UnsharedFlushSettles'
  <2>1. send'["flush"] = send["flush"] BY <1>3, <1>a
  <2> QED BY <1>0, <2>1, WaitersStay
<1>13. New' \subseteq New
  <2>1. \A e \in Events : e \in New' <=> /\ e \notin Queued' /\ result'[e] = "none"
                                         /\ \A s \in Sends : e \notin send'[s].batch
    BY DEF New, Places
  <2>2. \A e \in Events : e \in New' => e \in New BY <1>0, <1>3, <1>5, <1>6, <2>1, NewIs
  <2>3. New' \subseteq Events BY DEF New
  <2> QED BY <2>2, <2>3
<1> QED BY <1>7, <1>8, <1>9, <1>10, <1>11, <1>12, <1>13 DEF IInv

-----------------------------------------------------------------------------
\* A POST of the batch of s.
Posted(s) == /\ send[s].at = "fetch" /\ UNCHANGED <<queue, timer>>
             /\ posts' = [e \in Events |-> IF e \in send[s].batch THEN posts[e] + 1 ELSE posts[e]]

\* What is known of a send that posts.
LEMMA PostedFacts ==
  ASSUME IInv, NEW s \in Sends, Posted(s)
  PROVE  /\ posts' \in [Events -> Nat] /\ \A e \in Events : posts'[e] <= MaxRetries
         /\ send[s].batch \subseteq Events /\ send[s].attempt \in 0 .. MaxRetries - 1
         /\ \A e \in send[s].batch : posts'[e] = send[s].attempt + 1
         /\ \A e \in Events \ send[s].batch : posts'[e] = posts[e]
         /\ \A t \in Sends \ {s} : \A e \in send[t].batch : posts'[e] = posts[e]
<1>1. send[s] \in Send BY DEF IInv, TypeOK, Send
<1>2. send[s].batch \subseteq Events /\ send[s].attempt \in 0 .. MaxRetries - 1 BY <1>1 DEF Send
<1>3. posts \in [Events -> Nat] BY DEF IInv, TypeOK
<1>4. \A e \in send[s].batch : posts[e] = send[s].attempt BY DEF IInv, PostsAreAttempts, Posted
<1>5. /\ \A e \in send[s].batch : posts'[e] = send[s].attempt + 1
      /\ \A e \in Events \ send[s].batch : posts'[e] = posts[e]
  BY <1>2, <1>4 DEF Posted
<1>6. posts' \in [Events -> Nat] BY <1>3 DEF Posted
<1>7. \A e \in Events : posts[e] <= MaxRetries BY DEF IInv, OutcomeIsTrue
<1>8. \A e \in Events : posts'[e] <= MaxRetries BY <1>2, <1>5, <1>7, Numbers
<1>9. \A t \in Sends \ {s} : \A e \in send[t].batch : posts'[e] = posts[e]
  <2> SUFFICES ASSUME NEW t \in Sends \ {s}, NEW e \in send[t].batch PROVE posts'[e] = posts[e]
    OBVIOUS
  <2>1. send[t] \in Send BY DEF IInv, TypeOK, Send
  <2>2. e \in Events BY <2>1 DEF Send
  <2>3. e \notin send[s].batch BY <2>2 DEF IInv, OneHolder
  <2> QED BY <1>5, <2>2, <2>3
<1> QED BY <1>2, <1>5, <1>6, <1>8, <1>9

\* The send ends with the result r for its whole batch.
LEMMA SettleInv ==
  ASSUME IInv, NEW s \in Sends, Posted(s), NEW r \in {"sent", "failed"}, Settle(s, r),
         accepted \subseteq accepted', accepted' \subseteq Events,
         r = "sent" => send[s].batch \subseteq accepted'
  PROVE  IInv' /\ New' \subseteq New
<1> DEFINE B == send[s].batch
<1>0. /\ send' = [send EXCEPT ![s] = NoSend]
      /\ result' = [e \in Events |-> IF e \in B THEN r ELSE result[e]]
      /\ UNCHANGED <<queue, timer>>
  BY DEF Settle, Posted
<1>1. send \in [Sends -> Send] BY DEF IInv, TypeOK, Send
<1>2. /\ send' \in [Sends -> Send] /\ send'[s] = NoSend
      /\ \A t \in Sends \ {s} : send'[t] = send[t]
  BY <1>0, <1>1, NoSendType
<1>a. B \subseteq Events BY PostedFacts
<1>3. /\ \A e \in B : result'[e] = r /\ e \notin Queued
      /\ \A e \in Events \ B : result'[e] = result[e]
      /\ result' \in [Events -> {"none", "sent", "failed"}]
  BY <1>0, <1>a DEF IInv, TypeOK, OneHolder
<1>4. Queued' = Queued BY <1>0 DEF Queued
<1>5. \A t \in Sends : send'[t].batch = IF t = s THEN {} ELSE send[t].batch
  BY <1>2, NoSendType
<1>w. await' = IF s # "flush" THEN await ELSE
                [f \in Flushes |-> IF await[f].at = "waiting"
                                   THEN [await[f] EXCEPT !.at = "done"] ELSE await[f]]
  BY DEF Settle
<1>6. await' \in [Flushes -> Await]
      /\ \A f \in Flushes : \/ await'[f] = await[f]
                            \/ /\ s = "flush" /\ await[f].at = "waiting" /\ await'[f].at = "done"
                               /\ await'[f].need = await[f].need
                               /\ await'[f].shared = await[f].shared
  <2>1. await \in [Flushes -> Await] BY DEF IInv, TypeOK, Await
  <2>2. \A a \in Await : LET b == [a EXCEPT !.at = "done"]
                         IN  b \in Await /\ b.at = "done" /\ b.need = a.need /\ b.shared = a.shared
    BY DEF Await
  <2> QED BY <1>w, <2>1, <2>2
<1>7. TypeOK'
  <2>1. posts' \in [Events -> Nat] BY PostedFacts
  <2> QED BY <1>0, <1>2, <1>3, <1>6, <2>1 DEF IInv, TypeOK, Send, Await
<1>8. NoneIsEmpty' BY <1>2, NoSendType DEF IInv, NoneIsEmpty
<1>9. QueuedOnce' BY <1>0 DEF IInv, QueuedOnce
<1>10. \A e \in Events : OneHolder(e)'
  <2> SUFFICES ASSUME NEW e \in Events PROVE OneHolder(e)' OBVIOUS
  <2>1. OneHolder(e) BY DEF IInv
  <2>2. \A t \in Sends : e \in send'[t].batch => t # s /\ e \in send[t].batch BY <1>5
  <2>3. e \in B => \A t \in Sends : e \notin send'[t].batch BY <2>1, <2>2 DEF OneHolder
  <2> QED BY <1>3, <1>4, <2>1, <2>2, <2>3 DEF OneHolder
<1>11. PostsAreAttempts'
  <2>1. \A t \in Sends : send'[t].at = "sleep" => t # s BY <1>2, NoSendType
  <2>2. \A t \in Sends : \A e \in send'[t].batch : t # s /\ e \in send[t].batch BY <1>5
  <2>3. \A t \in Sends : \A e \in send'[t].batch :
          posts'[e] = IF send'[t].at = "sleep" THEN send'[t].attempt + 1 ELSE send'[t].attempt
    BY <1>2, <2>2, PostedFacts DEF IInv, PostsAreAttempts
  <2>4. \A e \in Events : result'[e] = "none" /\ (\A t \in Sends : e \notin send'[t].batch) =>
          posts'[e] = 0
    <3> SUFFICES ASSUME NEW e \in Events, result'[e] = "none",
                        \A t \in Sends : e \notin send'[t].batch
                 PROVE  posts'[e] = 0
      OBVIOUS
    <3>1. e \notin B BY <1>3
    <3>2. result[e] = "none" /\ \A t \in Sends : e \notin send[t].batch BY <1>3, <1>5, <3>1
    <3>3. posts[e] = 0 BY <3>2 DEF IInv, PostsAreAttempts
    <3> QED BY <3>1, <3>3, PostedFacts
  <2> QED BY <1>2, <2>1, <2>3, <2>4 DEF IInv, PostsAreAttempts
<1>12. OutcomeIsTrue'
  <2>1. \A e \in Events : result'[e] = "sent" => e \in accepted'
    BY <1>3 DEF IInv, OutcomeIsTrue
  <2> QED BY <2>1, PostedFacts DEF OutcomeIsTrue
<1>13. WaitersAreCovered' /\ UnsharedFlushSettles'
  <2> SUFFICES ASSUME NEW f \in Flushes, ~await'[f].shared, NEW e \in await'[f].need
               PROVE  /\ await'[f].at = "waiting" =>
                           result'[e] # "none" \/ e \in send'["flush"].batch
                      /\ await'[f].at = "done" => result'[e] # "none"
    BY DEF WaitersAreCovered, UnsharedFlushSettles
  <2>0. e \in Events BY <1>6 DEF Await
  <2>1. result[e] # "none" => result'[e] # "none" BY <1>3, <2>0
  <2>2. e \in send["flush"].batch => result'[e] # "none" \/ e \in send'["flush"].batch
    BY <1>3, <1>5, Names
  <2>3. CASE await'[f] = await[f]
    BY <2>1, <2>2, <2>3 DEF IInv, WaitersAreCovered, UnsharedFlushSettles
  <2>4. CASE /\ s = "flush" /\ await[f].at = "waiting" /\ await'[f].at = "done"
             /\ await'[f].need = await[f].need /\ await'[f].shared = await[f].shared
    <3>1. result[e] # "none" \/ e \in B BY <2>4 DEF IInv, WaitersAreCovered
    <3> QED BY <1>3, <2>1, <2>4, <3>1
  <2> QED BY <1>6, <2>3, <2>4
<1>14. New' \subseteq New
  <2>1. \A e \in Events : e \in New' <=> /\ e \notin Queued' /\ result'[e] = "none"
                                         /\ \A t \in Sends : e \notin send'[t].batch
    BY DEF New, Places
  <2>2. \A e \in Events : e \in New' => e \in New BY <1>3, <1>4, <1>5, <2>1, NewIs
  <2>3. New' \subseteq Events BY DEF New
  <2> QED BY <2>2, <2>3
<1> QED BY <1>7, <1>8, <1>9, <1>10, <1>11, <1>12, <1>13, <1>14 DEF IInv

\* A send goes on with the same batch: from "fetch" to "sleep", or back.
LEMMA SameBatch ==
  ASSUME IInv, NEW s \in Sends, NEW b \in Send, send' = [send EXCEPT ![s] = b],
         b.batch = send[s].batch, b.at # "none", b.at = "sleep" => b.attempt < MaxRetries - 1,
         UNCHANGED <<queue, timer, result, await>>,
         accepted \subseteq accepted', accepted' \subseteq Events, posts' \in [Events -> Nat],
         \A e \in Events : posts'[e] <= MaxRetries,
         \A e \in Events \ b.batch : posts'[e] = posts[e],
         \A e \in b.batch : posts'[e] = IF b.at = "sleep" THEN b.attempt + 1 ELSE b.attempt
  PROVE  IInv' /\ New' \subseteq New
<1>1. /\ send' \in [Sends -> Send] /\ send'[s] = b
      /\ \A t \in Sends \ {s} : send'[t] = send[t]
  BY DEF IInv, TypeOK, Send
<1>2. \A t \in Sends : send'[t].batch = send[t].batch BY <1>1
<1>3. Queued' = Queued BY DEF Queued
<1>4. TypeOK' BY <1>1 DEF IInv, TypeOK, Send
<1>5. NoneIsEmpty' /\ QueuedOnce' BY <1>1 DEF IInv, NoneIsEmpty, QueuedOnce
<1>6. \A e \in Events : OneHolder(e)' BY <1>2, <1>3 DEF IInv, OneHolder
<1>7. PostsAreAttempts'
  <2>1. \A t \in Sends : send'[t].at = "sleep" => send'[t].attempt < MaxRetries - 1
    BY <1>1 DEF IInv, PostsAreAttempts
  <2>2. \A t \in Sends \ {s} : \A e \in send[t].batch : e \in Events \ b.batch
    <3> SUFFICES ASSUME NEW t \in Sends \ {s}, NEW e \in send[t].batch PROVE e \in Events \ b.batch
      OBVIOUS
    <3>1. send[t] \in Send BY DEF IInv, TypeOK, Send
    <3>2. e \in Events BY <3>1 DEF Send
    <3> QED BY <3>2 DEF IInv, OneHolder
  <2>3. \A t \in Sends : \A e \in send'[t].batch :
          posts'[e] = IF send'[t].at = "sleep" THEN send'[t].attempt + 1 ELSE send'[t].attempt
    BY <1>1, <1>2, <2>2 DEF IInv, PostsAreAttempts
  <2>4. \A e \in Events : result'[e] = "none" /\ (\A t \in Sends : e \notin send'[t].batch) =>
          posts'[e] = 0
    BY <1>1, <1>2 DEF IInv, PostsAreAttempts
  <2> QED BY <2>1, <2>3, <2>4 DEF PostsAreAttempts
<1>8. OutcomeIsTrue' BY DEF IInv, OutcomeIsTrue
<1>9. WaitersAreCovered' /\ UnsharedFlushSettles' BY <1>2, WaitersStay, Names
<1>10. New' \subseteq New
  <2>1. \A e \in Events : e \in New' <=> /\ e \notin Queued' /\ result'[e] = "none"
                                         /\ \A t \in Sends : e \notin send'[t].batch
    BY DEF New, Places
  <2>2. \A e \in Events : e \in New' => e \in New BY <1>2, <1>3, <2>1, NewIs
  <2>3. New' \subseteq Events BY DEF New
  <2> QED BY <2>2, <2>3
<1> QED BY <1>4, <1>5, <1>6, <1>7, <1>8, <1>9, <1>10 DEF IInv

\* withRetry sleeps, or gives up.
LEMMA RetryInv ==
  ASSUME IInv, NEW s \in Sends, Posted(s), Retry(s),
         accepted \subseteq accepted', accepted' \subseteq Events
  PROVE  IInv' /\ New' \subseteq New
<1>1. CASE send[s].attempt >= MaxRetries - 1 BY <1>1, SettleInv DEF Retry
<1>2. CASE ~(send[s].attempt >= MaxRetries - 1)
  <2>b. PICK b : b = [send[s] EXCEPT !.at = "sleep"] OBVIOUS
  <2>0. send[s] \in Send BY DEF IInv, TypeOK, Send
  <2>1. send' = [send EXCEPT ![s].at = "sleep"] /\ UNCHANGED <<result, await>> BY <1>2 DEF Retry
  <2>2. send' = [send EXCEPT ![s] = b] BY <2>1, <2>b
  <2>3. b \in Send /\ b.at = "sleep" /\ b.batch = send[s].batch /\ b.attempt = send[s].attempt
    BY <2>0, <2>b DEF Send
  <2>4. b.attempt < MaxRetries - 1 BY <1>2, <2>3, PostedFacts, Numbers
  <2>5. /\ posts' \in [Events -> Nat] /\ \A e \in Events : posts'[e] <= MaxRetries
        /\ \A e \in b.batch : posts'[e] = b.attempt + 1
        /\ \A e \in Events \ b.batch : posts'[e] = posts[e]
    BY <2>3, PostedFacts
  <2>6. UNCHANGED <<queue, timer>> BY DEF Posted
  <2> QED BY <2>1, <2>2, <2>3, <2>4, <2>5, <2>6, SameBatch
<1> QED BY <1>1, <1>2

\* One attempt of postBatch.
LEMMA FetchInv == ASSUME IInv, NEW s \in Sends, Fetch(s) PROVE IInv' /\ New' \subseteq New
<1>1. Posted(s) BY DEF Fetch, Posted
<1>2. accepted \subseteq Events /\ send[s].batch \subseteq Events
  BY <1>1, PostedFacts DEF IInv, TypeOK
<1>3. CASE accepted' = accepted \cup send[s].batch /\ Settle(s, "sent")
  BY <1>1, <1>2, <1>3, SettleInv
<1>4. CASE /\ \E P \in SUBSET (IF Cardinality(send[s].batch) <= MaxBatch
                               THEN send[s].batch ELSE {}) : accepted' = accepted \cup P
           /\ Retry(s)
  <2>1. accepted \subseteq accepted' /\ accepted' \subseteq Events BY <1>2, <1>4
  <2> QED BY <1>1, <1>4, <2>1, RetryInv
<1>5. CASE UNCHANGED accepted /\ Settle(s, "failed") BY <1>1, <1>2, <1>5, SettleInv
<1> QED BY <1>3, <1>4, <1>5 DEF Fetch

\* The next attempt.
LEMMA WakeInv == ASSUME IInv, NEW s \in Sends, Wake(s) PROVE IInv' /\ New' \subseteq New
<1>b. PICK b : b = [send[s] EXCEPT !.at = "fetch", !.attempt = @ + 1] OBVIOUS
<1>0. /\ send[s].at = "sleep" /\ UNCHANGED <<queue, timer, result, await, accepted, posts>>
      /\ send' = [send EXCEPT ![s].at = "fetch", ![s].attempt = @ + 1]
  BY DEF Wake
<1>1. send[s] \in Send BY DEF IInv, TypeOK, Send
<1>2. send[s].attempt < MaxRetries - 1 BY <1>0 DEF IInv, PostsAreAttempts
<1>3. send[s].attempt \in 0 .. MaxRetries - 1 BY <1>1 DEF Send
<1>4. b \in Send /\ b.at = "fetch" /\ b.batch = send[s].batch /\ b.attempt = send[s].attempt + 1
  <2>1. send[s].attempt + 1 \in 0 .. MaxRetries - 1 BY <1>2, <1>3, Numbers
  <2> QED BY <1>1, <1>b, <2>1 DEF Send
<1>5. send' = [send EXCEPT ![s] = b] BY <1>0, <1>b
<1>6. \A e \in send[s].batch : posts[e] = send[s].attempt + 1
  BY <1>0 DEF IInv, PostsAreAttempts
<1>7. /\ accepted \subseteq Events /\ posts \in [Events -> Nat]
      /\ \A e \in Events : posts[e] <= MaxRetries
  BY DEF IInv, TypeOK, OutcomeIsTrue
<1>8. /\ posts' \in [Events -> Nat] /\ \A e \in Events : posts'[e] <= MaxRetries
      /\ \A e \in b.batch : posts'[e] = b.attempt
      /\ \A e \in Events \ b.batch : posts'[e] = posts[e]
  BY <1>0, <1>4, <1>6, <1>7
<1>9. UNCHANGED <<queue, timer, result, await>> BY <1>0
<1>10. accepted \subseteq accepted' /\ accepted' \subseteq Events BY <1>0, <1>7
<1>11. b.at # "none" /\ (b.at = "sleep" => b.attempt < MaxRetries - 1) BY <1>4
<1> QED BY <1>4, <1>5, <1>8, <1>9, <1>10, <1>11, SameBatch

\* Nothing that matters changes.
LEMMA IdleStep ==
  ASSUME IInv, UNCHANGED <<queue, send, result, await, accepted, posts>>, timer' \in BOOLEAN
  PROVE  IInv' /\ New' \subseteq New
<1>1. Queued' = Queued BY DEF Queued
<1>2. TypeOK' BY DEF IInv, TypeOK
<1>3. /\ NoneIsEmpty' /\ QueuedOnce' /\ PostsAreAttempts' /\ OutcomeIsTrue'
      /\ WaitersAreCovered' /\ UnsharedFlushSettles'
  BY DEF IInv, NoneIsEmpty, QueuedOnce, PostsAreAttempts, OutcomeIsTrue, WaitersAreCovered,
         UnsharedFlushSettles
<1>4. \A e \in Events : OneHolder(e)' BY <1>1 DEF IInv, OneHolder
<1>5. New' \subseteq New BY <1>1 DEF New, Places
<1> QED BY <1>2, <1>3, <1>4, <1>5 DEF IInv

\* Every step keeps the invariant, and loses no event.
LEMMA NextIInv == IInv /\ [Next]_vars => IInv' /\ New' \subseteq New
<1> SUFFICES ASSUME IInv, [Next]_vars PROVE IInv' /\ New' \subseteq New OBVIOUS
<1>1. CASE \E e \in Events : Track(e) BY <1>1, TrackInv
<1>2. CASE \E c \in Calls, S \in SUBSET New : TrackBatch(c, S) BY <1>2, TrackBatchInv
<1>3. CASE \E f \in Flushes : AwaitFlush(f) BY <1>3, AwaitFlushInv
<1>4. CASE \E s \in Sends : Fetch(s) \/ Wake(s) BY <1>4, FetchInv, WakeInv
<1>5. CASE Interval BY <1>5, IntervalInv
<1>6. CASE Destroy BY <1>6, IdleStep DEF Destroy
<1>7. CASE UNCHANGED vars
  <2>1. timer \in BOOLEAN BY DEF IInv, TypeOK
  <2> QED BY <1>7, <2>1, IdleStep DEF vars
<1> QED BY <1>1, <1>2, <1>3, <1>4, <1>5, <1>6, <1>7 DEF Next

\* The inductive invariant of the SDK.
THEOREM Invariance == Spec => []IInv
BY InitIInv, NextIInv, PTL DEF Spec

\* The state variables of the SDK keep their types.
THEOREM TypeCorrect == Spec => []TypeOK
<1>1. IInv => TypeOK BY DEF IInv
<1> QED BY <1>1, Invariance, PTL

\* batcher.ts 33-61: an event is queued once, or in one batch, or settled,
\* however track, trackBatch, the timer and flush follow each other.
THEOREM OneBatchPerEvent == Spec => []InOnePlace
<1>1. IInv => InOnePlace
  <2> SUFFICES ASSUME IInv PROVE InOnePlace OBVIOUS
  <2>1. Cardinality(Queued) = Len(queue)
    <3>1. queue \in [1 .. Len(queue) -> Range(queue)] /\ Len(queue) \in Nat
      BY DEF IInv, TypeOK, Range
    <3>2. queue \in Bijection(1 .. Len(queue), Range(queue))
      BY <3>1 DEF IInv, QueuedOnce, Bijection, Injection, Surjection, IsInjective, Range
    <3>3. ExistsBijection(1 .. Len(queue), Queued) BY <3>2 DEF ExistsBijection, Queued
    <3> QED BY <3>1, <3>3, FS_CountingElements
  <2>2. ASSUME NEW e \in Events PROVE Cardinality(Places(e)) <= 1
    <3>1. \A p, q \in Places(e) : p = q
      <4>1. OneHolder(e) BY DEF IInv
      <4> QED BY <4>1 DEF OneHolder, Places
    <3>2. CASE Places(e) = {} BY <3>2, FS_EmptySet
    <3>3. CASE Places(e) # {}
      <4>1. PICK p : Places(e) = {p} BY <3>1, <3>3
      <4>2. Cardinality({p}) = 1 BY FS_Singleton
      <4> QED BY <4>1, <4>2
    <3> QED BY <3>2, <3>3
  <2> QED BY <2>1, <2>2 DEF InOnePlace
<1> QED BY <1>1, Invariance, PTL

\* batcher.ts 44-55: no step forgets an event that was handed over.
THEOREM NoEventForgotten == Spec => NothingIsForgotten
BY InitIInv, NextIInv, PTL DEF Spec, NothingIsForgotten

\* batcher.ts 70-90, retry.ts 29-46: sent is true, and no event is POSTed more
\* than maxRetries times.
THEOREM OutcomesAreTrue == Spec => []OutcomeIsTrue
<1>1. IInv => OutcomeIsTrue BY DEF IInv
<1> QED BY <1>1, Invariance, PTL

\* client.ts 53-59: a flush that found nothing in flight returns when all it
\* found in the queue is settled.
THEOREM UnsharedFlushIsTrue == Spec => []UnsharedFlushSettles
<1>1. IInv => UnsharedFlushSettles BY DEF IInv
<1> QED BY <1>1, Invariance, PTL

=============================================================================
