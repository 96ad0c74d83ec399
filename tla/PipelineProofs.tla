--------------------------- MODULE PipelineProofs ---------------------------
(***************************************************************************)
(* Proofs about Pipeline, for every number of requests, goroutines,        *)
(* processes, entries and faults.                                          *)
(***************************************************************************)
EXTENDS Pipeline, FiniteSetTheorems, TLAPS

\* An entry that was appended has an event.
UsedHasEvent == \A i \in Slots : stream[i].st # "free" => stream[i].ev \in Events

\* A goroutine only holds entries that were delivered.
HeldIsDelivered ==
  \A w \in Workers : \A i \in batch[w] : stream[i].st \in {"pending", "idle", "acked"}

\* Where a goroutine is tells what it has made durable.
StoredBeforeAck ==
  \A w \in Workers : \A i \in batch[w] : Current(w, i) =>
    /\ pc[w] \in {"enqueue", "count", "active"} =>
         stream[i].ev \notin Malformed /\ Stored(stream[i].ev)
    /\ pc[w] = "ack" => Settled(i)

\* The delivery count a goroutine acts on is one the entry has had.
SeenIsPast ==
  \A w \in Workers : \A i \in Slots :
    IF i \in batch[w] THEN seen[w][i] <= stream[i].n ELSE seen[w][i] = 0

\* A goroutine at the top of its loop, or gone, holds nothing.
LoopHoldsNothing == \A w \in Workers : pc[w] \in {"loop", "exited"} => batch[w] = {}

\* Only an entry of the stream has been dead-lettered.
DeadLetteredIsUsed == \A i \in Slots : dlq[i] > 0 => stream[i].st # "free"

\* A handler publishes the events of its request from the first to the last.
PublishPosition ==
  \A q \in Requests :
    /\ req[q].pc = "new" => req[q].next = 1
    /\ req[q].pc = "publish" => req[q].next \in DOMAIN Batch[q]

InStream(e) == \E i \in Slots : stream[i].st # "free" /\ stream[i].ev = e

\* What a handler without an error has published so far.
PublishedPrefix ==
  \A q \in Requests :
    /\ req[q].pc = "publish" /\ ~req[q].err =>
         \A j \in DOMAIN Batch[q] : j < req[q].next => InStream(Batch[q][j])
    /\ req[q].pc \in {"store", "broadcast", "accepted"} =>
         \A j \in DOMAIN Batch[q] : InStream(Batch[q][j])

TypeInv == TypeOK /\ UsedHasEvent /\ HeldIsDelivered /\ PublishPosition

IInv == /\ TypeInv
        /\ PublishedPrefix
        /\ AckedIsSettled
        /\ StoredBeforeAck
        /\ SeenIsPast
        /\ LoopHoldsNothing
        /\ DeadLetteredIsUsed
        /\ GivenUpOnlyWhenExhausted

-----------------------------------------------------------------------------
\* The fault budget is never exceeded by one action.
LEMMA FaultType == ASSUME TypeOK, Fault \/ NoFault PROVE faults' \in 0 .. MaxFaults
BY MaxFaultsAssumption DEF TypeOK, Fault, NoFault

\* InsertEvents only adds rows, and only events of its argument.
LEMMA InsertType ==
  ASSUME NEW s \in Seq(Events), rows \subseteq Events, InsertEvents(s)
  PROVE  rows \subseteq rows' /\ rows' \subseteq Events
BY DEF InsertEvents

\* After InsertEvents of one event, a row stands for it.
LEMMA InsertStores ==
  ASSUME NEW e \in Events, InsertEvents(<<e>>)
  PROVE  Stored(e)'
<1>1. CASE Stored(e)
  BY <1>1 DEF InsertEvents, Stored
<1>2. CASE ~Stored(e)
  <2>1. e \in rows'
    BY <1>2 DEF InsertEvents
  <2> QED BY <2>1 DEF Stored, Conflicts
<1> QED BY <1>1, <1>2

\* Init establishes the inductive invariant.
LEMMA InitIInv == Init => IInv
<1> SUFFICES ASSUME Init PROVE IInv
  OBVIOUS
<1> USE DEF Init, StreamInit, PostgresInit, IngestInit, WorkerInit, NoCounts
<1>1. TypeOK
  BY MaxFaultsAssumption, StreamAssumption DEF TypeOK, Entry, RequestState, Slots
<1>2. UsedHasEvent /\ HeldIsDelivered /\ PublishPosition /\ PublishedPrefix
  BY DEF UsedHasEvent, HeldIsDelivered, PublishPosition, PublishedPrefix
<1>3. /\ AckedIsSettled /\ StoredBeforeAck /\ SeenIsPast /\ LoopHoldsNothing
      /\ DeadLetteredIsUsed /\ GivenUpOnlyWhenExhausted
  BY DEF AckedIsSettled, StoredBeforeAck, SeenIsPast, LoopHoldsNothing,
         DeadLetteredIsUsed, GivenUpOnlyWhenExhausted, With
<1> QED BY <1>1, <1>2, <1>3 DEF IInv, TypeInv

-----------------------------------------------------------------------------
\* What the stream operations do to the entries.
StreamGrows ==
  /\ stream' \in [Slots -> Entry]
  /\ \A i \in Slots : stream'[i].st # "free" => stream'[i].ev \in Events
  /\ \A i \in Slots : stream[i].st # "free" => 
       /\ stream'[i].ev = stream[i].ev
       /\ stream'[i].n >= stream[i].n
       /\ stream'[i].st # "free"
       /\ stream[i].st # "new" => stream'[i].st \notin {"free", "new"}

\* The part of the type invariant that is about the stream.
LEMMA StreamType == ASSUME TypeInv PROVE stream \in [Slots -> Entry] /\ UsedHasEvent
BY DEF TypeInv, TypeOK

\* The fields of an entry after a delivery.
LEMMA DeliveredEntry ==
  ASSUME NEW r \in Entry
  PROVE  /\ Delivered(r) \in Entry
         /\ Delivered(r).ev = r.ev
         /\ Delivered(r).n = r.n + 1
         /\ Delivered(r).st = "pending"
BY DEF Entry, Delivered

\* XADD, sent once or twice (stream.go 30-69), writes free slots only.
LEMMA AddGrows ==
  ASSUME TypeInv, NEW e \in Events, XAdd(e) \/ XAddTwice(e)
  PROVE  /\ StreamGrows
         /\ \A i \in Slots : stream'[i].st = stream[i].st \/ stream'[i].st = "new"
         /\ \A i \in Slots : stream'[i].n = stream[i].n \/ stream[i].st = "free"
<1> USE StreamType DEF UsedHasEvent, StreamGrows
<1>1. /\ NewEntry(e) \in Entry /\ NewEntry(e).st = "new" /\ NewEntry(e).ev = e
  BY DEF Entry, NewEntry
<1>2. CASE XAdd(e)
  <2>1. PICK i \in Slots : End(i) /\ stream' = [stream EXCEPT ![i] = NewEntry(e)]
    BY <1>2 DEF XAdd
  <2> QED BY <2>1, <1>1 DEF End, Entry
<1>3. CASE XAddTwice(e)
  <2>1. PICK i, j \in Slots :
          /\ End(i) /\ j = i + 1 /\ stream[j].st = "free"
          /\ stream' = [stream EXCEPT ![i] = NewEntry(e), ![j] = NewEntry(e)]
    BY <1>3 DEF XAddTwice
  <2> QED BY <2>1, <1>1 DEF End, Entry
<1> QED BY <1>2, <1>3

\* XREADGROUP and XAUTOCLAIM (consumer.go 47-113) keep every entry's event
\* and raise its delivery count.
LEMMA DeliverGrows ==
  ASSUME TypeInv, NEW S, S \subseteq NextNew \/ S \subseteq NextIdle, Deliver(S)
  PROVE  /\ StreamGrows
         /\ \A i \in S : i \in Slots /\ stream'[i].st = "pending"
         /\ \A i \in Slots : stream'[i].st = stream[i].st \/ stream'[i].st = "pending"
<1>1. \A i \in S : i \in Slots /\ stream[i].st \in {"new", "idle"}
  BY DEF NextNew, NextIdle, First, With
<1>2. \A i \in S : /\ stream'[i] \in Entry
                   /\ stream'[i].ev = stream[i].ev
                   /\ stream'[i].n = stream[i].n + 1
                   /\ stream'[i].st = "pending"
  BY <1>1, StreamType, DeliveredEntry DEF Deliver
<1>3. \A i \in Slots : i \notin S => stream'[i] = stream[i]
  BY DEF Deliver
<1>4. stream' \in [Slots -> Entry]
  BY <1>2, <1>3, StreamType DEF Deliver
<1> QED BY <1>1, <1>2, <1>3, <1>4, StreamType DEF StreamGrows, UsedHasEvent, Entry

\* XACK (consumer.go 125-130) changes the status of one delivered entry.
LEMMA AckGrows ==
  ASSUME TypeInv, NEW w \in Workers, NEW i \in batch[w], XAck(i)
  PROVE  /\ StreamGrows
         /\ i \in Slots
         /\ \A j \in Slots : stream'[j].st = stream[j].st \/ j = i
<1>1. i \in Slots /\ stream[i].st \notin {"free", "new"}
  BY DEF TypeInv, TypeOK, HeldIsDelivered
<1> QED BY <1>1, StreamType DEF UsedHasEvent, Entry, XAck, StreamGrows

\* An entry that becomes idle keeps everything but its status.
LEMMA IdleGrows ==
  ASSUME TypeInv, NEW i \in Slots, BecomeIdle(i)
  PROVE  StreamGrows /\ \A j \in Slots : stream'[j].st = stream[j].st \/ stream'[j].st = "idle"
BY StreamType DEF UsedHasEvent, Entry, StreamGrows, BecomeIdle

\* A step that leaves the stream alone.
LEMMA SameGrows ==
  ASSUME TypeInv, UNCHANGED stream
  PROVE  StreamGrows
BY StreamType DEF UsedHasEvent, Entry, StreamGrows

-----------------------------------------------------------------------------
\* The handlers keep the types.
IngestType ==
  /\ rows \subseteq rows' /\ rows' \subseteq Events
  /\ feed' \subseteq Events
  /\ req' \in [Requests -> RequestState]
  /\ PublishPosition'
  /\ StreamGrows
  /\ \A i \in Slots : stream'[i].st = stream[i].st \/ stream'[i].st = "new"
  /\ \A i \in Slots : stream'[i].n = stream[i].n \/ stream[i].st = "free"
  /\ UNCHANGED <<daily, active, hooks, dlq>>

\* A step of the API handlers (handler.go 91-222) keeps types, only adds rows
\* and entries, and touches neither the aggregates nor the dead letters.
LEMMA IngestKeepsType ==
  ASSUME TypeInv, IngestNext
  PROVE  IngestType
<1>1. /\ req \in [Requests -> RequestState] /\ PublishPosition
      /\ rows \subseteq Events /\ feed \subseteq Events
      /\ \A q \in Requests : Batch[q] \in Seq(Events)
      /\ \A q \in Requests : EventsOf(q) \subseteq Events
  BY IngestAssumption DEF TypeInv, TypeOK, EventsOf
<1>2. ASSUME UNCHANGED stream
      PROVE  /\ StreamGrows
             /\ \A i \in Slots : stream'[i].st = stream[i].st \/ stream'[i].st = "new"
             /\ \A i \in Slots : stream'[i].n = stream[i].n \/ stream[i].st = "free"
  BY <1>2, SameGrows
<1>3. ASSUME NEW q \in Requests, Decode(q) PROVE IngestType
  <2>1. WellFormed(q) => 1 \in DOMAIN Batch[q]
    BY <1>1 DEF WellFormed
  <2> QED BY <1>1, <1>2, <1>3, <2>1
          DEF IngestType, Decode, Goto, RequestState, PublishPosition, tables
<1>4. ASSUME NEW q \in Requests, Publish(q) PROVE IngestType
  <2> DEFINE e == Batch[q][req[q].next]
  <2>1. /\ req[q].next \in DOMAIN Batch[q] /\ e \in Events
        /\ DOMAIN Batch[q] = 1 .. Len(Batch[q]) /\ Len(Batch[q]) \in Nat
    BY <1>1, <1>4 DEF PublishPosition, Publish
  <2>2. \E failed \in BOOLEAN : Published(q, failed)
    BY <1>4 DEF Publish
  <2>3. req' \in [Requests -> RequestState] /\ PublishPosition'
    BY <1>1, <2>1, <2>2 DEF Published, RequestState, PublishPosition
  <2>4. XAdd(e) \/ XAddTwice(e) \/ UNCHANGED stream
    BY <1>4 DEF Publish
  <2> QED BY <1>1, <1>2, <1>4, <2>1, <2>3, <2>4, AddGrows DEF IngestType, Publish, tables
<1>5. ASSUME NEW q \in Requests, DirectStore(q) PROVE IngestType
  BY <1>1, <1>2, <1>5, InsertType
     DEF IngestType, DirectStore, Goto, RequestState, PublishPosition
<1>6. ASSUME NEW q \in Requests, Broadcast(q) PROVE IngestType
  BY <1>1, <1>2, <1>6 DEF IngestType, Broadcast, Goto, RequestState, PublishPosition, tables
<1>7. ASSUME NEW q \in Requests, Abort(q) PROVE IngestType
  BY <1>1, <1>2, <1>7 DEF IngestType, Abort, Goto, RequestState, PublishPosition, tables
<1>8. ASSUME NEW e \in Malformed, ForeignAdd(e) PROVE IngestType
  BY <1>1, <1>8, AddGrows, StreamAssumption
     DEF IngestType, ForeignAdd, PublishPosition, tables, ingestVars
<1> QED BY <1>3, <1>4, <1>5, <1>6, <1>7, <1>8 DEF IngestNext, HandleIngest

-----------------------------------------------------------------------------
\* The goroutines keep the types.
LocalType ==
  /\ pc' \in [Workers -> {"loop", "claimed", "message", "enqueue", "count",
                          "active", "ack", "exited"}]
  /\ batch' \in [Workers -> SUBSET Slots]
  /\ seen' \in [Workers -> [Slots -> Nat]]
  /\ proc' \in [Procs -> {"up", "stopping", "down"}]

TableType ==
  /\ rows \subseteq rows' /\ rows' \subseteq Events
  /\ daily' \in [Slots -> Nat]
  /\ active' \subseteq Users
  /\ hooks' \subseteq Events
  /\ dlq' \in [Slots -> Nat] /\ \A i \in Slots : dlq'[i] >= dlq[i]

WorkerType == LocalType /\ TableType /\ StreamGrows /\ HeldIsDelivered'

\* The current entry of a goroutine is in the stream.
LEMMA HeldEvent ==
  ASSUME TypeInv, NEW w \in Workers, NEW i \in batch[w]
  PROVE  i \in Slots /\ stream[i].ev \in Events
BY DEF TypeInv, TypeOK, HeldIsDelivered, UsedHasEvent

\* A goroutine whose batch does not grow still holds delivered entries only.
LEMMA HeldFrame ==
  ASSUME TypeInv, StreamGrows, \A w \in Workers : batch'[w] \subseteq batch[w]
  PROVE  HeldIsDelivered'
<1> SUFFICES ASSUME NEW w \in Workers, NEW i \in batch'[w]
             PROVE  stream'[i].st \in {"pending", "idle", "acked"}
  BY DEF HeldIsDelivered
<1>1. i \in Slots /\ stream[i].st \notin {"free", "new"}
  BY DEF TypeInv, TypeOK, HeldIsDelivered
<1>2. stream'[i] \in Entry /\ stream'[i].st \notin {"free", "new"}
  BY <1>1 DEF StreamGrows
<1> QED BY <1>2 DEF Entry

\* The part of the type invariant that is about the goroutines.
LEMMA LocalFacts ==
  ASSUME TypeInv
  PROVE  /\ pc \in [Workers -> {"loop", "claimed", "message", "enqueue", "count",
                                "active", "ack", "exited"}]
         /\ batch \in [Workers -> SUBSET Slots]
         /\ seen \in [Workers -> [Slots -> Nat]]
         /\ proc \in [Procs -> {"up", "stopping", "down"}]
BY DEF TypeInv, TypeOK

\* The part of the type invariant that is about the tables.
LEMMA TableFacts ==
  ASSUME TypeInv
  PROVE  /\ rows \subseteq Events /\ daily \in [Slots -> Nat]
         /\ active \subseteq Users /\ hooks \subseteq Events
         /\ dlq \in [Slots -> Nat]
BY DEF TypeInv, TypeOK

\* A step that leaves the tables alone.
LEMMA SameTables == ASSUME TypeInv, UNCHANGED tables PROVE TableType
BY TableFacts DEF TableType, tables

\* Returning from handleMessage or going on within it keeps the goroutines'
\* types and takes nothing into a batch.
LEMMA FinishType ==
  ASSUME TypeInv, NEW w \in Workers, NEW i \in Slots,
         Finish(w, i) \/ \E to \in {"enqueue", "count", "active", "ack"} : Advance(w, to),
         UNCHANGED proc
  PROVE  LocalType /\ \A v \in Workers : batch'[v] \subseteq batch[v]
<1>1. CASE Finish(w, i)
  <2>1. seen' \in [Workers -> [Slots -> Nat]]
    BY <1>1, LocalFacts DEF Finish
  <2>2. /\ batch' \in [Workers -> SUBSET Slots]
        /\ \A v \in Workers : batch'[v] \subseteq batch[v]
    BY <1>1, LocalFacts DEF Finish
  <2> QED BY <1>1, <2>1, <2>2, LocalFacts DEF LocalType, Finish
<1>2. CASE \E to \in {"enqueue", "count", "active", "ack"} : Advance(w, to)
  BY <1>2, LocalFacts DEF LocalType, Advance
<1> QED BY <1>1, <1>2

\* Reading or reclaiming a batch keeps types; the entries taken are delivered.
LEMMA TakeType ==
  ASSUME TypeInv, NEW w \in Workers, NEW S, NEW to \in {"message", "claimed"},
         S = NextNew \/ S = NextIdle, Take(w, S, to), UNCHANGED <<seen, proc>>
  PROVE  LocalType /\ StreamGrows /\ HeldIsDelivered'
<1>1. Deliver(S)
  BY DEF Take
<1>2. /\ StreamGrows
      /\ \A i \in S : i \in Slots /\ stream'[i].st = "pending"
  BY <1>1, DeliverGrows
<1>3. \A v \in Workers : batch'[v] = IF v = w THEN S ELSE batch[v]
  BY LocalFacts DEF Take
<1>4. \A v \in Workers : v # w => \A i \in batch[v] :
         i \in Slots /\ stream[i].st \notin {"free", "new"}
  BY DEF TypeInv, TypeOK, HeldIsDelivered
<1>5. HeldIsDelivered'
  BY <1>2, <1>3, <1>4 DEF HeldIsDelivered, StreamGrows, Entry
<1>6. LocalType
  BY <1>2, LocalFacts DEF LocalType, Take
<1> QED BY <1>2, <1>5, <1>6

\* Every step of handleMessage and deadLetter (worker.go 106-205) keeps types
\* and undoes nothing durable.
LEMMA HandleKeepsType ==
  ASSUME TypeInv, NEW w \in Workers, NEW i \in Slots, Handle(w, i)
  PROVE  WorkerType
<1>0. i \in batch[w]
  BY DEF Handle, DeadLetter, Store, Enqueue, CountDay, CountUser, Ack, Current
<1>1. stream[i].ev \in Events
  BY <1>0, HeldEvent
<1>2. UNCHANGED proc /\ (Finish(w, i) \/ \E to \in {"enqueue", "count", "active", "ack"} : Advance(w, to))
  BY DEF Handle, DeadLetter, Store, Enqueue, CountDay, CountUser, Ack
<1>3. LocalType /\ \A v \in Workers : batch'[v] \subseteq batch[v]
  BY <1>2, FinishType
<1>4. StreamGrows
  <2>1. CASE DeadLetter(w, i) \/ Enqueue(w, i) \/ CountDay(w, i) \/ CountUser(w, i)
    BY <2>1, SameGrows DEF DeadLetter, Enqueue, CountDay, CountUser
  <2>2. CASE Store(w, i)
    BY <2>2, SameGrows DEF Store
  <2>3. CASE Ack(w, i)
    BY <2>3, <1>0, SameGrows, AckGrows DEF Ack
  <2> QED BY <2>1, <2>2, <2>3 DEF Handle
<1>5. TableType
  <2> USE TableFacts DEF TableType
  <2>1. CASE DeadLetter(w, i)
    BY <2>1 DEF DeadLetter, InsertDeadLetter
  <2>2. CASE Store(w, i)
    <3>1. <<stream[i].ev>> \in Seq(Events)
      BY <1>1
    <3>2. rows \subseteq rows' /\ rows' \subseteq Events
      BY <2>2, <3>1, InsertType DEF Store
    <3> QED BY <2>2, <3>2 DEF Store
  <2>3. CASE Enqueue(w, i)
    BY <2>3, <1>1 DEF Enqueue, EnqueueDeliveries
  <2>4. CASE CountDay(w, i)
    BY <2>4, <1>1 DEF CountDay, UpsertDailyCount
  <2>5. CASE CountUser(w, i)
    BY <2>5, <1>1, UserAssumption DEF CountUser, UpsertDailyActiveUser
  <2>6. CASE Ack(w, i)
    BY <2>6, SameTables DEF Ack
  <2> QED BY <2>1, <2>2, <2>3, <2>4, <2>5, <2>6 DEF Handle
<1> QED BY <1>3, <1>4, <1>5, HeldFrame DEF WorkerType

\* Crash and restart (cmd/worker/main.go) empty the batches of one process.
LEMMA ResetType ==
  ASSUME TypeInv, NEW p \in Procs, NEW to \in {"exited", "loop"}, Reset(p, to)
  PROVE  /\ pc' \in [Workers -> {"loop", "claimed", "message", "enqueue", "count",
                                 "active", "ack", "exited"}]
         /\ batch' \in [Workers -> SUBSET Slots]
         /\ seen' \in [Workers -> [Slots -> Nat]]
         /\ \A w \in Workers : batch'[w] \subseteq batch[w]
<1>1. NoCounts \in [Slots -> Nat]
  BY DEF NoCounts
<1>2. seen' \in [Workers -> [Slots -> Nat]]
  BY <1>1, LocalFacts DEF Reset
<1> QED BY <1>2, LocalFacts DEF Reset

\* Every step of the worker processes keeps types and undoes nothing durable.
LEMMA WorkerKeepsType ==
  ASSUME TypeInv, WorkerNext
  PROVE  WorkerType
<1> USE DEF WorkerType
<1>1. ASSUME UNCHANGED stream, LocalType, \A w \in Workers : batch'[w] \subseteq batch[w]
      PROVE  StreamGrows /\ HeldIsDelivered'
  BY <1>1, SameGrows, HeldFrame
<1>2. ASSUME NEW w \in Workers, Read(w) PROVE WorkerType
  <2>1. Take(w, NextNew, "message") /\ UNCHANGED <<seen, proc, tables>>
    BY <1>2 DEF Read
  <2> QED BY <2>1, TakeType, SameTables DEF tables
<1>3. ASSUME NEW w \in Workers, Reclaim(w) PROVE WorkerType
  <2>1. Take(w, NextIdle, "claimed") /\ UNCHANGED <<seen, proc, tables>>
    BY <1>3 DEF Reclaim
  <2> QED BY <2>1, TakeType, SameTables DEF tables
<1>4. ASSUME NEW w \in Workers, ReadNothing(w) PROVE WorkerType
  BY <1>1, <1>4, LocalFacts, SameTables DEF ReadNothing, workerVars, LocalType
<1>5. ASSUME NEW w \in Workers, LoseAnswer(w) PROVE WorkerType
  <2>1. UNCHANGED <<tables, workerVars>> /\ \E S : (S = NextNew \/ S = NextIdle) /\ Deliver(S)
    BY <1>5 DEF LoseAnswer
  <2>2. StreamGrows
    BY <2>1, DeliverGrows
  <2> QED BY <2>1, <2>2, LocalFacts, SameTables, HeldFrame DEF workerVars, LocalType
<1>6. ASSUME NEW w \in Workers, CountDeliveries(w) PROVE WorkerType
  <2>1. DeliveryCounts(batch[w]) \in [Slots -> Nat]
    BY StreamType DEF DeliveryCounts, Entry
  <2>2. LocalType /\ UNCHANGED <<stream, batch, tables>>
    BY <1>6, <2>1, LocalFacts DEF CountDeliveries, LocalType
  <2> QED BY <1>1, <2>2, SameTables DEF tables
<1>7. ASSUME NEW w \in Workers, Exit(w) PROVE WorkerType
  <2>1. LocalType /\ UNCHANGED <<stream, batch, tables>>
    BY <1>7, LocalFacts, WorkerAssumption DEF Exit, LocalType
  <2> QED BY <1>1, <2>1, SameTables DEF tables
<1>8. ASSUME NEW i \in Slots, Elapse(i) PROVE WorkerType
  <2>1. BecomeIdle(i) /\ UNCHANGED <<tables, workerVars>>
    BY <1>8 DEF Elapse
  <2> QED BY <2>1, IdleGrows, LocalFacts, SameTables, HeldFrame DEF workerVars, LocalType
<1>9. ASSUME NEW p \in Procs, Sigterm(p) PROVE WorkerType
  <2>1. LocalType /\ UNCHANGED <<stream, batch, tables>>
    BY <1>9, LocalFacts DEF Sigterm, LocalType
  <2> QED BY <1>1, <2>1, SameTables DEF tables
<1>10. ASSUME NEW p \in Procs, Crash(p) \/ Restart(p) PROVE WorkerType
  <2>1. /\ LocalType /\ UNCHANGED <<stream, tables>>
        /\ \A w \in Workers : batch'[w] \subseteq batch[w]
    BY <1>10, LocalFacts, ResetType DEF Crash, Restart, LocalType
  <2> QED BY <1>1, <2>1, SameTables DEF tables
<1> QED BY <1>2, <1>3, <1>4, <1>5, <1>6, <1>7, <1>8, <1>9, <1>10, HandleKeepsType
        DEF WorkerNext, Step

\* Every step of the handlers or the workers spends at most one fault.
LEMMA StepFaults == ASSUME IngestNext \/ WorkerNext PROVE Fault \/ NoFault
<1>1. CASE IngestNext
  BY <1>1 DEF IngestNext, HandleIngest, Decode, Publish, DirectStore, Broadcast, Abort, ForeignAdd
<1>2. CASE WorkerNext
  <2>1. ASSUME NEW w \in Workers, Succeeds(w) \/ Fails(w) PROVE Fault \/ NoFault
    BY <2>1 DEF Succeeds, Fails
  <2>2. ASSUME NEW w \in Workers, NEW i \in Slots, Handle(w, i) PROVE Fault \/ NoFault
    BY <2>1, <2>2 DEF Handle, DeadLetter, Store, Enqueue, CountDay, CountUser, Ack
  <2>3. ASSUME NEW w \in Workers, Step(w) PROVE Fault \/ NoFault
    BY <2>1, <2>2, <2>3
       DEF Step, Read, ReadNothing, Reclaim, LoseAnswer, CountDeliveries, Exit
  <2> QED BY <1>2, <2>3 DEF WorkerNext, Elapse, Sigterm, Crash, Restart
<1> QED BY <1>1, <1>2

LEMMA FaultsKeepType == ASSUME TypeInv, IngestNext \/ WorkerNext PROVE faults' \in 0 .. MaxFaults
BY StepFaults, FaultType DEF TypeInv

\* The type invariant is inductive.
LEMMA TypeStep == TypeInv /\ [Next]_vars => TypeInv'
<1> SUFFICES ASSUME TypeInv, [Next]_vars PROVE TypeInv'
  OBVIOUS
<1>1. CASE IngestNext /\ UNCHANGED workerVars
  <2>1. IngestType /\ faults' \in 0 .. MaxFaults
    BY <1>1, IngestKeepsType, FaultsKeepType
  <2>2. StreamGrows /\ HeldIsDelivered'
    BY <1>1, <2>1, HeldFrame DEF IngestType, workerVars
  <2>3. UsedHasEvent'
    BY <2>2 DEF StreamGrows, UsedHasEvent
  <2>4. TypeOK'
    BY <1>1, <2>1, <2>2, TableFacts, LocalFacts
       DEF IngestType, StreamGrows, TypeOK, workerVars
  <2> QED BY <2>1, <2>2, <2>3, <2>4 DEF IngestType, TypeInv
<1>2. CASE WorkerNext /\ UNCHANGED ingestVars
  <2>1. WorkerType /\ faults' \in 0 .. MaxFaults
    BY <1>2, WorkerKeepsType, FaultsKeepType
  <2>2. UsedHasEvent'
    BY <2>1 DEF WorkerType, StreamGrows, UsedHasEvent
  <2>3. TypeOK'
    BY <1>2, <2>1 DEF WorkerType, LocalType, TableType, StreamGrows, TypeInv, TypeOK, ingestVars
  <2>4. PublishPosition'
    BY <1>2 DEF TypeInv, PublishPosition, ingestVars
  <2> QED BY <2>1, <2>2, <2>3, <2>4 DEF WorkerType, TypeInv
<1>3. CASE UNCHANGED vars
  BY <1>3 DEF vars, tables, ingestVars, workerVars, TypeInv, TypeOK, UsedHasEvent,
              HeldIsDelivered, PublishPosition
<1> QED BY <1>1, <1>2, <1>3 DEF Next

\* Every variable of the handlers (handler.go), the worker goroutines
\* (worker.go), the stream and the tables keeps its type, for every instance.
THEOREM TypeCorrect == Spec => []TypeOK
<1>1. Init => TypeInv
  BY InitIInv DEF IInv
<1>2. TypeInv => TypeOK
  BY DEF TypeInv
<1> QED BY <1>1, <1>2, TypeStep, PTL DEF Spec

-----------------------------------------------------------------------------
\* What every step of the system does to what is durable.
Durable == /\ StreamGrows
           /\ rows \subseteq rows'
           /\ dlq' \in [Slots -> Nat] /\ \A i \in Slots : dlq'[i] >= dlq[i]

\* Every step of the system keeps rows, dead letters and appended entries.
LEMMA StepIsDurable ==
  ASSUME TypeInv, IngestNext \/ WorkerNext
  PROVE  Durable
<1>1. CASE IngestNext
  BY <1>1, IngestKeepsType, TableFacts DEF IngestType, Durable
<1>2. CASE WorkerNext
  BY <1>2, WorkerKeepsType DEF WorkerType, TableType, Durable
<1> QED BY <1>1, <1>2

\* Rows are never deleted, so an event that is stored stays stored.
LEMMA StoredStays == ASSUME rows \subseteq rows', NEW e, Stored(e) PROVE Stored(e)'
BY DEF Stored

\* An entry whose event is durable stays so.
LEMMA SettledStays ==
  ASSUME TypeInv, Durable, NEW i \in Slots, stream[i].st # "free", Settled(i)
  PROVE  Settled(i)'
<1>1. stream'[i].ev = stream[i].ev /\ dlq'[i] >= dlq[i] /\ dlq[i] \in Nat /\ dlq'[i] \in Nat
  BY TableFacts DEF Durable, StreamGrows
<1>2. CASE dlq[i] > 0
  <2>1. dlq'[i] > 0
    BY <1>1, <1>2
  <2> QED BY <2>1 DEF Settled
<1>3. CASE stream[i].ev \notin Malformed /\ Stored(stream[i].ev)
  BY <1>1, <1>3, StoredStays DEF Settled, Durable
<1> QED BY <1>2, <1>3 DEF Settled

\* A goroutine that a step leaves alone keeps its part of StoredBeforeAck.
LEMMA OthersKeep ==
  ASSUME TypeInv, Durable, StoredBeforeAck, NEW v \in Workers,
         pc'[v] = pc[v], batch'[v] = batch[v],
         NEW i \in batch'[v], Current(v, i)'
  PROVE  /\ pc'[v] \in {"enqueue", "count", "active"} =>
              stream'[i].ev \notin Malformed /\ Stored(stream[i].ev)'
         /\ pc'[v] = "ack" => Settled(i)'
<1>1. i \in batch[v] /\ Current(v, i)
  BY DEF Current
<1>2. i \in Slots /\ stream[i].st # "free"
  BY <1>1 DEF TypeInv, TypeOK, HeldIsDelivered
<1>3. stream'[i].ev = stream[i].ev
  BY <1>2 DEF Durable, StreamGrows
<1>4. ASSUME pc[v] \in {"enqueue", "count", "active"}
      PROVE  stream'[i].ev \notin Malformed /\ Stored(stream[i].ev)'
  BY <1>1, <1>3, <1>4, StoredStays DEF StoredBeforeAck, Durable
<1>5. ASSUME pc[v] = "ack" PROVE Settled(i)'
  BY <1>1, <1>2, <1>5, SettledStays DEF StoredBeforeAck
<1> QED BY <1>4, <1>5

\* The goroutine w ends up somewhere StoredBeforeAck says nothing of, or keeps
\* its batch and has made its current entry durable; the others stay put.
LEMMA OneMoves ==
  ASSUME TypeInv, Durable, StoredBeforeAck, NEW w \in Workers,
         \A v \in Workers \ {w} : pc'[v] = pc[v] /\ batch'[v] = batch[v],
         \/ pc'[w] \in {"loop", "claimed", "message", "exited"}
         \/ \A i \in batch'[w] : Current(w, i)' =>
              /\ pc'[w] \in {"enqueue", "count", "active"} =>
                   stream'[i].ev \notin Malformed /\ Stored(stream[i].ev)'
              /\ pc'[w] = "ack" => Settled(i)'
  PROVE  StoredBeforeAck'
<1> SUFFICES ASSUME NEW v \in Workers, NEW i \in batch'[v], Current(v, i)'
             PROVE  /\ pc'[v] \in {"enqueue", "count", "active"} =>
                         stream'[i].ev \notin Malformed /\ Stored(stream[i].ev)'
                    /\ pc'[v] = "ack" => Settled(i)'
  BY DEF StoredBeforeAck
<1>1. CASE v = w
  BY <1>1
<1>2. CASE v # w
  BY <1>2, OthersKeep
<1> QED BY <1>1, <1>2

\* handleMessage (worker.go 106-165) acknowledges an entry only where
\* StoredBeforeAck has made it durable, and goes there only after the INSERT.
LEMMA HandleKeepsStored ==
  ASSUME IInv, NEW w \in Workers, NEW i \in Slots, Handle(w, i)
  PROVE  StoredBeforeAck' /\ AckedIsSettled'
<1>1. TypeInv /\ StoredBeforeAck /\ AckedIsSettled
  BY DEF IInv
<1>2. Durable
  BY <1>1, StepIsDurable DEF WorkerNext, Step
<1>3. i \in batch[w] /\ Current(w, i) /\ stream[i].st # "free" /\ stream[i].ev \in Events
  <2>1. i \in batch[w] /\ Current(w, i)
    BY DEF Handle, DeadLetter, Store, Enqueue, CountDay, CountUser, Ack, Current
  <2> QED BY <2>1, <1>1 DEF TypeInv, TypeOK, HeldIsDelivered, UsedHasEvent
<1>4. stream'[i].ev = stream[i].ev
  BY <1>2, <1>3 DEF Durable, StreamGrows
<1>5. \A v \in Workers \ {w} : pc'[v] = pc[v] /\ batch'[v] = batch[v]
  BY <1>1, LocalFacts DEF Handle, DeadLetter, Store, Enqueue, CountDay, CountUser, Ack, Finish, Advance
<1>6. ASSUME Finish(w, i) PROVE StoredBeforeAck'
  <2>1. pc'[w] \in {"loop", "message"}
    BY <1>1, <1>6, LocalFacts DEF Finish
  <2> QED BY <1>1, <1>2, <1>5, <2>1, OneMoves
<1>7. ASSUME NEW to, Advance(w, to), Settled(i)', to \in {"enqueue", "count", "active", "ack"},
             to # "ack" => stream[i].ev \notin Malformed /\ Stored(stream[i].ev)'
      PROVE  StoredBeforeAck'
  <2>1. pc'[w] = to /\ batch'[w] = batch[w]
    BY <1>1, <1>7, LocalFacts DEF Advance
  <2>2. \A j \in batch'[w] : Current(w, j)' => j = i
    BY <1>1, <1>3, <2>1, LocalFacts DEF Current, Slots
  <2> QED BY <1>1, <1>2, <1>4, <1>5, <1>7, <2>1, <2>2, OneMoves
<1>8. ASSUME Stored(stream[i].ev)', stream[i].ev \notin Malformed PROVE Settled(i)'
  BY <1>4, <1>8 DEF Settled
<1>9. StoredBeforeAck'
  <2>1. CASE DeadLetter(w, i)
    <3>1. CASE Finish(w, i)
      BY <3>1, <1>6
    <3>2. CASE InsertDeadLetter(i) /\ Advance(w, "ack")
      <4>1. dlq'[i] > 0
        BY <3>2, <1>1, TableFacts DEF InsertDeadLetter
      <4>2. Settled(i)'
        BY <4>1 DEF Settled
      <4> QED BY <3>2, <4>2, <1>7
    <3> QED BY <2>1, <3>1, <3>2 DEF DeadLetter
  <2>2. CASE Store(w, i)
    <3>1. CASE Finish(w, i)
      BY <3>1, <1>6
    <3>2. CASE InsertEvents(<<stream[i].ev>>) /\ Advance(w, "enqueue")
      <4>1. stream[i].ev \notin Malformed
        BY <2>2 DEF Store, GivesUp
      <4>2. Stored(stream[i].ev)'
        <5>1. \A f \in Events : InsertEvents(<<f>>) => Stored(f)'
          BY InsertStores
        <5> QED BY <5>1, <3>2, <1>3, <1>4
      <4> QED BY <3>2, <4>1, <4>2, <1>7, <1>8
    <3> QED BY <2>2, <3>1, <3>2 DEF Store
  <2>3. CASE Enqueue(w, i) \/ CountDay(w, i) \/ CountUser(w, i)
    <3>1. stream[i].ev \notin Malformed /\ Stored(stream[i].ev)
      BY <1>1, <1>3, <2>3 DEF StoredBeforeAck, Enqueue, CountDay, CountUser
    <3>2. UNCHANGED <<stream, rows>>
      BY <2>3 DEF Enqueue, CountDay, CountUser
    <3>3. Stored(stream[i].ev)'
      BY <3>1, <3>2 DEF Stored
    <3>4. \E to \in {"count", "active", "ack"} : Advance(w, to)
      BY <2>3 DEF Enqueue, CountDay, CountUser
    <3> QED BY <3>1, <3>3, <3>4, <1>7, <1>8
  <2>4. CASE Ack(w, i)
    BY <2>4, <1>6 DEF Ack
  <2> QED BY <2>1, <2>2, <2>3, <2>4 DEF Handle
<1>10. ASSUME NEW j \in Slots, stream'[j].st = "acked" PROVE Settled(j)'
  <2>1. CASE stream[j].st = "acked"
    BY <2>1, <1>1, <1>2, SettledStays DEF AckedIsSettled, With
  <2>2. CASE stream[j].st # "acked"
    <3>1. Ack(w, i) /\ XAck(i) /\ j = i
      <4>1. Ack(w, i) /\ XAck(i)
        <5>1. stream'[j].st # stream[j].st
          BY <1>10, <2>2
        <5>2. CASE Store(w, i)
          BY <5>1, <5>2, <1>1, SameGrows DEF Store
        <5> QED BY <5>1, <5>2 DEF Handle, DeadLetter, Enqueue, CountDay, CountUser, Ack
      <4> QED BY <4>1, <1>1, <1>3, <1>10, <2>2, AckGrows
    <3>2. Settled(i)
      BY <3>1, <1>1, <1>3 DEF Ack, StoredBeforeAck
    <3> QED BY <3>1, <3>2, <1>1, <1>2, <1>3, SettledStays
  <2> QED BY <2>1, <2>2
<1> QED BY <1>9, <1>10 DEF AckedIsSettled, With

\* A step that acknowledges nothing keeps AckedIsSettled.
LEMMA NoAckKeeps ==
  ASSUME TypeInv, Durable, AckedIsSettled,
         \A j \in Slots : stream'[j].st = "acked" => stream[j].st = "acked"
  PROVE  AckedIsSettled'
BY SettledStays DEF AckedIsSettled, With

\* Every step of the worker processes keeps what is known of acknowledged
\* entries and of where goroutines are.
LEMMA WorkerKeepsStored ==
  ASSUME IInv, WorkerNext
  PROVE  StoredBeforeAck' /\ AckedIsSettled'
<1>1. TypeInv /\ StoredBeforeAck /\ AckedIsSettled /\ Durable
  BY StepIsDurable DEF IInv
<1>2. CASE \E w \in Workers, i \in Slots : Handle(w, i)
  BY <1>2, HandleKeepsStored
<1>3. ASSUME UNCHANGED stream PROVE AckedIsSettled'
  BY <1>1, <1>3, NoAckKeeps
<1>4. ASSUME NEW S, S = NextNew \/ S = NextIdle, Deliver(S) PROVE AckedIsSettled'
  <2>1. \A j \in Slots : stream'[j].st = stream[j].st \/ stream'[j].st = "pending"
    BY <1>1, <1>4, DeliverGrows
  <2> QED BY <1>1, <2>1, NoAckKeeps
<1>5. ASSUME UNCHANGED <<pc, batch>> PROVE StoredBeforeAck'
  BY <1>1, <1>5, OthersKeep DEF StoredBeforeAck
<1>6. ASSUME NEW w \in Workers, Read(w) \/ Reclaim(w) PROVE StoredBeforeAck' /\ AckedIsSettled'
  <2>1. \E S : (S = NextNew \/ S = NextIdle) /\ Deliver(S)
    BY <1>6 DEF Read, Reclaim, Take
  <2>2. /\ \A v \in Workers \ {w} : pc'[v] = pc[v] /\ batch'[v] = batch[v]
        /\ pc'[w] \in {"message", "claimed"}
    BY <1>1, <1>6, LocalFacts DEF Read, Reclaim, Take
  <2> QED BY <1>1, <1>4, <2>1, <2>2, OneMoves
<1>7. ASSUME NEW w \in Workers, ReadNothing(w) PROVE StoredBeforeAck' /\ AckedIsSettled'
  BY <1>3, <1>5, <1>7 DEF ReadNothing, workerVars
<1>8. ASSUME NEW w \in Workers, LoseAnswer(w) PROVE StoredBeforeAck' /\ AckedIsSettled'
  <2>1. \E S : (S = NextNew \/ S = NextIdle) /\ Deliver(S)
    BY <1>8 DEF LoseAnswer
  <2> QED BY <1>4, <1>5, <1>8, <2>1 DEF LoseAnswer, workerVars
<1>9. ASSUME NEW w \in Workers, CountDeliveries(w) \/ Exit(w)
      PROVE  StoredBeforeAck' /\ AckedIsSettled'
  <2>1. /\ UNCHANGED stream
        /\ \A v \in Workers \ {w} : pc'[v] = pc[v] /\ batch'[v] = batch[v]
        /\ pc'[w] \in {"message", "exited"}
    BY <1>1, <1>9, LocalFacts DEF CountDeliveries, Exit
  <2> QED BY <1>1, <1>3, <2>1, OneMoves
<1>10. ASSUME NEW i \in Slots, Elapse(i) PROVE StoredBeforeAck' /\ AckedIsSettled'
  <2>1. \A j \in Slots : stream'[j].st = stream[j].st \/ stream'[j].st = "idle"
    BY <1>1, <1>10, IdleGrows DEF Elapse
  <2> QED BY <1>1, <1>5, <1>10, <2>1, NoAckKeeps DEF Elapse, workerVars
<1>11. ASSUME NEW p \in Procs, Sigterm(p) PROVE StoredBeforeAck' /\ AckedIsSettled'
  BY <1>3, <1>5, <1>11 DEF Sigterm
<1>12. ASSUME NEW p \in Procs, Crash(p) \/ Restart(p) PROVE StoredBeforeAck' /\ AckedIsSettled'
  <2>1. UNCHANGED stream
    BY <1>12 DEF Crash, Restart
  <2>2. \A v \in Workers : \/ pc'[v] = pc[v] /\ batch'[v] = batch[v]
                           \/ batch'[v] = {}
    BY <1>12 DEF Crash, Restart, Reset
  <2>3. StoredBeforeAck'
    BY <1>1, <2>2, OthersKeep DEF StoredBeforeAck
  <2> QED BY <1>3, <2>1, <2>3
<1> QED BY <1>2, <1>6, <1>7, <1>8, <1>9, <1>10, <1>11, <1>12 DEF IInv, WorkerNext, Step

\* The API handlers do not touch the workers and acknowledge nothing.
LEMMA IngestKeepsStored ==
  ASSUME IInv, IngestNext, UNCHANGED workerVars
  PROVE  StoredBeforeAck' /\ AckedIsSettled'
<1>1. TypeInv /\ StoredBeforeAck /\ AckedIsSettled /\ Durable
  BY StepIsDurable DEF IInv
<1>2. \A j \in Slots : stream'[j].st = stream[j].st \/ stream'[j].st = "new"
  BY <1>1, IngestKeepsType DEF IngestType
<1>3. StoredBeforeAck'
  BY <1>1, OthersKeep DEF StoredBeforeAck, workerVars
<1> QED BY <1>1, <1>2, <1>3, NoAckKeeps

-----------------------------------------------------------------------------
\* The delivery counts.
Counts == SeenIsPast /\ LoopHoldsNothing /\ DeadLetteredIsUsed /\ GivenUpOnlyWhenExhausted

\* A step that dead-letters nothing keeps what is known of the dead letters.
LEMMA NoDeadLetterKeeps ==
  ASSUME TypeInv, Durable, DeadLetteredIsUsed, GivenUpOnlyWhenExhausted, UNCHANGED dlq
  PROVE  DeadLetteredIsUsed' /\ GivenUpOnlyWhenExhausted'
<1> SUFFICES ASSUME NEW i \in Slots, dlq'[i] > 0
             PROVE  /\ stream'[i].st # "free"
                    /\ stream'[i].ev \notin Malformed => stream'[i].n >= MaxRetries
  BY DEF DeadLetteredIsUsed, GivenUpOnlyWhenExhausted
<1>1. dlq[i] > 0 /\ stream[i].st # "free"
  BY DEF DeadLetteredIsUsed
<1>2. /\ stream'[i].st # "free" /\ stream'[i].ev = stream[i].ev
      /\ stream'[i].n >= stream[i].n
  BY <1>1 DEF Durable, StreamGrows
<1>3. stream[i].n \in Nat /\ stream'[i].n \in Nat /\ MaxRetries \in Nat
  BY StreamType, WorkerAssumption DEF Durable, StreamGrows, Entry
<1>4. stream[i].ev \notin Malformed => stream[i].n >= MaxRetries
  BY <1>1 DEF GivenUpOnlyWhenExhausted
<1> QED BY <1>2, <1>3, <1>4

\* A goroutine that keeps its batch and its counts keeps its part of SeenIsPast.
LEMMA SeenStays ==
  ASSUME TypeInv, Durable, SeenIsPast, NEW v \in Workers, NEW i \in Slots,
         batch'[v] = batch[v], seen'[v][i] = seen[v][i]
  PROVE  IF i \in batch'[v] THEN seen'[v][i] <= stream'[i].n ELSE seen'[v][i] = 0
<1>1. CASE i \in batch[v]
  <2>1. stream[i].st # "free"
    BY <1>1 DEF TypeInv, HeldIsDelivered
  <2>2. stream'[i].n >= stream[i].n /\ stream[i].n \in Nat /\ stream'[i].n \in Nat
    BY <2>1, StreamType DEF Durable, StreamGrows, Entry
  <2>3. seen[v][i] <= stream[i].n /\ seen[v][i] \in Nat
    BY <1>1, LocalFacts DEF SeenIsPast
  <2> QED BY <1>1, <2>2, <2>3
<1>2. CASE i \notin batch[v]
  BY <1>2 DEF SeenIsPast
<1> QED BY <1>1, <1>2

\* A step after which every goroutine has kept its batch and counts, or has
\* started afresh, or has dropped an entry, keeps SeenIsPast and
\* LoopHoldsNothing.
LEMMA SeenKeeps ==
  ASSUME TypeInv, Durable, SeenIsPast,
         \A v \in Workers : \A i \in Slots :
           \/ batch'[v] = batch[v] /\ seen'[v][i] = seen[v][i]
           \/ i \in batch[v] /\ batch'[v] = batch[v] /\ seen'[v][i] <= stream'[i].n
           \/ i \in batch'[v] /\ i \in batch[v] /\ seen'[v][i] = seen[v][i]
           \/ i \notin batch[v] /\ i \notin batch'[v] /\ seen'[v][i] = seen[v][i]
           \/ seen'[v][i] = 0
  PROVE  SeenIsPast'
<1> SUFFICES ASSUME NEW v \in Workers, NEW i \in Slots
             PROVE  IF i \in batch'[v] THEN seen'[v][i] <= stream'[i].n ELSE seen'[v][i] = 0
  BY DEF SeenIsPast
<1>1. stream'[i].n \in Nat /\ stream[i].n \in Nat
  BY StreamType DEF Durable, StreamGrows, Entry
<1>2. CASE batch'[v] = batch[v] /\ seen'[v][i] = seen[v][i]
  BY <1>2, SeenStays
<1>3. CASE i \in batch[v] /\ batch'[v] = batch[v] /\ seen'[v][i] <= stream'[i].n
  BY <1>3
<1>4. CASE i \in batch'[v] /\ i \in batch[v] /\ seen'[v][i] = seen[v][i]
  <2>1. stream'[i].n >= stream[i].n
    BY <1>4 DEF TypeInv, HeldIsDelivered, Durable, StreamGrows
  <2>2. seen[v][i] <= stream[i].n /\ seen[v][i] \in Nat
    BY <1>4, LocalFacts DEF SeenIsPast
  <2> QED BY <1>1, <1>4, <2>1, <2>2
<1>5. CASE i \notin batch[v] /\ i \notin batch'[v] /\ seen'[v][i] = seen[v][i]
  BY <1>5 DEF SeenIsPast
<1>6. CASE seen'[v][i] = 0
  BY <1>1, <1>6
<1> QED BY <1>2, <1>3, <1>4, <1>5, <1>6

\* handleMessage dead-letters a payload that decodes only when the count it
\* has seen, one of the entry's past, has reached MaxRetries (worker.go 94-99).
LEMMA HandleKeepsCounts ==
  ASSUME IInv, NEW w \in Workers, NEW i \in Slots, Handle(w, i)
  PROVE  Counts'
<1>1. TypeInv /\ Counts /\ Durable
  BY StepIsDurable DEF IInv, Counts, WorkerNext, Step
<1>2. i \in batch[w] /\ stream[i].st # "free"
  BY <1>1 DEF Handle, DeadLetter, Store, Enqueue, CountDay, CountUser, Ack, Current,
              TypeInv, HeldIsDelivered
<1>3. Finish(w, i) \/ \E to \in {"enqueue", "count", "active", "ack"} : Advance(w, to)
  BY DEF Handle, DeadLetter, Store, Enqueue, CountDay, CountUser, Ack
<1>4. SeenIsPast'
  <2>1. CASE Finish(w, i)
    <3>1. /\ \A v \in Workers \ {w} : batch'[v] = batch[v] /\ seen'[v] = seen[v]
          /\ batch'[w] = batch[w] \ {i} /\ seen'[w] = [seen[w] EXCEPT ![i] = 0]
          /\ seen'[w][i] = 0 /\ \A j \in Slots \ {i} : seen'[w][j] = seen[w][j]
      BY <1>1, <2>1, LocalFacts DEF Finish
    <3> QED BY <1>1, <3>1, SeenKeeps DEF Counts
  <2>2. CASE \E to \in {"enqueue", "count", "active", "ack"} : Advance(w, to)
    BY <1>1, <2>2, SeenKeeps DEF Counts, Advance
  <2> QED BY <1>3, <2>1, <2>2
<1>5. LoopHoldsNothing'
  BY <1>1, <1>3, LocalFacts DEF Counts, LoopHoldsNothing, Finish, Advance
<1>6. DeadLetteredIsUsed' /\ GivenUpOnlyWhenExhausted'
  <2>1. CASE DeadLetter(w, i) /\ InsertDeadLetter(i)
    <3>1. UNCHANGED stream /\ \A j \in Slots \ {i} : dlq'[j] = dlq[j]
      BY <1>1, <2>1, TableFacts DEF DeadLetter, InsertDeadLetter
    <3>2. stream[i].ev \notin Malformed => stream[i].n >= MaxRetries
      <4>1. seen[w][i] <= stream[i].n
        BY <1>1, <1>2 DEF Counts, SeenIsPast
      <4>2. stream[i].ev \notin Malformed => seen[w][i] >= MaxRetries
        BY <2>1 DEF DeadLetter, GivesUp
      <4>3. stream[i].n \in Nat /\ seen[w][i] \in Nat /\ MaxRetries \in Nat
        BY <1>1, StreamType, LocalFacts, WorkerAssumption DEF Entry
      <4> QED BY <4>1, <4>2, <4>3
    <3> QED BY <1>1, <1>2, <3>1, <3>2 DEF Counts, DeadLetteredIsUsed, GivenUpOnlyWhenExhausted
  <2>2. CASE UNCHANGED dlq
    BY <1>1, <2>2, NoDeadLetterKeeps DEF Counts
  <2> QED BY <2>1, <2>2 DEF Handle, DeadLetter, Store, Enqueue, CountDay, CountUser, Ack, tables
<1> QED BY <1>4, <1>5, <1>6 DEF Counts

\* Every step of the worker processes keeps what is known of delivery counts:
\* a stale or missing count is never larger than the entry's own.
LEMMA WorkerKeepsCounts ==
  ASSUME IInv, WorkerNext
  PROVE  Counts'
<1>1. TypeInv /\ Counts /\ Durable
  BY StepIsDurable DEF IInv, Counts
<1>2. CASE \E w \in Workers, i \in Slots : Handle(w, i)
  BY <1>2, HandleKeepsCounts
<1>3. ASSUME UNCHANGED dlq, SeenIsPast', LoopHoldsNothing' PROVE Counts'
  BY <1>1, <1>3, NoDeadLetterKeeps DEF Counts
<1>4. ASSUME UNCHANGED <<dlq, pc, batch, seen>> PROVE Counts'
  <2>1. SeenIsPast'
    BY <1>1, <1>4, SeenKeeps DEF Counts
  <2> QED BY <1>1, <1>3, <1>4, <2>1 DEF Counts, LoopHoldsNothing
<1>5. ASSUME NEW w \in Workers, Read(w) \/ Reclaim(w) PROVE Counts'
  <2>1. /\ batch[w] = {} /\ UNCHANGED <<seen, dlq>>
        /\ \A v \in Workers \ {w} : pc'[v] = pc[v] /\ batch'[v] = batch[v]
        /\ pc'[w] \in {"message", "claimed"}
    BY <1>1, <1>5, LocalFacts
       DEF Read, Reclaim, Take, Counts, LoopHoldsNothing, tables
  <2>2. \A i \in Slots : seen'[w][i] = 0
    BY <1>1, <2>1 DEF Counts, SeenIsPast
  <2>3. SeenIsPast'
    BY <1>1, <2>1, <2>2, SeenKeeps DEF Counts
  <2> QED BY <1>1, <1>3, <2>1, <2>3 DEF Counts, LoopHoldsNothing
<1>6. ASSUME NEW w \in Workers, ReadNothing(w) \/ LoseAnswer(w) PROVE Counts'
  BY <1>4, <1>6 DEF ReadNothing, LoseAnswer, workerVars, tables
<1>7. ASSUME NEW w \in Workers, CountDeliveries(w) PROVE Counts'
  <2>1. \A i \in Slots :
          \/ DeliveryCounts(batch[w])[i] = 0
          \/ i \in batch[w] /\ DeliveryCounts(batch[w])[i] = stream[i].n
    BY DEF DeliveryCounts
  <2>2. UNCHANGED <<stream, batch, dlq>> /\ pc' = [pc EXCEPT ![w] = "message"]
    BY <1>7 DEF CountDeliveries, tables
  <2>3. \A i \in Slots : stream[i].n \in Nat
    BY <1>1, StreamType DEF Entry
  <2>4. \A v \in Workers : \A i \in Slots :
          \/ seen'[v][i] = seen[v][i]
          \/ seen'[v][i] = 0
          \/ i \in batch[v] /\ seen'[v][i] <= stream'[i].n
    BY <1>1, <1>7, <2>1, <2>2, <2>3, LocalFacts DEF CountDeliveries
  <2>5. SeenIsPast'
    BY <1>1, <2>2, <2>4, SeenKeeps DEF Counts
  <2> QED BY <1>1, <1>3, <2>2, <2>5, LocalFacts DEF Counts, LoopHoldsNothing
<1>8. ASSUME NEW w \in Workers, Exit(w) PROVE Counts'
  <2>1. UNCHANGED <<batch, seen, dlq>> /\ batch[w] = {}
    BY <1>1, <1>8 DEF Exit, Counts, LoopHoldsNothing, tables
  <2>2. SeenIsPast'
    BY <1>1, <2>1, SeenKeeps DEF Counts
  <2> QED BY <1>1, <1>3, <1>8, <2>1, <2>2, LocalFacts DEF Counts, LoopHoldsNothing, Exit
<1>9. ASSUME NEW i \in Slots, Elapse(i) PROVE Counts'
  BY <1>4, <1>9 DEF Elapse, workerVars, tables
<1>10. ASSUME NEW p \in Procs, Sigterm(p) PROVE Counts'
  BY <1>4, <1>10 DEF Sigterm, tables
<1>11. ASSUME NEW p \in Procs, Crash(p) \/ Restart(p) PROVE Counts'
  <2>1. UNCHANGED dlq
    BY <1>11 DEF Crash, Restart, tables
  <2>2. \A v \in Workers : \A i \in Slots :
          \/ batch'[v] = batch[v] /\ seen'[v][i] = seen[v][i]
          \/ seen'[v][i] = 0
    BY <1>11 DEF Crash, Restart, Reset, NoCounts
  <2>3. SeenIsPast'
    BY <1>1, <2>2, SeenKeeps DEF Counts
  <2>4. LoopHoldsNothing'
    BY <1>1, <1>11 DEF Counts, LoopHoldsNothing, Crash, Restart, Reset
  <2> QED BY <1>3, <2>1, <2>3, <2>4
<1> QED BY <1>2, <1>5, <1>6, <1>7, <1>8, <1>9, <1>10, <1>11 DEF WorkerNext, Step

\* The API handlers deliver and dead-letter nothing.
LEMMA IngestKeepsCounts ==
  ASSUME IInv, IngestNext, UNCHANGED workerVars
  PROVE  Counts'
<1>1. TypeInv /\ Counts /\ Durable
  BY StepIsDurable DEF IInv, Counts
<1>2. UNCHANGED <<dlq, pc, batch, seen>>
  BY <1>1, IngestKeepsType DEF IngestType, workerVars
<1>3. SeenIsPast'
  BY <1>1, <1>2, SeenKeeps DEF Counts
<1> QED BY <1>1, <1>2, <1>3, NoDeadLetterKeeps DEF Counts, LoopHoldsNothing

-----------------------------------------------------------------------------
\* What is published stays published.
LEMMA InStreamStays == ASSUME StreamGrows, NEW e, InStream(e) PROVE InStream(e)'
BY DEF StreamGrows, InStream

\* After XADD the event is in the stream.
LEMMA AddPublishes ==
  ASSUME TypeInv, NEW e \in Events, XAdd(e) \/ XAddTwice(e)
  PROVE  InStream(e)'
<1>1. NewEntry(e).st = "new" /\ NewEntry(e).ev = e
  BY DEF NewEntry
<1> QED BY <1>1, StreamType DEF XAdd, XAddTwice, InStream

\* Publish and PublishBatch (stream.go 30-69) go on to the direct write only if
\* every XADD succeeded.
LEMMA PublishKeepsPrefix ==
  ASSUME IInv, NEW q \in Requests, Publish(q)
  PROVE  PublishedPrefix'
<1>1. TypeInv /\ PublishedPrefix /\ PublishPosition /\ StreamGrows /\ req \in [Requests -> RequestState]
  BY IngestKeepsType DEF IInv, TypeInv, TypeOK, IngestNext, HandleIngest, IngestType
<1>2. /\ req[q].next \in DOMAIN Batch[q]
      /\ DOMAIN Batch[q] = 1 .. Len(Batch[q]) /\ Len(Batch[q]) \in Nat
  BY <1>1, IngestAssumption DEF PublishPosition, Publish
<1>k. PICK k \in Nat : k = req[q].next
  BY <1>2
<1>e. PICK e \in Events : e = Batch[q][k]
  BY <1>2, <1>k, IngestAssumption
<1>3. PICK failed \in BOOLEAN : /\ Published(q, failed)
                                /\ ~failed => XAdd(e) \/ XAddTwice(e)
  BY <1>k, <1>e DEF Publish
<1>4. ~failed => InStream(e)'
  BY <1>1, <1>2, <1>3, AddPublishes
<1>5. ~req'[q].err => ~failed /\ ~req[q].err
  BY <1>1, <1>3 DEF Published
<1>6. ASSUME ~failed, ~req[q].err, NEW j \in DOMAIN Batch[q], j <= k
      PROVE  InStream(Batch[q][j])'
  <2>1. CASE j = k
    BY <2>1, <1>e, <1>4, <1>6
  <2>2. CASE j < k
    <3>1. InStream(Batch[q][j])
      BY <2>2, <1>k, <1>1, <1>6 DEF PublishedPrefix, Publish
    <3> QED BY <3>1, <1>1, InStreamStays
  <2> QED BY <2>1, <2>2, <1>2, <1>6
<1>7. /\ req'[q].pc = "publish" => req'[q].next = k + 1
      /\ req'[q].pc = "store" => k = Len(Batch[q]) /\ ~failed /\ ~req[q].err
      /\ req'[q].pc \in {"publish", "store", "failed"}
      /\ \A r \in Requests \ {q} : req'[r] = req[r]
  BY <1>1, <1>k, <1>3 DEF Published
<1>8. ASSUME NEW r \in Requests
      PROVE  /\ req'[r].pc = "publish" /\ ~req'[r].err =>
                  \A j \in DOMAIN Batch[r] : j < req'[r].next => InStream(Batch[r][j])'
             /\ req'[r].pc \in {"store", "broadcast", "accepted"} =>
                  \A j \in DOMAIN Batch[r] : InStream(Batch[r][j])'
  <2>1. CASE r = q
    BY <2>1, <1>2, <1>5, <1>6, <1>7
  <2>2. CASE r # q
    BY <2>2, <1>1, <1>7, InStreamStays DEF PublishedPrefix
  <2> QED BY <2>1, <2>2
<1> QED BY <1>8 DEF PublishedPrefix

\* Every step keeps what the handlers have published.
LEMMA PrefixStep ==
  ASSUME IInv, \/ IngestNext
               \/ WorkerNext /\ UNCHANGED ingestVars
  PROVE  PublishedPrefix'
<1>1. TypeInv /\ PublishedPrefix /\ StreamGrows /\ PublishPosition
  BY StepIsDurable DEF IInv, TypeInv, Durable
<1>2. req \in [Requests -> RequestState]
  BY <1>1 DEF TypeInv, TypeOK
<1>3. ASSUME NEW q \in Requests, Publish(q) PROVE PublishedPrefix'
  BY <1>3, PublishKeepsPrefix
<1>4. ASSUME UNCHANGED req PROVE PublishedPrefix'
  BY <1>1, <1>4, InStreamStays DEF PublishedPrefix
<1>5. ASSUME NEW q \in Requests, Decode(q) PROVE PublishedPrefix'
  <2>1. /\ req'[q].pc \in {"publish", "rejected"} /\ req'[q].next = 1
        /\ \A r \in Requests \ {q} : req'[r] = req[r]
    BY <1>1, <1>2, <1>5 DEF Decode, Goto, PublishPosition
  <2>2. \A j \in DOMAIN Batch[q] : ~(j < 1)
    BY IngestAssumption
  <2> QED BY <1>1, <2>1, <2>2, InStreamStays DEF PublishedPrefix
<1>6. ASSUME NEW q \in Requests, DirectStore(q) \/ Broadcast(q) \/ Abort(q)
      PROVE  PublishedPrefix'
  <2>1. /\ req'[q].pc = "aborted" \/ req[q].pc \in {"store", "broadcast"}
        /\ req'[q].pc \in {"broadcast", "accepted", "aborted"}
        /\ \A r \in Requests \ {q} : req'[r] = req[r]
    <3>1. ASSUME NEW to, Goto(q, to)
          PROVE  req'[q].pc = to /\ \A r \in Requests \ {q} : req'[r] = req[r]
      BY <1>2, <3>1 DEF Goto, RequestState
    <3> QED BY <1>6, <3>1 DEF DirectStore, Broadcast, Abort
  <2> QED BY <1>1, <2>1, InStreamStays DEF PublishedPrefix
<1> QED BY <1>3, <1>4, <1>5, <1>6
        DEF IngestNext, HandleIngest, ForeignAdd, ingestVars

-----------------------------------------------------------------------------
\* IInv is inductive.
LEMMA IInvStep == IInv /\ [Next]_vars => IInv'
<1> SUFFICES ASSUME IInv, [Next]_vars PROVE IInv'
  OBVIOUS
<1>1. TypeInv'
  BY TypeStep DEF IInv
<1>2. CASE IngestNext /\ UNCHANGED workerVars
  BY <1>1, <1>2, IngestKeepsStored, IngestKeepsCounts, PrefixStep DEF IInv, Counts
<1>3. CASE WorkerNext /\ UNCHANGED ingestVars
  BY <1>1, <1>3, WorkerKeepsStored, WorkerKeepsCounts, PrefixStep DEF IInv, Counts
<1>4. CASE UNCHANGED vars
  <2>1. UNCHANGED <<stream, rows, dlq, req, pc, batch, seen>>
    BY <1>4 DEF vars, tables, ingestVars, workerVars
  <2>2. AckedIsSettled' /\ PublishedPrefix' /\ LoopHoldsNothing' /\ SeenIsPast'
    BY <2>1 DEF IInv, AckedIsSettled, PublishedPrefix, LoopHoldsNothing, SeenIsPast,
                With, Settled, Stored, InStream
  <2>3. StoredBeforeAck' /\ DeadLetteredIsUsed' /\ GivenUpOnlyWhenExhausted'
    BY <2>1 DEF IInv, StoredBeforeAck, DeadLetteredIsUsed, GivenUpOnlyWhenExhausted,
                Current, Settled, Stored
  <2> QED BY <1>1, <2>2, <2>3 DEF IInv
<1> QED BY <1>2, <1>3, <1>4 DEF Next

\* The inductive invariant holds in every reachable state: where a goroutine
\* is in handleMessage, and where a request is in its handler, tells what is
\* durable; it carries the three safety theorems below.
THEOREM Invariance == Spec => []IInv
BY InitIInv, IInvStep, PTL DEF Spec

\* handleMessage and deadLetter (worker.go 106-205): an entry leaves the pending
\* list only when its event is stored or dead-lettered, whatever fails.
THEOREM NoEntryIsLost == Spec => []AckedIsSettled
<1>1. IInv => AckedIsSettled
  BY DEF IInv
<1> QED BY <1>1, Invariance, PTL

\* HandleIngest and HandleBatchIngest (handler.go 91-222): an event that was
\* answered 202 is in the stream, stored or dead-lettered for ever after.
THEOREM NoAcceptedEventIsLost == Spec => []AcceptedIsNeverLost
<1>1. IInv => AcceptedIsNeverLost
  <2> SUFFICES ASSUME IInv, NEW q \in Requests, req[q].pc = "accepted", NEW e \in EventsOf(q)
               PROVE  \E i \in Used : stream[i].ev = e /\ (stream[i].st # "acked" \/ Settled(i))
    BY DEF AcceptedIsNeverLost
  <2>1. PICK i \in Slots : stream[i].st # "free" /\ stream[i].ev = e
    BY DEF IInv, PublishedPrefix, EventsOf, InStream
  <2>2. i \in Used
    BY <2>1, StreamType DEF IInv, Used, With, Entry
  <2>3. stream[i].st # "acked" \/ Settled(i)
    BY <2>1 DEF IInv, AckedIsSettled, With
  <2> QED BY <2>1, <2>2, <2>3
<1> QED BY <1>1, Invariance, PTL

\* reclaimAndProcess (worker.go 88-101): a payload that decodes is given up only
\* after MaxRetries deliveries, however stale the count that was read.
THEOREM NoEarlyDeadLetter == Spec => []GivenUpOnlyWhenExhausted
<1>1. IInv => GivenUpOnlyWhenExhausted
  BY DEF IInv
<1> QED BY <1>1, Invariance, PTL

-----------------------------------------------------------------------------
\* The refinement: Used, the settled entries and the acknowledged ones behave
\* as the queue of AtLeastOnce.

\* No entry is taken in and none is acknowledged.
SameEntries ==
  \A i \in Slots : /\ stream'[i].st = "free" <=> stream[i].st = "free"
                   /\ stream'[i].st = "acked" <=> stream[i].st = "acked"

\* Used entries are those that are not free.
LEMMA UsedIsNotFree ==
  /\ TypeInv => \A i : i \in Used <=> i \in Slots /\ stream[i].st # "free"
  /\ StreamGrows => \A i : i \in Used' <=> i \in Slots /\ stream'[i].st # "free"
BY StreamType DEF Used, With, Entry, StreamGrows

\* A step that keeps the entries and what is durable settles some of them.
LEMMA SettlingStep ==
  ASSUME TypeInv, Durable, SameEntries
  PROVE  Queue!Settle
<1>1. Used' = Used /\ With({"acked"})' = With({"acked"})
  BY UsedIsNotFree DEF SameEntries, With, Durable
<1>2. \A i \in Used : Settled(i) => Settled(i)'
  BY UsedIsNotFree, SettledStays
<1> DEFINE S == {i \in Used : Settled(i)'}
<1>3. {i \in Used : Settled(i)}' = {i \in Used : Settled(i)} \cup S
  BY <1>1, <1>2
<1> QED BY <1>1, <1>3 DEF Queue!Settle

\* An XADD takes in entries and settles no other.
LEMMA AcceptingStep ==
  ASSUME TypeInv, NEW e \in Events, XAdd(e) \/ XAddTwice(e), UNCHANGED <<rows, dlq>>
  PROVE  Queue!Accept
<1>1. StreamGrows /\ \A i \in Slots : stream'[i].st = stream[i].st \/ stream'[i].st = "new"
  BY AddGrows
<1>2. Used \subseteq Used' /\ Used' \subseteq Slots
  BY <1>1, UsedIsNotFree DEF StreamGrows
<1>3. With({"acked"})' = With({"acked"})
  BY <1>1 DEF With, StreamGrows
<1>4. \A i \in Used : Settled(i)' <=> Settled(i)
  BY <1>1, UsedIsNotFree DEF StreamGrows, Settled, Stored
<1> DEFINE S == Used' \ Used
           T == {i \in S : Settled(i)'}
<1>5. /\ S \in SUBSET (Slots \ Used) /\ T \in SUBSET S
      /\ Used' = Used \cup S
      /\ {i \in Used : Settled(i)}' = {i \in Used : Settled(i)} \cup T
  BY <1>2, <1>4
<1> QED BY <1>3, <1>5 DEF Queue!Accept

\* XACK acknowledges an entry that the goroutine has made durable.
LEMMA AckingStep ==
  ASSUME IInv, NEW w \in Workers, NEW i \in Slots, Ack(w, i), XAck(i)
  PROVE  Queue!Ack
<1>1. TypeInv /\ i \in batch[w] /\ Settled(i) /\ UNCHANGED <<rows, dlq>>
  BY DEF IInv, StoredBeforeAck, Ack, Current, tables
<1>2. stream[i].st # "free"
  BY <1>1 DEF TypeInv, HeldIsDelivered
<1>3. /\ \A j \in Slots : stream'[j].ev = stream[j].ev
      /\ \A j \in Slots : j # i => stream'[j].st = stream[j].st
      /\ stream'[i].st = "acked" /\ StreamGrows
  <2>1. StreamGrows
    BY <1>1, AckGrows
  <2>2. stream \in [Slots -> Entry] /\ stream' = [stream EXCEPT ![i].st = "acked"]
    BY <1>1, StreamType DEF XAck
  <2> QED BY <2>1, <2>2 DEF Entry
<1>4. Used' = Used
  BY <1>1, <1>2, <1>3, UsedIsNotFree
<1>5. {j \in Used : Settled(j)}' = {j \in Used : Settled(j)}
  <2>1. \A j \in Used : Settled(j)' <=> Settled(j)
    BY <1>1, <1>3 DEF Settled, Stored, Used, With
  <2> QED BY <1>4, <2>1
<1>6. With({"acked"})' = With({"acked"}) \cup {i}
  BY <1>3 DEF With
<1>7. i \in {j \in Used : Settled(j)}
  BY <1>1, <1>2, UsedIsNotFree
<1> QED BY <1>4, <1>5, <1>6, <1>7 DEF Queue!Ack

\* A step of the API handlers takes in entries or settles some.
LEMMA IngestRefines ==
  ASSUME TypeInv, IngestNext
  PROVE  Queue!Next
<1>1. Durable
  BY StepIsDurable
<1>2. ASSUME UNCHANGED stream PROVE Queue!Next
  BY <1>1, <1>2, SettlingStep DEF SameEntries, Queue!Next
<1>3. ASSUME NEW q \in Requests, Publish(q) PROVE Queue!Next
  <2>1. Batch[q][req[q].next] \in Events
    BY <1>3, IngestAssumption DEF TypeInv, PublishPosition, Publish
  <2>2. PICK e \in Events : XAdd(e) \/ XAddTwice(e) \/ UNCHANGED stream
    BY <1>3, <2>1 DEF Publish
  <2> QED BY <1>2, <1>3, <2>2, AcceptingStep DEF Publish, tables, Queue!Next
<1>4. ASSUME NEW e \in Malformed, ForeignAdd(e) PROVE Queue!Next
  BY <1>4, AcceptingStep, StreamAssumption DEF ForeignAdd, tables, Queue!Next
<1> QED BY <1>2, <1>3, <1>4
        DEF IngestNext, HandleIngest, Decode, DirectStore, Broadcast, Abort

\* A step of the worker processes settles entries or acknowledges one.
LEMMA WorkerRefines ==
  ASSUME IInv, WorkerNext
  PROVE  Queue!Next
<1>1. TypeInv /\ Durable
  BY StepIsDurable DEF IInv
<1>2. ASSUME SameEntries PROVE Queue!Next
  BY <1>1, <1>2, SettlingStep DEF Queue!Next
<1>3. ASSUME UNCHANGED stream PROVE Queue!Next
  BY <1>2, <1>3 DEF SameEntries
<1>4. ASSUME NEW S, S = NextNew \/ S = NextIdle, Deliver(S) PROVE Queue!Next
  <2>1. \A i \in S : i \in Slots /\ stream[i].st \in {"new", "idle"}
    BY <1>4 DEF NextNew, NextIdle, First, With
  <2>2. \A i \in S : stream'[i].st = "pending"
    BY <1>1, <1>4, DeliverGrows
  <2>3. \A i \in Slots : i \notin S => stream'[i] = stream[i]
    BY <1>4 DEF Deliver
  <2> QED BY <1>2, <2>1, <2>2, <2>3 DEF SameEntries
<1>5. ASSUME NEW w \in Workers, Read(w) \/ Reclaim(w) \/ LoseAnswer(w) PROVE Queue!Next
  BY <1>4, <1>5 DEF Read, Reclaim, LoseAnswer, Take
<1>6. ASSUME NEW w \in Workers, ReadNothing(w) \/ CountDeliveries(w) \/ Exit(w)
      PROVE  Queue!Next
  BY <1>3, <1>6 DEF ReadNothing, CountDeliveries, Exit
<1>7. ASSUME NEW w \in Workers, NEW i \in Slots, Handle(w, i) PROVE Queue!Next
  BY <1>3, <1>7, AckingStep
     DEF Handle, DeadLetter, Store, Enqueue, CountDay, CountUser, Ack, Queue!Next
<1>8. ASSUME NEW i \in Slots, Elapse(i) PROVE Queue!Next
  BY <1>1, <1>2, <1>8, StreamType DEF Elapse, BecomeIdle, SameEntries
<1>9. ASSUME NEW p \in Procs, Sigterm(p) \/ Crash(p) \/ Restart(p) PROVE Queue!Next
  BY <1>3, <1>9 DEF Sigterm, Crash, Restart
<1> QED BY <1>5, <1>6, <1>7, <1>8, <1>9 DEF WorkerNext, Step

\* handleMessage, deadLetter, Reclaim and the handlers (worker.go 58-205,
\* consumer.go 47-130, handler.go 91-222) implement the abstract queue: what
\* was taken in is durable before it is acknowledged, and nothing is undone.
THEOREM PipelineIsAtLeastOnce == Spec => IsAtLeastOnce
<1>1. Init => Queue!Init
  BY DEF Init, StreamInit, Queue!Init, Used, With
<1>2. IInv /\ [Next]_vars => [Queue!Next]_(Queue!vars)
  <2> SUFFICES ASSUME IInv, [Next]_vars PROVE [Queue!Next]_(Queue!vars)
    OBVIOUS
  <2>1. CASE IngestNext
    BY <2>1, IngestRefines DEF IInv
  <2>2. CASE WorkerNext
    BY <2>2, WorkerRefines
  <2>3. CASE UNCHANGED vars
    BY <2>3 DEF vars, tables, Queue!vars, Used, With, Settled, Stored
  <2> QED BY <2>1, <2>2, <2>3 DEF Next
<1> QED BY <1>1, <1>2, Invariance, PTL DEF Spec, IsAtLeastOnce, Queue!Spec

-----------------------------------------------------------------------------
(***************************************************************************)
(* Counting.  A delivery of an entry gives one goroutine the right to count*)
(* it once: what was counted and what may still be counted stay within the *)
(* delivery counter.                                                       *)
(***************************************************************************)

\* The goroutines that hold the entry and have not passed CountDay with it.
MayCount(i) ==
  {w \in Workers : i \in batch[w] /\ ~(Current(w, i) /\ pc[w] \in {"active", "ack"})}

CountBudget == \A i \in Slots : daily[i] + Cardinality(MayCount(i)) <= stream[i].n

FreeIsUncounted == \A i \in Slots : stream[i].st = "free" => daily[i] = 0

CInv == IInv /\ CountBudget /\ FreeIsUncounted

\* The three ways to stay within the budget.
LEMMA BudgetKept ==
  ASSUME NEW S, NEW T, IsFiniteSet(S),
         NEW d \in Nat, NEW n \in Nat, NEW d1 \in Nat, NEW n1 \in Nat,
         d + Cardinality(S) <= n,
         \/ T \subseteq S /\ d1 = d /\ n1 >= n
         \/ \E w : T \subseteq S \cup {w} /\ d1 = d /\ n1 = n + 1
         \/ \E w \in S : T \subseteq S \ {w} /\ d1 = d + 1 /\ n1 >= n
  PROVE  d1 + Cardinality(T) <= n1
<1>0. Cardinality(S) \in Nat BY FS_CardinalityType
<1>1. CASE T \subseteq S /\ d1 = d /\ n1 >= n
  <2>1. IsFiniteSet(T) /\ Cardinality(T) <= Cardinality(S) BY <1>1, FS_Subset
  <2>2. Cardinality(T) \in Nat BY <2>1, FS_CardinalityType
  <2> QED BY <1>0, <1>1, <2>1, <2>2
<1>2. ASSUME NEW w, T \subseteq S \cup {w}, d1 = d, n1 = n + 1 PROVE d1 + Cardinality(T) <= n1
  <2>1. IsFiniteSet(S \cup {w}) /\ Cardinality(S \cup {w}) <= Cardinality(S) + 1
    BY <1>0, FS_AddElement
  <2>2. IsFiniteSet(T) /\ Cardinality(T) <= Cardinality(S \cup {w}) BY <1>2, <2>1, FS_Subset
  <2>3. Cardinality(T) \in Nat /\ Cardinality(S \cup {w}) \in Nat
    BY <2>1, <2>2, FS_CardinalityType
  <2> QED BY <1>0, <1>2, <2>1, <2>2, <2>3
<1>3. ASSUME NEW w \in S, T \subseteq S \ {w}, d1 = d + 1, n1 >= n
      PROVE  d1 + Cardinality(T) <= n1
  <2>1. IsFiniteSet(S \ {w}) /\ Cardinality(S \ {w}) = Cardinality(S) - 1 BY FS_RemoveElement
  <2>2. IsFiniteSet(T) /\ Cardinality(T) <= Cardinality(S \ {w}) BY <1>3, <2>1, FS_Subset
  <2>3. Cardinality(T) \in Nat BY <2>2, FS_CardinalityType
  <2> QED BY <1>0, <1>3, <2>1, <2>2, <2>3
<1> QED BY <1>1, <1>2, <1>3

\* What the entries need for the budget in a step.
BudgetStep ==
  /\ daily' \in [Slots -> Nat] /\ stream' \in [Slots -> Entry]
  /\ \A i \in Slots :
       \/ MayCount(i)' \subseteq MayCount(i) /\ daily'[i] = daily[i] /\ stream'[i].n >= stream[i].n
       \/ \E w : /\ MayCount(i)' \subseteq MayCount(i) \cup {w}
                 /\ daily'[i] = daily[i] /\ stream'[i].n = stream[i].n + 1
       \/ \E w \in MayCount(i) : /\ MayCount(i)' \subseteq MayCount(i) \ {w}
                                 /\ daily'[i] = daily[i] + 1 /\ stream'[i].n >= stream[i].n
       \/ MayCount(i)' = {} /\ daily'[i] = 0

LEMMA BudgetStays == ASSUME CInv, BudgetStep PROVE CountBudget'
<1> SUFFICES ASSUME NEW i \in Slots
             PROVE  daily'[i] + Cardinality(MayCount(i)') <= stream'[i].n
  BY DEF CountBudget
<1>1. stream[i] \in Entry /\ stream'[i] \in Entry BY StreamType DEF CInv, IInv, BudgetStep
<1>2. stream[i].n \in Nat /\ stream'[i].n \in Nat BY <1>1 DEF Entry
<1>3. daily[i] \in Nat /\ daily'[i] \in Nat BY TableFacts DEF CInv, IInv, BudgetStep
<1>4. IsFiniteSet(MayCount(i))
  <2>1. MayCount(i) \in SUBSET Workers BY DEF MayCount
  <2> QED BY <2>1, WorkerAssumption, FS_Subset
<1>5. daily[i] + Cardinality(MayCount(i)) <= stream[i].n BY DEF CInv, CountBudget
<1>6. CASE MayCount(i)' = {} /\ daily'[i] = 0 BY <1>2, <1>6, FS_EmptySet
<1>7. CASE ~(MayCount(i)' = {} /\ daily'[i] = 0)
  <2> DEFINE T == MayCount(i)'
  <2>1. \/ T \subseteq MayCount(i) /\ daily'[i] = daily[i] /\ stream'[i].n >= stream[i].n
        \/ \E w : /\ T \subseteq MayCount(i) \cup {w}
                  /\ daily'[i] = daily[i] /\ stream'[i].n = stream[i].n + 1
        \/ \E w \in MayCount(i) : /\ T \subseteq MayCount(i) \ {w}
                                  /\ daily'[i] = daily[i] + 1 /\ stream'[i].n >= stream[i].n
    BY <1>7 DEF BudgetStep
  <2> HIDE DEF T
  <2>2. daily'[i] + Cardinality(T) <= stream'[i].n BY <1>2, <1>3, <1>4, <1>5, <2>1, BudgetKept
  <2> QED BY <2>2 DEF T
<1> QED BY <1>6, <1>7

\* Goroutines that stay as they are, and one that takes nothing new.
LEMMA MayCountShrinks ==
  ASSUME NEW w \in Workers, NEW i,
         \A v \in Workers \ {w} : pc'[v] = pc[v] /\ batch'[v] = batch[v],
         i \in batch'[w] => i \in batch[w],
         i \in batch'[w] /\ Current(w, i) /\ pc[w] \in {"active", "ack"} =>
           Current(w, i)' /\ pc'[w] \in {"active", "ack"}
  PROVE  MayCount(i)' \subseteq MayCount(i)
<1>1. \A v \in Workers \ {w} : Current(v, i)' <=> Current(v, i) BY DEF Current
<1> QED BY <1>1 DEF MayCount

LEMMA MayCountSame == ASSUME NEW i, UNCHANGED <<pc, batch>> PROVE MayCount(i)' = MayCount(i)
BY DEF MayCount, Current

\* A goroutine that returns from handleMessage, or goes on within it.
LEMMA HandledShrinks ==
  ASSUME TypeInv, NEW w \in Workers, NEW i \in Slots, Current(w, i), NEW j \in Slots,
         \/ Finish(w, i)
         \/ \E to \in {"enqueue", "count"} : Advance(w, to) /\ pc[w] \notin {"active", "ack"}
         \/ \E to \in {"active", "ack"} : Advance(w, to)
  PROVE  MayCount(j)' \subseteq MayCount(j)
<1>1. /\ \A v \in Workers \ {w} : pc'[v] = pc[v] /\ batch'[v] = batch[v]
      /\ j \in batch'[w] => j \in batch[w]
  BY LocalFacts DEF Finish, Advance
<1>2. CASE Finish(w, i)
  <2>1. j \in batch'[w] => j \in batch[w] /\ j # i BY <1>2, LocalFacts DEF Finish
  <2>2. j # i => ~Current(w, j)
    <3>1. i \in Nat /\ j \in Nat BY DEF Slots
    <3> QED BY <3>1 DEF Current
  <2> QED BY <1>1, <2>1, <2>2, MayCountShrinks
<1>3. CASE \E to \in {"enqueue", "count"} : Advance(w, to) /\ pc[w] \notin {"active", "ack"}
  BY <1>1, <1>3, MayCountShrinks
<1>4. CASE \E to \in {"active", "ack"} : Advance(w, to)
  <2>1. Current(w, j)' <=> Current(w, j) BY <1>4 DEF Advance, Current
  <2>2. pc'[w] \in {"active", "ack"} BY <1>4, LocalFacts DEF Advance
  <2> QED BY <1>1, <2>1, <2>2, MayCountShrinks
<1> QED BY <1>2, <1>3, <1>4

\* handleMessage counts an entry where it gives up the right to count it.
LEMMA HandleKeepsBudget ==
  ASSUME IInv, NEW w \in Workers, NEW i \in Slots, Handle(w, i)
  PROVE  BudgetStep
<1>0. TypeInv /\ Current(w, i)
  BY DEF IInv, Handle, DeadLetter, Store, Enqueue, CountDay, CountUser, Ack
<1>1. daily' \in [Slots -> Nat] /\ stream' \in [Slots -> Entry]
  BY <1>0, HandleKeepsType DEF WorkerType, TableType, StreamGrows
<1>2. \A j \in Slots : stream'[j].n = stream[j].n
  BY <1>0, StreamType DEF Entry, Handle, DeadLetter, Store, Enqueue, CountDay, CountUser, Ack, XAck
<1>3. \A j \in Slots : stream[j].n \in Nat BY <1>0, StreamType DEF Entry
<1>4. \A j \in Slots : MayCount(j)' \subseteq MayCount(j)
  BY <1>0, HandledShrinks DEF Handle, DeadLetter, Store, Enqueue, CountDay, CountUser, Ack
<1>5. CASE UNCHANGED daily BY <1>1, <1>2, <1>3, <1>4, <1>5 DEF BudgetStep
<1>6. CASE CountDay(w, i) /\ UpsertDailyCount(i)
  <2>1. daily'[i] = daily[i] + 1 /\ \A j \in Slots \ {i} : daily'[j] = daily[j]
    BY <1>0, <1>6, TableFacts DEF UpsertDailyCount
  <2>2. w \in MayCount(i) BY <1>0, <1>6 DEF CountDay, MayCount, Current
  <2>3. w \notin MayCount(i)'
    <3>1. Current(w, i)' /\ pc'[w] = "active" BY <1>0, <1>6, LocalFacts DEF CountDay, Advance, Current
    <3> QED BY <3>1 DEF MayCount
  <2>4. MayCount(i)' \subseteq MayCount(i) \ {w} BY <1>4, <2>3
  <2> QED BY <1>1, <1>2, <1>3, <1>4, <2>1, <2>2, <2>4 DEF BudgetStep
<1>7. UNCHANGED daily \/ (CountDay(w, i) /\ UpsertDailyCount(i))
  BY DEF Handle, DeadLetter, Store, Enqueue, CountDay, CountUser, Ack, tables
<1> QED BY <1>5, <1>6, <1>7

\* What a delivery does to the counters.
LEMMA DeliverCounts ==
  ASSUME TypeInv, NEW S, S = NextNew \/ S = NextIdle, Deliver(S)
  PROVE  \A i \in Slots : stream'[i].n = IF i \in S THEN stream[i].n + 1 ELSE stream[i].n
BY StreamType, DeliveredEntry DEF Deliver

\* Every step of the workers stays within the budget.
LEMMA WorkerKeepsBudget == ASSUME IInv, WorkerNext PROVE BudgetStep
<1>0. TypeInv /\ \A i \in Slots : stream[i].n \in Nat BY StreamType DEF IInv, Entry
<1>1. daily' \in [Slots -> Nat] /\ stream' \in [Slots -> Entry]
  BY <1>0, WorkerKeepsType DEF WorkerType, TableType, StreamGrows
<1>2. ASSUME UNCHANGED daily, \A i \in Slots : stream'[i].n >= stream[i].n,
             \A i \in Slots : MayCount(i)' \subseteq MayCount(i)
      PROVE  BudgetStep
  BY <1>1, <1>2 DEF BudgetStep
<1>3. \A i \in Slots : stream'[i].n >= stream[i].n \/ stream[i].st = "free"
  BY <1>0, WorkerKeepsType DEF WorkerType, StreamGrows
<1>4. ASSUME NEW w \in Workers, Read(w) \/ Reclaim(w) PROVE BudgetStep
  <2>1. PICK S : /\ S = NextNew \/ S = NextIdle
                 /\ Deliver(S) /\ batch' = [batch EXCEPT ![w] = S]
                 /\ \E to \in {"message", "claimed"} : pc' = [pc EXCEPT ![w] = to]
    BY <1>4 DEF Read, Reclaim, Take
  <2>2. batch[w] = {} /\ UNCHANGED daily
    BY <1>4 DEF IInv, LoopHoldsNothing, Read, Reclaim, tables
  <2>3. \A v \in Workers \ {w} : pc'[v] = pc[v] /\ batch'[v] = batch[v] BY <1>0, <2>1, LocalFacts
  <2>4. batch'[w] = S /\ pc'[w] \in {"message", "claimed"} BY <1>0, <2>1, LocalFacts
  <2>5. \A i \in Slots : stream'[i].n = IF i \in S THEN stream[i].n + 1 ELSE stream[i].n
    BY <1>0, <2>1, DeliverCounts
  <2>6. \A i \in Slots \ S : MayCount(i)' \subseteq MayCount(i)
    BY <2>3, <2>4, MayCountShrinks
  <2>7. \A i \in S : MayCount(i)' \subseteq MayCount(i) \cup {w}
    <3>1. \A i : \A v \in Workers \ {w} : Current(v, i)' <=> Current(v, i) BY <2>3 DEF Current
    <3> QED BY <2>3, <3>1 DEF MayCount
  <2> SUFFICES ASSUME NEW i \in Slots
               PROVE  \/ /\ MayCount(i)' \subseteq MayCount(i)
                         /\ daily'[i] = daily[i] /\ stream'[i].n >= stream[i].n
                      \/ \E v : /\ MayCount(i)' \subseteq MayCount(i) \cup {v}
                                /\ daily'[i] = daily[i] /\ stream'[i].n = stream[i].n + 1
    BY <1>1 DEF BudgetStep
  <2>8. CASE i \in S BY <2>2, <2>5, <2>7, <2>8
  <2>9. CASE i \notin S BY <1>0, <2>2, <2>5, <2>6, <2>9
  <2> QED BY <2>8, <2>9
<1>5. ASSUME NEW w \in Workers, LoseAnswer(w) PROVE BudgetStep
  <2>1. PICK S : (S = NextNew \/ S = NextIdle) /\ Deliver(S) BY <1>5 DEF LoseAnswer
  <2>2. \A i \in Slots : stream'[i].n >= stream[i].n BY <1>0, <2>1, DeliverCounts
  <2> QED BY <1>2, <1>5, <2>2, MayCountSame DEF LoseAnswer, tables, workerVars
<1>6. ASSUME NEW w \in Workers, ReadNothing(w) PROVE BudgetStep
  BY <1>0, <1>2, <1>6, MayCountSame DEF ReadNothing, tables, workerVars
<1>7. ASSUME NEW w \in Workers, CountDeliveries(w) \/ Exit(w) PROVE BudgetStep
  <2>1. /\ UNCHANGED <<stream, daily, batch>> /\ pc[w] \in {"claimed", "loop"}
        /\ \A v \in Workers \ {w} : pc'[v] = pc[v] /\ batch'[v] = batch[v]
    BY <1>0, <1>7, LocalFacts DEF CountDeliveries, Exit, tables
  <2>2. \A i \in Slots : MayCount(i)' \subseteq MayCount(i) BY <2>1, MayCountShrinks
  <2> QED BY <1>0, <1>2, <2>1, <2>2
<1>8. ASSUME NEW i \in Slots, Elapse(i) PROVE BudgetStep
  <2>1. \A j \in Slots : stream'[j].n = stream[j].n
    BY <1>0, <1>8, StreamType DEF Elapse, BecomeIdle, Entry
  <2> QED BY <1>0, <1>2, <1>8, <2>1, MayCountSame DEF Elapse, tables, workerVars
<1>9. ASSUME NEW p \in Procs, Sigterm(p) PROVE BudgetStep
  BY <1>0, <1>2, <1>9, MayCountSame DEF Sigterm, tables
<1>10. ASSUME NEW p \in Procs, Crash(p) \/ Restart(p) PROVE BudgetStep
  <2>1. UNCHANGED <<stream, daily>> BY <1>10 DEF Crash, Restart, tables
  <2>2. \A w \in Workers : batch'[w] = {} \/ (batch'[w] = batch[w] /\ pc'[w] = pc[w])
    BY <1>10 DEF Crash, Restart, Reset
  <2>3. \A i \in Slots : MayCount(i)' \subseteq MayCount(i) BY <2>2 DEF MayCount, Current
  <2> QED BY <1>0, <1>2, <2>1, <2>3
<1> QED BY <1>4, <1>5, <1>6, <1>7, <1>8, <1>9, <1>10, HandleKeepsBudget DEF WorkerNext, Step

\* An entry is delivered, and so counted, after it was appended.
LEMMA CInvStep == CInv /\ [Next]_vars => CInv'
<1> SUFFICES ASSUME CInv, [Next]_vars PROVE CInv' OBVIOUS
<1>0. IInv' /\ IInv /\ TypeInv BY IInvStep DEF CInv, IInv
<1>1. CASE IngestNext /\ UNCHANGED workerVars
  <2>1. IngestType BY <1>0, <1>1, IngestKeepsType
  <2>2. UNCHANGED daily /\ \A i \in Slots : MayCount(i)' = MayCount(i)
    BY <1>1, <2>1, MayCountSame DEF IngestType, workerVars
  <2>3. \A i \in Slots : stream[i].st = "free" => MayCount(i) = {} /\ daily[i] = 0
    BY <1>0 DEF CInv, FreeIsUncounted, MayCount, TypeInv, HeldIsDelivered
  <2>4. daily' \in [Slots -> Nat] /\ stream' \in [Slots -> Entry]
    BY <1>0, <2>1, TableFacts DEF IngestType, StreamGrows
  <2>5. \A i \in Slots : stream[i].n \in Nat BY <1>0, StreamType DEF Entry
  <2>6. BudgetStep BY <2>1, <2>2, <2>3, <2>4, <2>5 DEF BudgetStep, IngestType
  <2>7. FreeIsUncounted' BY <2>1, <2>2 DEF IngestType, CInv, FreeIsUncounted
  <2> QED BY <1>0, <2>6, <2>7, BudgetStays DEF CInv
<1>2. CASE WorkerNext /\ UNCHANGED ingestVars
  <2>1. BudgetStep BY <1>0, <1>2, WorkerKeepsBudget
  <2>2. CountBudget' BY <2>1, BudgetStays
  <2>3. FreeIsUncounted'
    <3> SUFFICES ASSUME NEW i \in Slots, stream'[i].st = "free" PROVE daily'[i] = 0
      BY DEF FreeIsUncounted
    <3>1. stream[i].st = "free" BY <1>0, <1>2, WorkerKeepsType DEF WorkerType, StreamGrows
    <3>2. daily[i] = 0 BY <3>1 DEF CInv, FreeIsUncounted
    <3>3. MayCount(i) = {} BY <1>0, <3>1 DEF MayCount, TypeInv, HeldIsDelivered
    <3> QED BY <2>1, <3>2, <3>3 DEF BudgetStep
  <2> QED BY <1>0, <2>2, <2>3 DEF CInv
<1>3. CASE UNCHANGED vars
  <2>1. UNCHANGED <<stream, daily, pc, batch>> BY <1>3 DEF vars, tables, workerVars
  <2>2. \A i \in Slots : MayCount(i)' = MayCount(i) BY <2>1, MayCountSame
  <2>3. CountBudget' BY <2>1, <2>2 DEF CInv, CountBudget
  <2> QED BY <1>0, <2>1, <2>3 DEF CInv, FreeIsUncounted
<1> QED BY <1>1, <1>2, <1>3 DEF Next

LEMMA InitCInv == Init => CInv
<1> SUFFICES ASSUME Init PROVE CInv OBVIOUS
<1>1. \A i \in Slots : MayCount(i) = {} BY DEF Init, WorkerInit, MayCount
<1>2. CountBudget BY <1>1, FS_EmptySet DEF Init, StreamInit, PostgresInit, CountBudget
<1>3. FreeIsUncounted BY DEF Init, PostgresInit, FreeIsUncounted
<1> QED BY <1>2, <1>3, InitIInv DEF CInv

\* worker.go 106-165: each delivery gives the right to count an entry once.
THEOREM CountInvariance == Spec => []CInv
BY InitCInv, CInvStep, PTL DEF Spec

\* worker.go 149, store.go 32-44: an entry adds to the daily count at most once
\* per delivery, although several goroutines may hold it at a time.
THEOREM CountedPerDelivery == Spec => []CountedAtMostOncePerDelivery
<1>1. CInv => CountedAtMostOncePerDelivery
  <2> SUFFICES ASSUME CInv, NEW i \in Slots PROVE daily[i] <= stream[i].n
    BY DEF CountedAtMostOncePerDelivery
  <2>1. MayCount(i) \in SUBSET Workers BY DEF MayCount
  <2>2. IsFiniteSet(MayCount(i)) BY <2>1, WorkerAssumption, FS_Subset
  <2>3. Cardinality(MayCount(i)) \in Nat BY <2>2, FS_CardinalityType
  <2>4. daily[i] \in Nat /\ stream[i].n \in Nat BY TableFacts, StreamType DEF CInv, IInv, Entry
  <2> QED BY <2>3, <2>4 DEF CInv, CountBudget
<1> QED BY <1>1, CountInvariance, PTL

-----------------------------------------------------------------------------
(***************************************************************************)
(* Exactly once, before the first fault.                                   *)
(***************************************************************************)

\* Nothing is stopped, reclaimed or left behind: what was delivered was
\* delivered once, to one goroutine, which holds it until it is acknowledged.
Undisturbed ==
  /\ \A p \in Procs : proc[p] = "up"
  /\ \A w \in Workers : pc[w] \notin {"claimed", "exited"}
  /\ \A w \in Workers, i \in Slots : seen[w][i] = 0
  /\ \A w, v \in Workers : w # v => batch[w] \cap batch[v] = {}
  /\ \A i \in Slots : /\ stream[i].st # "idle"
                      /\ stream[i].st = "pending" <=> Held(i)
                      /\ stream[i].st = "new" => stream[i].n = 0
                      /\ stream[i].st \in {"pending", "acked"} => stream[i].n = 1

\* The three calls after Store, for an entry and all of them.
Hooked(i) == stream[i].ev \in hooks
Counted(i) == daily[i] = 1
UserCounted(i) == User[stream[i].ev] \in active \cup {NoUser}

\* Where a goroutine is tells what it has done.
DoneInOrder ==
  \A i \in Slots : stream[i].ev \notin Malformed =>
    /\ dlq[i] = 0
    /\ stream[i].st = "acked" => Hooked(i) /\ Counted(i) /\ UserCounted(i)
    /\ \A w \in Workers : Current(w, i) =>
         /\ pc[w] \in {"count", "active", "ack"} => Hooked(i)
         /\ pc[w] \in {"active", "ack"} => Counted(i)
         /\ pc[w] = "ack" => UserCounted(i)

\* An entry that decodes was published by a handler that has passed it.
FromHandler ==
  \A i \in Slots : stream[i].st # "free" =>
    \/ stream[i].ev \in Malformed
    \/ \E q \in Requests : \E j \in DOMAIN Batch[q] :
         Batch[q][j] = stream[i].ev /\ j < req[q].next

OneEntryEach ==
  \A i, j \in Slots :
    /\ stream[i].st # "free" /\ stream[j].st # "free"
    /\ stream[i].ev = stream[j].ev /\ stream[i].ev \notin Malformed
    => i = j

EInv == /\ CInv /\ FromHandler
        /\ faults = 0 => Undisturbed /\ DoneInOrder /\ OneEntryEach

\* What the workers do to the entries: they add none and change no event.
LEMMA WorkerAddsNothing ==
  ASSUME TypeInv, WorkerNext
  PROVE  \A i \in Slots : stream'[i].st # "free" =>
           stream[i].st # "free" /\ stream'[i].ev = stream[i].ev
<1>0. StreamGrows BY WorkerKeepsType DEF WorkerType
<1> SUFFICES \A i \in Slots : stream[i].st = "free" => stream'[i].st = "free"
  BY <1>0 DEF StreamGrows
<1>1. ASSUME NEW S, S = NextNew \/ S = NextIdle, Deliver(S)
      PROVE  \A i \in Slots : stream[i].st = "free" => stream'[i].st = "free"
  <2>1. \A i \in S : stream[i].st \in {"new", "idle"}
    BY <1>1 DEF NextNew, NextIdle, First, With
  <2> QED BY <1>1, <2>1 DEF Deliver
<1>2. ASSUME NEW w \in Workers, Read(w) \/ Reclaim(w) \/ LoseAnswer(w)
      PROVE  \A i \in Slots : stream[i].st = "free" => stream'[i].st = "free"
  BY <1>1, <1>2 DEF Read, Reclaim, LoseAnswer, Take
<1>3. ASSUME NEW w \in Workers, NEW i \in Slots, Handle(w, i)
      PROVE  \A j \in Slots : stream[j].st = "free" => stream'[j].st = "free"
  <2>1. CASE UNCHANGED stream BY <2>1
  <2>2. CASE XAck(i) /\ i \in batch[w]
    <3>1. stream[i].st # "free" BY <2>2 DEF TypeInv, HeldIsDelivered
    <3> QED BY <2>2, <3>1, AckGrows
  <2> QED BY <1>3, <2>1, <2>2
          DEF Handle, DeadLetter, Store, Enqueue, CountDay, CountUser, Ack, Current
<1>4. ASSUME NEW i \in Slots, Elapse(i)
      PROVE  \A j \in Slots : stream[j].st = "free" => stream'[j].st = "free"
  BY <1>4, StreamType DEF Elapse, BecomeIdle
<1> QED BY <1>2, <1>3, <1>4
        DEF WorkerNext, Step, ReadNothing, CountDeliveries, Exit, Sigterm, Crash, Restart

\* What the handlers add: the event that is next in a request, or a malformed
\* one, and without a fault they add it once.
LEMMA IngestAdds ==
  ASSUME TypeInv, IngestNext
  PROVE  /\ \A q \in Requests : req[q].next \in Nat /\ req'[q].next \in Nat
                                /\ req'[q].next >= req[q].next
         /\ \/ UNCHANGED stream
            \/ \E e \in Malformed : XAdd(e)
            \/ \E q \in Requests : \E k \in DOMAIN Batch[q] :
                 /\ k = req[q].next /\ req'[q].next = k + 1
                 /\ XAdd(Batch[q][k]) \/ (XAddTwice(Batch[q][k]) /\ Fault)
<1>1. req \in [Requests -> RequestState] BY DEF TypeInv, TypeOK
<1>2. \A q \in Requests : req[q] \in RequestState /\ req[q].next \in Nat BY <1>1 DEF RequestState
<1>3. ASSUME NEW q \in Requests, NEW to, Goto(q, to)
      PROVE  \A r \in Requests : req'[r].next = req[r].next
  BY <1>1, <1>3 DEF Goto, RequestState
<1>4. ASSUME NEW q \in Requests, Decode(q) \/ DirectStore(q) \/ Broadcast(q) \/ Abort(q)
      PROVE  UNCHANGED stream /\ \A r \in Requests : req'[r].next = req[r].next
  BY <1>3, <1>4 DEF Decode, DirectStore, Broadcast, Abort
<1>5. ASSUME NEW q \in Requests, Publish(q)
      PROVE  /\ req'[q].next = req[q].next + 1 /\ req[q].next \in DOMAIN Batch[q]
             /\ \A r \in Requests \ {q} : req'[r] = req[r]
             /\ \/ UNCHANGED stream
                \/ XAdd(Batch[q][req[q].next])
                \/ XAddTwice(Batch[q][req[q].next]) /\ Fault
  <2>1. \E failed \in BOOLEAN : Published(q, failed) BY <1>5 DEF Publish
  <2>2. req'[q].next = req[q].next + 1 /\ \A r \in Requests \ {q} : req'[r] = req[r]
    BY <1>1, <2>1 DEF Published
  <2> QED BY <1>5, <2>2 DEF Publish, TypeInv, PublishPosition
<1>6. ASSUME NEW e \in Malformed, ForeignAdd(e) PROVE XAdd(e) /\ UNCHANGED req
  BY <1>6 DEF ForeignAdd, ingestVars
<1>7. CASE \E q \in Requests : Decode(q) \/ DirectStore(q) \/ Broadcast(q) \/ Abort(q)
  BY <1>2, <1>4, <1>7
<1>8. CASE \E q \in Requests : Publish(q)
  <2>1. PICK q \in Requests : Publish(q) BY <1>8
  <2> QED BY <1>2, <1>5, <2>1
<1>9. CASE \E e \in Malformed : ForeignAdd(e) BY <1>2, <1>6, <1>9
<1> QED BY <1>7, <1>8, <1>9 DEF IngestNext, HandleIngest

\* What XADD does to the slots.
LEMMA AddedSlots ==
  ASSUME TypeInv, NEW e \in Events, XAdd(e) \/ XAddTwice(e)
  PROVE  \A i \in Slots : \/ stream'[i] = stream[i]
                          \/ stream[i].st = "free" /\ stream'[i] = NewEntry(e)
BY StreamType DEF XAdd, XAddTwice, End

LEMMA AddedSlot ==
  ASSUME TypeInv, NEW e \in Events, XAdd(e)
  PROVE  \E k \in Slots : /\ stream[k].st = "free" /\ stream'[k] = NewEntry(e)
                          /\ \A i \in Slots \ {k} : stream'[i] = stream[i]
BY StreamType DEF XAdd, End

\* Entries come from the handlers.
LEMMA FromHandlerStep ==
  ASSUME TypeInv, FromHandler, \/ IngestNext
                               \/ WorkerNext /\ UNCHANGED ingestVars
  PROVE  FromHandler'
<1> DEFINE Passed(e, r) == \E q \in Requests : \E j \in DOMAIN Batch[q] :
                             Batch[q][j] = e /\ j < r[q].next
<1>1. \A q \in Requests : DOMAIN Batch[q] \subseteq Nat BY IngestAssumption
<1>2. CASE WorkerNext /\ UNCHANGED ingestVars
  BY <1>2, WorkerAddsNothing DEF FromHandler, ingestVars
<1>3. CASE IngestNext
  <2>0. \A q \in Requests : req[q].next \in Nat /\ req'[q].next \in Nat
                            /\ req'[q].next >= req[q].next
    BY <1>3, IngestAdds
  <2>1. \A e : Passed(e, req) => Passed(e, req') BY <1>1, <2>0
  <2>2. \A i \in Slots : stream[i].st # "free" => stream[i].ev \in Malformed \/ Passed(stream[i].ev, req)
    BY DEF FromHandler
  <2> SUFFICES ASSUME NEW i \in Slots, stream'[i].st # "free"
               PROVE  stream'[i].ev \in Malformed \/ Passed(stream'[i].ev, req')
    BY DEF FromHandler
  <2>3. CASE stream'[i] = stream[i] BY <2>1, <2>2, <2>3
  <2>4. ASSUME NEW e \in Events, XAdd(e) \/ XAddTwice(e), stream'[i] # stream[i]
        PROVE  stream'[i].ev = e
    <3>1. stream'[i] = NewEntry(e) BY <2>4, AddedSlots
    <3> QED BY <3>1 DEF NewEntry
  <2>5. ASSUME NEW e \in Malformed, XAdd(e), stream'[i] # stream[i] PROVE stream'[i].ev \in Malformed
    <3>1. e \in Events BY StreamAssumption
    <3> QED BY <2>4, <2>5, <3>1
  <2>6. ASSUME NEW q \in Requests, NEW k \in DOMAIN Batch[q], req'[q].next = k + 1,
               XAdd(Batch[q][k]) \/ XAddTwice(Batch[q][k]), stream'[i] # stream[i]
        PROVE  Passed(stream'[i].ev, req')
    <3>1. Batch[q][k] \in Events /\ k \in Nat BY IngestAssumption
    <3>2. PICK e \in Events : e = Batch[q][k] BY <3>1
    <3>3. stream'[i].ev = e BY <2>4, <2>6, <3>2
    <3> QED BY <2>6, <3>1, <3>2, <3>3
  <2> HIDE DEF Passed
  <2> QED BY <1>3, <2>3, <2>5, <2>6, IngestAdds
<1> QED BY <1>2, <1>3

\* The steps of a worker process before the first fault: it reads new entries,
\* or it goes on with the entry it is handling and every call succeeds.
QuietHandle(w, i) ==
  /\ Current(w, i) /\ UNCHANGED proc
  /\ \/ /\ pc[w] = "message" /\ stream[i].ev \in Malformed /\ Advance(w, "ack")
        /\ InsertDeadLetter(i) /\ UNCHANGED <<stream, daily, active, hooks>>
     \/ /\ pc[w] = "message" /\ stream[i].ev \notin Malformed /\ Advance(w, "enqueue")
        /\ UNCHANGED <<stream, daily, active, hooks, dlq>>
     \/ /\ pc[w] = "enqueue" /\ Advance(w, "count")
        /\ EnqueueDeliveries(stream[i].ev) /\ UNCHANGED <<stream, daily, active, dlq>>
     \/ /\ pc[w] = "count" /\ Advance(w, "active")
        /\ UpsertDailyCount(i) /\ UNCHANGED <<stream, active, hooks, dlq>>
     \/ /\ pc[w] = "active" /\ Advance(w, "ack")
        /\ UpsertDailyActiveUser(stream[i].ev) /\ UNCHANGED <<stream, daily, hooks, dlq>>
     \/ /\ pc[w] = "ack" /\ Finish(w, i)
        /\ XAck(i) /\ UNCHANGED <<daily, active, hooks, dlq>>

LEMMA QuietHandles ==
  ASSUME TypeInv, Undisturbed, NoFault, NEW w \in Workers, NEW i \in Slots, Handle(w, i)
  PROVE  QuietHandle(w, i)
<1>1. ~Fault BY DEF TypeInv, TypeOK, Fault, NoFault
<1>2. ~Fails(w) BY <1>1, WorkerAssumption DEF Undisturbed, Fails
<1>3. GivesUp(w, i) <=> stream[i].ev \in Malformed
  BY WorkerAssumption DEF Undisturbed, GivesUp
<1>4. CASE DeadLetter(w, i) BY <1>1, <1>2, <1>3, <1>4 DEF DeadLetter, QuietHandle
<1>5. CASE Store(w, i) BY <1>1, <1>2, <1>3, <1>5 DEF Store, QuietHandle
<1>6. CASE Enqueue(w, i) BY <1>2, <1>6 DEF Enqueue, QuietHandle
<1>7. CASE CountDay(w, i) BY <1>2, <1>7 DEF CountDay, QuietHandle
<1>8. CASE CountUser(w, i) BY <1>2, <1>8 DEF CountUser, QuietHandle
<1>9. CASE Ack(w, i) BY <1>2, <1>9 DEF Ack, QuietHandle, tables
<1> QED BY <1>4, <1>5, <1>6, <1>7, <1>8, <1>9 DEF Handle

LEMMA QuietWorker ==
  ASSUME TypeInv, Undisturbed, NoFault, WorkerNext
  PROVE  \/ UNCHANGED <<stream, tables, workerVars>>
         \/ \E w \in Workers : Read(w)
         \/ \E w \in Workers, i \in Slots : QuietHandle(w, i)
<1>1. ~Fault BY DEF TypeInv, TypeOK, Fault, NoFault
<1>2. With({"idle"}) = {} BY DEF Undisturbed, With
<1>3. NextIdle = {} BY <1>2 DEF NextIdle, First
<1>4. ASSUME NEW w \in Workers, Step(w)
      PROVE  \/ UNCHANGED <<stream, tables, workerVars>> \/ Read(w)
             \/ \E i \in Slots : QuietHandle(w, i)
  <2>1. proc[Process[w]] = "up" /\ pc[w] # "claimed" BY WorkerAssumption DEF Undisturbed
  <2>2. ~Reclaim(w) /\ ~LoseAnswer(w) /\ ~CountDeliveries(w) /\ ~Exit(w)
    BY <1>1, <1>3, <2>1 DEF Reclaim, LoseAnswer, CountDeliveries, Exit
  <2> QED BY <1>4, <2>2, QuietHandles DEF Step, ReadNothing
<1>5. ASSUME NEW i \in Slots PROVE ~Elapse(i)
  BY <1>1 DEF Elapse, BecomeIdle, Undisturbed
<1>6. ASSUME NEW p \in Procs PROVE ~Sigterm(p) /\ ~Crash(p) /\ ~Restart(p)
  BY <1>1 DEF Sigterm, Crash, Restart, Undisturbed
<1> QED BY <1>4, <1>5, <1>6 DEF WorkerNext

\* A goroutine handles one entry at a time.
LEMMA OneCurrent ==
  ASSUME TypeInv, NEW w \in Workers, NEW i \in Slots, NEW j \in Slots, Current(w, i), Current(w, j)
  PROVE  i = j
BY DEF Current, Slots

\* Going on within handleMessage disturbs nothing, and the next place tells the
\* truth if the call before it did what it should.
LEMMA AdvanceKeepsOrder ==
  ASSUME TypeInv, Undisturbed, DoneInOrder, NEW w \in Workers, NEW i \in Slots,
         Current(w, i), NEW to, to \in {"enqueue", "count", "active", "ack"},
         Advance(w, to), UNCHANGED <<stream, proc>>,
         \A j \in Slots : stream[j].ev \notin Malformed => dlq'[j] = dlq[j],
         \A j \in Slots : (Hooked(j) => Hooked(j)') /\ (UserCounted(j) => UserCounted(j)'),
         \A j \in Slots \ {i} : daily'[j] = daily[j],
         stream[i].ev \notin Malformed =>
           /\ to \in {"count", "active", "ack"} => Hooked(i)'
           /\ to \in {"active", "ack"} => Counted(i)'
           /\ to = "ack" => UserCounted(i)'
  PROVE  Undisturbed' /\ DoneInOrder'
<1>1. /\ pc'[w] = to /\ \A v \in Workers \ {w} : pc'[v] = pc[v]
      /\ UNCHANGED <<batch, seen>>
  BY LocalFacts DEF Advance
<1>2. \A v \in Workers, j \in Slots : Current(v, j)' <=> Current(v, j) BY <1>1 DEF Current
<1>3. \A j \in Slots : Held(j)' <=> Held(j) BY <1>1 DEF Held
<1>4. Undisturbed' BY <1>1, <1>3 DEF Undisturbed
<1> SUFFICES ASSUME NEW j \in Slots, stream[j].ev \notin Malformed
             PROVE  /\ dlq'[j] = 0
                    /\ stream[j].st = "acked" => Hooked(j)' /\ Counted(j)' /\ UserCounted(j)'
                    /\ \A v \in Workers : Current(v, j)' =>
                         /\ pc'[v] \in {"count", "active", "ack"} => Hooked(j)'
                         /\ pc'[v] \in {"active", "ack"} => Counted(j)'
                         /\ pc'[v] = "ack" => UserCounted(j)'
  BY <1>4 DEF DoneInOrder
<1>5. dlq'[j] = 0 BY DEF DoneInOrder
<1>6. stream[i].st = "pending" BY DEF Undisturbed, Current, Held
<1>7. j # i => (Counted(j) <=> Counted(j)') BY DEF Counted
<1>8. stream[j].st = "acked" => Hooked(j)' /\ Counted(j)' /\ UserCounted(j)'
  BY <1>6, <1>7 DEF DoneInOrder
<1> SUFFICES ASSUME NEW v \in Workers, Current(v, j)
             PROVE  /\ pc'[v] \in {"count", "active", "ack"} => Hooked(j)'
                    /\ pc'[v] \in {"active", "ack"} => Counted(j)'
                    /\ pc'[v] = "ack" => UserCounted(j)'
  BY <1>2, <1>5, <1>8
<1>9. CASE v = w BY <1>1, <1>9, OneCurrent
<1>10. CASE v # w
  <2>1. j # i BY <1>10 DEF Undisturbed, Current
  <2> QED BY <1>1, <1>7, <1>10, <2>1 DEF DoneInOrder
<1> QED BY <1>9, <1>10

\* So does the acknowledgement, which takes the entry from its only holder.
LEMMA AckKeepsOrder ==
  ASSUME TypeInv, Undisturbed, DoneInOrder, NEW w \in Workers, NEW i \in Slots,
         Current(w, i), pc[w] = "ack", Finish(w, i), XAck(i),
         UNCHANGED <<daily, active, hooks, dlq, proc>>
  PROVE  Undisturbed' /\ DoneInOrder'
<1>1. /\ batch'[w] = batch[w] \ {i} /\ \A v \in Workers \ {w} : batch'[v] = batch[v]
      /\ pc'[w] \in {"loop", "message"} /\ \A v \in Workers \ {w} : pc'[v] = pc[v]
  BY LocalFacts DEF Finish
<1>2. \A v \in Workers, j \in Slots : seen'[v][j] = 0
  BY LocalFacts DEF Finish, Undisturbed
<1>3. /\ stream'[i].st = "acked" /\ stream'[i].n = stream[i].n /\ stream'[i].ev = stream[i].ev
      /\ \A j \in Slots \ {i} : stream'[j] = stream[j]
  BY StreamType DEF XAck, Entry
<1>4. \A j \in Slots \ {i} : Held(j)' <=> Held(j) BY <1>1 DEF Held
<1>5. ~Held(i)' BY <1>1 DEF Held, Undisturbed, Current
<1>6. stream[i].st = "pending" BY DEF Undisturbed, Current, Held
<1>7. Undisturbed'
  <2>1. \A u, v \in Workers : u # v => batch'[u] \cap batch'[v] = {} BY <1>1 DEF Undisturbed
  <2>2. \A j \in Slots : /\ stream'[j].st # "idle"
                         /\ stream'[j].st = "pending" <=> Held(j)'
                         /\ stream'[j].st = "new" => stream'[j].n = 0
                         /\ stream'[j].st \in {"pending", "acked"} => stream'[j].n = 1
    BY <1>3, <1>4, <1>5, <1>6 DEF Undisturbed
  <2>3. \A v \in Workers : pc'[v] \notin {"claimed", "exited"} BY <1>1 DEF Undisturbed
  <2> QED BY <1>2, <2>1, <2>2, <2>3 DEF Undisturbed
<1>8. \A j \in Slots : stream'[j].ev = stream[j].ev BY <1>3
<1>9. \A j \in Slots : (Hooked(j)' <=> Hooked(j)) /\ (Counted(j)' <=> Counted(j))
                       /\ (UserCounted(j)' <=> UserCounted(j))
  BY <1>8 DEF Hooked, Counted, UserCounted
<1>10. \A j \in Slots : \A v \in Workers \ {w} : Current(v, j)' <=> Current(v, j)
  BY <1>1 DEF Current
<1>11. DoneInOrder'
  <2> SUFFICES ASSUME NEW j \in Slots, stream[j].ev \notin Malformed
               PROVE  /\ dlq[j] = 0
                      /\ stream'[j].st = "acked" => Hooked(j) /\ Counted(j) /\ UserCounted(j)
                      /\ \A v \in Workers : Current(v, j)' =>
                           /\ pc'[v] \in {"count", "active", "ack"} => Hooked(j)
                           /\ pc'[v] \in {"active", "ack"} => Counted(j)
                           /\ pc'[v] = "ack" => UserCounted(j)
    BY <1>8, <1>9 DEF DoneInOrder
  <2>1. stream'[j].st = "acked" => Hooked(j) /\ Counted(j) /\ UserCounted(j)
    BY <1>3 DEF DoneInOrder
  <2>2. ASSUME NEW v \in Workers, Current(v, j)'
        PROVE  /\ pc'[v] \in {"count", "active", "ack"} => Hooked(j)
               /\ pc'[v] \in {"active", "ack"} => Counted(j)
               /\ pc'[v] = "ack" => UserCounted(j)
    BY <1>1, <1>10, <2>2 DEF DoneInOrder
  <2> QED BY <2>1, <2>2 DEF DoneInOrder
<1> QED BY <1>7, <1>11

\* Every call of handleMessage keeps the order.
LEMMA HandleKeepsOrder ==
  ASSUME CInv, Undisturbed, DoneInOrder, NEW w \in Workers, NEW i \in Slots, QuietHandle(w, i)
  PROVE  Undisturbed' /\ DoneInOrder'
<1>0. TypeInv /\ Current(w, i) /\ UNCHANGED proc BY DEF CInv, IInv, QuietHandle
<1>1. stream[i].ev \notin Malformed =>
        /\ pc[w] \in {"count", "active", "ack"} => Hooked(i)
        /\ pc[w] \in {"active", "ack"} => Counted(i)
        /\ pc[w] = "ack" => UserCounted(i)
  BY <1>0 DEF DoneInOrder
<1>2. CASE /\ pc[w] = "message" /\ stream[i].ev \in Malformed /\ Advance(w, "ack")
           /\ InsertDeadLetter(i) /\ UNCHANGED <<stream, daily, active, hooks>>
  <2>1. \A j \in Slots : stream[j].ev \notin Malformed => dlq'[j] = dlq[j]
    BY <1>0, <1>2, TableFacts DEF InsertDeadLetter
  <2>2. \A j \in Slots : (Hooked(j) => Hooked(j)') /\ (UserCounted(j) => UserCounted(j)')
    BY <1>2 DEF Hooked, UserCounted
  <2> QED BY <1>0, <1>2, <2>1, <2>2, AdvanceKeepsOrder
<1>3. CASE /\ pc[w] = "message" /\ stream[i].ev \notin Malformed /\ Advance(w, "enqueue")
           /\ UNCHANGED <<stream, daily, active, hooks, dlq>>
  <2>1. \A j \in Slots : (Hooked(j) => Hooked(j)') /\ (UserCounted(j) => UserCounted(j)')
    BY <1>3 DEF Hooked, UserCounted
  <2> QED BY <1>0, <1>3, <2>1, AdvanceKeepsOrder
<1>4. CASE /\ pc[w] = "enqueue" /\ Advance(w, "count")
           /\ EnqueueDeliveries(stream[i].ev) /\ UNCHANGED <<stream, daily, active, dlq>>
  <2>1. \A j \in Slots : (Hooked(j) => Hooked(j)') /\ (UserCounted(j) => UserCounted(j)')
    BY <1>4 DEF Hooked, UserCounted, EnqueueDeliveries
  <2>2. Hooked(i)' BY <1>4 DEF Hooked, EnqueueDeliveries
  <2> QED BY <1>0, <1>4, <2>1, <2>2, AdvanceKeepsOrder
<1>5. CASE /\ pc[w] = "count" /\ Advance(w, "active")
           /\ UpsertDailyCount(i) /\ UNCHANGED <<stream, active, hooks, dlq>>
  <2>1. \A j \in Slots : (Hooked(j) => Hooked(j)') /\ (UserCounted(j) => UserCounted(j)')
    BY <1>5 DEF Hooked, UserCounted
  <2>2. w \in MayCount(i) BY <1>0, <1>5 DEF MayCount, Current
  <2>3. MayCount(i) \in SUBSET Workers BY DEF MayCount
  <2>4. IsFiniteSet(MayCount(i)) BY <2>3, WorkerAssumption, FS_Subset
  <2>5. Cardinality(MayCount(i)) \in Nat /\ Cardinality(MayCount(i)) # 0
    BY <2>2, <2>4, FS_CardinalityType, FS_EmptySet
  <2>6. stream[i].n = 1 BY <1>0 DEF Undisturbed, Current, Held
  <2>7. daily[i] = 0 BY <1>0, <2>5, <2>6, TableFacts DEF CInv, CountBudget
  <2>8. daily'[i] = 1 /\ \A j \in Slots \ {i} : daily'[j] = daily[j]
    BY <1>0, <1>5, <2>7, TableFacts DEF UpsertDailyCount
  <2>9. Counted(i)' BY <2>8 DEF Counted
  <2> QED BY <1>0, <1>1, <1>5, <2>1, <2>8, <2>9, AdvanceKeepsOrder
<1>6. CASE /\ pc[w] = "active" /\ Advance(w, "ack")
           /\ UpsertDailyActiveUser(stream[i].ev) /\ UNCHANGED <<stream, daily, hooks, dlq>>
  <2>1. \A j \in Slots : (Hooked(j) => Hooked(j)') /\ (UserCounted(j) => UserCounted(j)')
    BY <1>6 DEF Hooked, UserCounted, UpsertDailyActiveUser
  <2>2. UserCounted(i)' BY <1>6 DEF UserCounted, UpsertDailyActiveUser
  <2>3. Hooked(i)' <=> Hooked(i) BY <1>6 DEF Hooked
  <2>4. Counted(i)' <=> Counted(i) BY <1>6 DEF Counted
  <2> QED BY <1>0, <1>1, <1>6, <2>1, <2>2, <2>3, <2>4, AdvanceKeepsOrder
<1>7. CASE /\ pc[w] = "ack" /\ Finish(w, i)
           /\ XAck(i) /\ UNCHANGED <<daily, active, hooks, dlq>>
  BY <1>0, <1>7, AckKeepsOrder
<1> QED BY <1>2, <1>3, <1>4, <1>5, <1>6, <1>7 DEF QuietHandle

\* XREADGROUP gives new entries, which nobody holds, to one goroutine.
LEMMA ReadKeepsOrder ==
  ASSUME IInv, Undisturbed, DoneInOrder, NEW w \in Workers, Read(w)
  PROVE  Undisturbed' /\ DoneInOrder'
<1>0. TypeInv /\ UNCHANGED <<seen, proc, tables>> BY DEF IInv, Read
<1>1. PICK S : S = NextNew /\ Deliver(S) /\ batch' = [batch EXCEPT ![w] = S]
               /\ pc' = [pc EXCEPT ![w] = "message"]
  BY DEF Read, Take
<1>2. /\ batch'[w] = S /\ \A v \in Workers \ {w} : batch'[v] = batch[v]
      /\ pc'[w] = "message" /\ \A v \in Workers \ {w} : pc'[v] = pc[v]
      /\ batch[w] = {}
  BY <1>0, <1>1, LocalFacts DEF Read, IInv, LoopHoldsNothing
<1>3. \A j \in S : j \in Slots /\ stream[j].st = "new"
  BY <1>1 DEF NextNew, First, With
<1>4. \A j \in Slots : j \notin S => stream'[j] = stream[j] BY <1>1 DEF Deliver
<1>5. \A j \in S : stream'[j].st = "pending" /\ stream'[j].n = stream[j].n + 1
                   /\ stream'[j].ev = stream[j].ev
  <2> SUFFICES ASSUME NEW j \in S
               PROVE  stream'[j].st = "pending" /\ stream'[j].n = stream[j].n + 1
                      /\ stream'[j].ev = stream[j].ev
    OBVIOUS
  <2>1. stream'[j] = Delivered(stream[j]) /\ stream[j] \in Entry
    BY <1>0, <1>1, <1>3, StreamType DEF Deliver
  <2> QED BY <2>1, DeliveredEntry
<1>6. \A j \in S : ~Held(j) /\ stream[j].n = 0 BY <1>3 DEF Undisturbed
<1>7. \A j \in S : Held(j)' BY <1>2 DEF Held
<1>8. \A j \in Slots \ S : Held(j)' <=> Held(j) BY <1>2 DEF Held
<1>9. Undisturbed'
  <2>1. \A u, v \in Workers : u # v => batch'[u] \cap batch'[v] = {}
    BY <1>2, <1>6 DEF Undisturbed, Held
  <2>2. \A j \in Slots : /\ stream'[j].st # "idle"
                         /\ stream'[j].st = "pending" <=> Held(j)'
                         /\ stream'[j].st = "new" => stream'[j].n = 0
                         /\ stream'[j].st \in {"pending", "acked"} => stream'[j].n = 1
    BY <1>4, <1>5, <1>6, <1>7, <1>8 DEF Undisturbed
  <2>3. \A v \in Workers : pc'[v] \notin {"claimed", "exited"} BY <1>2 DEF Undisturbed
  <2> QED BY <1>0, <2>1, <2>2, <2>3 DEF Undisturbed
<1>10. \A j \in Slots : stream'[j].ev = stream[j].ev BY <1>4, <1>5
<1>11. \A j \in Slots : (Hooked(j)' <=> Hooked(j)) /\ (Counted(j)' <=> Counted(j))
                        /\ (UserCounted(j)' <=> UserCounted(j)) /\ dlq'[j] = dlq[j]
  BY <1>0, <1>10 DEF Hooked, Counted, UserCounted, tables
<1>12. \A j \in Slots : stream'[j].st = "acked" => stream[j].st = "acked" BY <1>4, <1>5
<1>13. \A j \in Slots : \A v \in Workers \ {w} : Current(v, j)' <=> Current(v, j)
  BY <1>2 DEF Current
<1>14. \A j \in Slots, v \in Workers : Current(v, j)' =>
         pc'[v] = "message" \/ (Current(v, j) /\ pc'[v] = pc[v])
  BY <1>2, <1>13
<1> QED BY <1>9, <1>10, <1>11, <1>12, <1>14 DEF DoneInOrder

\* XADD fills a slot that nobody has touched.
LEMMA AddKeepsOrder ==
  ASSUME IInv, Undisturbed, DoneInOrder, NEW e \in Events, XAdd(e),
         UNCHANGED <<daily, active, hooks, dlq, workerVars>>
  PROVE  Undisturbed' /\ DoneInOrder'
<1>0. TypeInv BY DEF IInv
<1>1. PICK k \in Slots : /\ stream[k].st = "free" /\ stream'[k] = NewEntry(e)
                         /\ \A j \in Slots \ {k} : stream'[j] = stream[j]
  BY <1>0, AddedSlot
<1>2. stream'[k].st = "new" /\ stream'[k].n = 0 BY <1>1 DEF NewEntry
<1>3. ~Held(k) BY <1>0, <1>1 DEF Held, TypeInv, HeldIsDelivered
<1>4. dlq[k] = 0 BY <1>0, <1>1, TableFacts DEF IInv, DeadLetteredIsUsed
<1>5. \A v \in Workers, j \in Slots : Current(v, j)' <=> Current(v, j) BY DEF Current, workerVars
<1>6. \A j \in Slots : Held(j)' <=> Held(j) BY DEF Held, workerVars
<1>7. Undisturbed'
  <2>1. \A j \in Slots : /\ stream'[j].st # "idle"
                         /\ stream'[j].st = "pending" <=> Held(j)'
                         /\ stream'[j].st = "new" => stream'[j].n = 0
                         /\ stream'[j].st \in {"pending", "acked"} => stream'[j].n = 1
    BY <1>1, <1>2, <1>3, <1>6 DEF Undisturbed
  <2> QED BY <2>1 DEF Undisturbed, workerVars
<1>8. \A v \in Workers : ~Current(v, k) BY <1>3 DEF Current, Held
<1>9. \A j \in Slots \ {k} : (Hooked(j)' <=> Hooked(j)) /\ (Counted(j)' <=> Counted(j))
                             /\ (UserCounted(j)' <=> UserCounted(j))
  BY <1>1 DEF Hooked, Counted, UserCounted
<1>10. DoneInOrder'
  <2> SUFFICES ASSUME NEW j \in Slots, stream'[j].ev \notin Malformed
               PROVE  /\ dlq[j] = 0
                      /\ stream'[j].st = "acked" => Hooked(j)' /\ Counted(j)' /\ UserCounted(j)'
                      /\ \A v \in Workers : Current(v, j) =>
                           /\ pc[v] \in {"count", "active", "ack"} => Hooked(j)'
                           /\ pc[v] \in {"active", "ack"} => Counted(j)'
                           /\ pc[v] = "ack" => UserCounted(j)'
    BY <1>5 DEF DoneInOrder, workerVars
  <2>1. CASE j = k BY <1>2, <1>4, <1>8, <2>1
  <2>2. CASE j # k BY <1>1, <1>9, <2>2 DEF DoneInOrder
  <2> QED BY <2>1, <2>2
<1> QED BY <1>7, <1>10

\* A step that leaves the entries, the goroutines and the counts alone.
LEMMA NothingKeepsOrder ==
  ASSUME Undisturbed, DoneInOrder, UNCHANGED <<stream, daily, active, hooks, dlq, workerVars>>
  PROVE  Undisturbed' /\ DoneInOrder'
<1>1. Undisturbed' BY DEF Undisturbed, Held, workerVars
<1>2. DoneInOrder' BY DEF DoneInOrder, Hooked, Counted, UserCounted, Current, workerVars
<1> QED BY <1>1, <1>2

\* No handler publishes an event a second time: it has its own uuid, and the
\* handler has passed it.
LEMMA AddKeepsOneEntry ==
  ASSUME TypeInv, FromHandler, OneEntryEach, NEW e \in Events, XAdd(e),
         \/ e \in Malformed
         \/ \E q \in Requests : \E k \in DOMAIN Batch[q] : k = req[q].next /\ e = Batch[q][k]
  PROVE  OneEntryEach'
<1>1. PICK k \in Slots : /\ stream[k].st = "free" /\ stream'[k] = NewEntry(e)
                         /\ \A j \in Slots \ {k} : stream'[j] = stream[j]
  BY AddedSlot
<1>2. stream'[k].ev = e BY <1>1 DEF NewEntry
<1>3. \A j \in Slots : stream[j].st # "free" /\ stream[j].ev = e => e \in Malformed
  <2> SUFFICES ASSUME NEW j \in Slots, stream[j].st # "free", stream[j].ev = e, e \notin Malformed
               PROVE  FALSE
    OBVIOUS
  <2>1. PICK q \in Requests : \E m \in DOMAIN Batch[q] : Batch[q][m] = e /\ m < req[q].next
    BY DEF FromHandler
  <2>2. PICK m \in DOMAIN Batch[q] : Batch[q][m] = e /\ m < req[q].next BY <2>1
  <2>3. PICK r \in Requests : \E n \in DOMAIN Batch[r] : n = req[r].next /\ e = Batch[r][n]
    OBVIOUS
  <2>4. PICK n \in DOMAIN Batch[r] : n = req[r].next /\ e = Batch[r][n] BY <2>3
  <2>5. q = r /\ m = n BY <2>2, <2>4, IngestAssumption
  <2>6. m \in Nat BY <2>2, IngestAssumption
  <2> QED BY <2>2, <2>4, <2>5, <2>6
<1> SUFFICES ASSUME NEW i \in Slots, NEW j \in Slots, stream'[i].st # "free", stream'[j].st # "free",
                    stream'[i].ev = stream'[j].ev, stream'[i].ev \notin Malformed
             PROVE  i = j
  BY DEF OneEntryEach
<1>4. CASE i # k /\ j # k BY <1>1, <1>4 DEF OneEntryEach
<1>5. CASE i = k /\ j # k BY <1>1, <1>2, <1>3, <1>5
<1>6. CASE i # k /\ j = k BY <1>1, <1>2, <1>3, <1>6
<1> QED BY <1>4, <1>5, <1>6

\* The steps before the first fault.
LEMMA QuietStep ==
  ASSUME CInv, FromHandler, Undisturbed, DoneInOrder, OneEntryEach, NoFault, Next
  PROVE  Undisturbed' /\ DoneInOrder' /\ OneEntryEach'
<1>0. IInv /\ TypeInv /\ ~Fault BY DEF CInv, IInv, TypeInv, TypeOK, Fault, NoFault
<1>1. CASE IngestNext /\ UNCHANGED workerVars
  <2>1. UNCHANGED <<daily, active, hooks, dlq>> BY <1>0, <1>1, IngestKeepsType DEF IngestType
  <2>2. CASE UNCHANGED stream
    BY <1>1, <2>1, <2>2, NothingKeepsOrder DEF OneEntryEach
  <2>3. ASSUME NEW e \in Events, XAdd(e),
               \/ e \in Malformed
               \/ \E q \in Requests : \E k \in DOMAIN Batch[q] : k = req[q].next /\ e = Batch[q][k]
        PROVE  Undisturbed' /\ DoneInOrder' /\ OneEntryEach'
    BY <1>0, <1>1, <2>1, <2>3, AddKeepsOrder, AddKeepsOneEntry
  <2>4. ASSUME NEW e \in Malformed, XAdd(e) PROVE Undisturbed' /\ DoneInOrder' /\ OneEntryEach'
    <3>1. e \in Events BY StreamAssumption
    <3> QED BY <2>3, <2>4, <3>1
  <2>5. ASSUME NEW q \in Requests, NEW k \in DOMAIN Batch[q], k = req[q].next, XAdd(Batch[q][k])
        PROVE  Undisturbed' /\ DoneInOrder' /\ OneEntryEach'
    <3>1. PICK e \in Events : e = Batch[q][k] BY IngestAssumption
    <3> QED BY <2>3, <2>5, <3>1
  <2> QED BY <1>0, <1>1, <2>2, <2>4, <2>5, IngestAdds
<1>2. CASE WorkerNext /\ UNCHANGED ingestVars
  <2>1. OneEntryEach' BY <1>0, <1>2, WorkerAddsNothing DEF OneEntryEach
  <2>2. Undisturbed' /\ DoneInOrder'
    BY <1>0, <1>2, QuietWorker, NothingKeepsOrder, ReadKeepsOrder, HandleKeepsOrder DEF tables
  <2> QED BY <2>1, <2>2
<1> QED BY <1>1, <1>2 DEF Next

LEMMA EInvStep == EInv /\ [Next]_vars => EInv'
<1> SUFFICES ASSUME EInv, [Next]_vars PROVE EInv' OBVIOUS
<1>0. CInv /\ CInv' /\ IInv /\ TypeInv BY CInvStep DEF EInv, CInv, IInv
<1>1. CASE UNCHANGED vars
  <2>1. UNCHANGED <<stream, daily, active, hooks, dlq, workerVars, req, faults>>
    BY <1>1 DEF vars, tables, ingestVars
  <2>2. FromHandler' BY <2>1 DEF EInv, FromHandler
  <2>3. OneEntryEach => OneEntryEach' BY <2>1 DEF OneEntryEach
  <2> QED BY <1>0, <2>1, <2>2, <2>3, NothingKeepsOrder DEF EInv
<1>2. CASE Next
  <2>1. FromHandler' BY <1>0, <1>2, FromHandlerStep DEF EInv, Next
  <2>2. Fault \/ NoFault BY <1>0, <1>2, StepFaults DEF Next
  <2>3. CASE Fault
    <3>1. faults' # 0 BY <1>0, <2>3 DEF Fault, TypeInv, TypeOK
    <3> QED BY <1>0, <2>1, <3>1 DEF EInv
  <2>4. CASE NoFault /\ faults = 0
    <3>1. Undisturbed' /\ DoneInOrder' /\ OneEntryEach' BY <1>2, <2>4, QuietStep DEF EInv
    <3> QED BY <1>0, <2>1, <3>1 DEF EInv
  <2>5. CASE NoFault /\ faults # 0 BY <1>0, <2>1, <2>5 DEF EInv, NoFault
  <2> QED BY <2>2, <2>3, <2>4, <2>5
<1> QED BY <1>1, <1>2

LEMMA InitEInv == Init => EInv
<1> SUFFICES ASSUME Init PROVE EInv OBVIOUS
<1> USE DEF Init, StreamInit, PostgresInit, WorkerInit, NoCounts
<1>1. FromHandler /\ OneEntryEach BY DEF FromHandler, OneEntryEach
<1>2. Undisturbed BY DEF Undisturbed, Held
<1>3. DoneInOrder BY DEF DoneInOrder, Current
<1> QED BY <1>1, <1>2, <1>3, InitCInv DEF EInv

\* The unique indexes: no two rows conflict.
OneRowEach == \A r, f \in rows : Conflicts(r, f) => r = f

\* Store and BatchStore (store.go 17-30, 62-97) skip an event that conflicts
\* with a row, or with an earlier event of the same batch.
LEMMA InsertKeepsOneRow ==
  ASSUME NEW s \in Seq(Events), OneRowEach, InsertEvents(s)
  PROVE  OneRowEach'
<1> SUFFICES ASSUME NEW r \in rows', NEW f \in rows', Conflicts(r, f)
             PROVE  r = f
  BY DEF OneRowEach, Conflicts
<1>0. Conflicts(f, r) BY DEF Conflicts
<1>1. \A e \in rows' : \/ e \in rows
                       \/ \E j \in DOMAIN s : /\ e = s[j] /\ ~Stored(e)
                                              /\ \A k \in DOMAIN s : k < j => ~Conflicts(s[k], e)
  BY DEF InsertEvents
<1>2. CASE r \in rows /\ f \in rows BY <1>2 DEF OneRowEach
<1>3. CASE r \in rows /\ f \notin rows BY <1>0, <1>1, <1>3 DEF Stored
<1>4. CASE r \notin rows /\ f \in rows BY <1>1, <1>4 DEF Stored
<1>5. CASE r \notin rows /\ f \notin rows
  <2>1. PICK j \in DOMAIN s : r = s[j] /\ \A k \in DOMAIN s : k < j => ~Conflicts(s[k], r)
    BY <1>1, <1>5
  <2>2. PICK m \in DOMAIN s : f = s[m] /\ \A k \in DOMAIN s : k < m => ~Conflicts(s[k], f)
    BY <1>1, <1>5
  <2>3. j \in Nat /\ m \in Nat OBVIOUS
  <2>4. ~(j < m) /\ ~(m < j) BY <1>0, <2>1, <2>2
  <2> QED BY <2>1, <2>2, <2>3, <2>4
<1> QED BY <1>2, <1>3, <1>4, <1>5

\* Nothing but the two inserts writes the events table.
LEMMA OneRowStep == TypeInv /\ OneRowEach /\ [Next]_vars => OneRowEach'
<1> SUFFICES ASSUME TypeInv, OneRowEach, [Next]_vars PROVE OneRowEach' OBVIOUS
<1>1. ASSUME UNCHANGED rows PROVE OneRowEach' BY <1>1 DEF OneRowEach, Conflicts
<1>2. CASE UNCHANGED vars BY <1>1, <1>2 DEF vars, tables
<1>3. CASE IngestNext
  <2>1. ASSUME NEW q \in Requests, DirectStore(q) PROVE OneRowEach'
    <3>1. Batch[q] \in Seq(Events) BY IngestAssumption
    <3> QED BY <1>1, <2>1, <3>1, InsertKeepsOneRow DEF DirectStore
  <2>2. ASSUME NEW q \in Requests, Decode(q) \/ Publish(q) \/ Broadcast(q) \/ Abort(q)
        PROVE  UNCHANGED rows
    BY <2>2 DEF Decode, Publish, Broadcast, Abort, tables
  <2>3. ASSUME NEW e \in Malformed, ForeignAdd(e) PROVE UNCHANGED rows
    BY <2>3 DEF ForeignAdd, tables
  <2> QED BY <1>1, <1>3, <2>1, <2>2, <2>3 DEF IngestNext, HandleIngest
<1>4. CASE WorkerNext
  <2>1. ASSUME NEW w \in Workers, NEW i \in Slots, Store(w, i) PROVE OneRowEach'
    <3>1. i \in batch[w] BY <2>1 DEF Store, Current
    <3>2. stream[i].ev \in Events BY <3>1, HeldEvent
    <3>3. <<stream[i].ev>> \in Seq(Events) BY <3>2
    <3>4. UNCHANGED rows \/ InsertEvents(<<stream[i].ev>>) BY <2>1 DEF Store
    <3> QED BY <1>1, <3>3, <3>4, InsertKeepsOneRow
  <2>2. ASSUME NEW w \in Workers, NEW i \in Slots,
               DeadLetter(w, i) \/ Enqueue(w, i) \/ CountDay(w, i) \/ CountUser(w, i) \/ Ack(w, i)
        PROVE  UNCHANGED rows
    BY <2>2 DEF DeadLetter, Enqueue, CountDay, CountUser, Ack, tables
  <2>3. ASSUME NEW w \in Workers, ~(\E i \in Slots : Handle(w, i)), Step(w) PROVE UNCHANGED rows
    BY <2>3 DEF Step, Read, ReadNothing, Reclaim, LoseAnswer, CountDeliveries, Exit, tables
  <2>4. ASSUME NEW i \in Slots, Elapse(i) PROVE UNCHANGED rows BY <2>4 DEF Elapse, tables
  <2>5. ASSUME NEW p \in Procs, Sigterm(p) \/ Crash(p) \/ Restart(p) PROVE UNCHANGED rows
    BY <2>5 DEF Sigterm, Crash, Restart, tables
  <2> QED BY <1>1, <1>4, <2>1, <2>2, <2>3, <2>4, <2>5 DEF WorkerNext, Handle
<1> QED BY <1>2, <1>3, <1>4 DEF Next

\* handler.go 91-222, worker.go 106-165, store.go 17-97: before the first fault
\* an acknowledged event is in the stream once, was delivered once and has one
\* row for its key, whatever the goroutines and the handlers race for; it was
\* counted and enqueued once if no other event carries its key.
THEOREM ExactlyOnceWithoutFaults == Spec => []FaultFreeIsExactlyOnce
<1>1. EInv /\ OneRowEach => FaultFreeIsExactlyOnce
  <2> SUFFICES ASSUME EInv, OneRowEach, faults = 0,
                      NEW i \in With({"acked"}), stream[i].ev \notin Malformed
               PROVE  /\ EntriesOf(stream[i].ev) = {i} /\ stream[i].n = 1 /\ dlq[i] = 0
                      /\ \E f \in rows : \A r \in rows : Conflicts(stream[i].ev, r) <=> r = f
                      /\ daily[i] = 1 /\ stream[i].ev \in hooks
                      /\ User[stream[i].ev] \in active \cup {NoUser}
    BY DEF FaultFreeIsExactlyOnce
  <2>0. IInv /\ TypeInv /\ Undisturbed /\ DoneInOrder /\ OneEntryEach BY DEF EInv, CInv, IInv
  <2>1. i \in Slots /\ stream[i].st = "acked" BY DEF With
  <2>2. stream[i].n = 1 BY <2>0, <2>1 DEF Undisturbed
  <2>3. dlq[i] = 0 /\ Hooked(i) /\ Counted(i) /\ UserCounted(i) BY <2>0, <2>1 DEF DoneInOrder
  <2>4. \E f \in rows : \A r \in rows : Conflicts(stream[i].ev, r) <=> r = f
    <3>1. PICK f \in rows : Conflicts(stream[i].ev, f)
      BY <2>0, <2>3 DEF IInv, AckedIsSettled, Settled, Stored
    <3>2. \A r \in rows : Conflicts(stream[i].ev, r) => Conflicts(r, f) BY <3>1 DEF Conflicts
    <3> QED BY <3>1, <3>2 DEF OneRowEach
  <2>5. EntriesOf(stream[i].ev) = {i}
    <3>1. i \in Used BY <2>1 DEF Used, With
    <3>2. \A j \in Used : j \in Slots /\ stream[j].st # "free" BY DEF Used, With
    <3> QED BY <2>0, <2>1, <3>1, <3>2 DEF EntriesOf, OneEntryEach
  <2> QED BY <2>2, <2>3, <2>4, <2>5 DEF Hooked, Counted, UserCounted
<1>2. Init => OneRowEach BY DEF Init, PostgresInit, OneRowEach
<1>3. EInv => TypeInv BY DEF EInv, CInv, IInv
<1> QED BY <1>1, <1>2, <1>3, InitEInv, EInvStep, OneRowStep, PTL DEF Spec

=============================================================================
