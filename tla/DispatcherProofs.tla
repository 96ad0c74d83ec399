-------------------------- MODULE DispatcherProofs --------------------------
(***************************************************************************)
(* Proofs about Dispatcher, for every set of subscriptions, events and     *)
(* dispatchers, every number of attempts, every timing and every number of *)
(* faults.                                                                 *)
(***************************************************************************)
EXTENDS Dispatcher, TLAPS

Phases == {"idle", "batch", "post", "record"}
Job == [d : Deliveries \cup {<<>>}, left : 0 .. Timeout, ok : BOOLEAN]

\* A row with any waiting time.
RowLike(r) == r \in [st : {"none", "pending", "delivered", "failed"},
                     att : 0 .. MaxAttempts, wait : {r.wait}]

\* The types the arguments need; waiting times are not among them.
TypeInv ==
  /\ sub \in [Subs -> {"none", "active", "deleted"}]
  /\ row = [d \in Deliveries |-> row[d]] /\ \A d \in Deliveries : RowLike(row[d])
  /\ phase \in [Dispatchers -> Phases]
  /\ todo \in [Dispatchers -> SUBSET Deliveries]
  /\ copy \in [Dispatchers -> [Deliveries -> 0 .. MaxAttempts - 1]]
  /\ job \in [Dispatchers -> Job]
  /\ oks \in [Deliveries -> 0 .. 2]
  /\ tried \in [Deliveries -> 0 .. MaxAttempts]

\* A dispatcher that attempts a row has claimed it.
JobIsClaimed ==
  \A x \in Dispatchers : phase[x] \in {"post", "record"} => job[x].d \in todo[x]

\* A result is there after the POST only, and it is true.
OkIsReceived ==
  \A x \in Dispatchers :
    /\ phase[x] = "post" => ~job[x].ok
    /\ phase[x] = "record" /\ job[x].ok => oks[job[x].d] > 0

\* A row that will be attempted has an attempt left.
PendingHasAttempt == \A d \in Deliveries : row[d].st = "pending" => row[d].att < MaxAttempts

\* The attempts counted, in a row or in a copy of it, were made; the one under
\* way is made but not counted.
CountedIsTried ==
  /\ \A d \in Deliveries : row[d].att <= tried[d]
  /\ \A x \in Dispatchers, d \in Deliveries : copy[x][d] <= tried[d]
  /\ \A x \in Dispatchers : phase[x] \in {"post", "record"} =>
       copy[x][job[x].d] < tried[job[x].d]

FailedIsCounted == \A d \in Deliveries : row[d].st = "failed" => row[d].att = MaxAttempts

IInv == /\ TypeInv /\ JobIsClaimed /\ OkIsReceived /\ PendingHasAttempt
        /\ CountedIsTried /\ FailedIsCounted /\ DeliveredIsReceived

-----------------------------------------------------------------------------
\* The numbers among the constants.
LEMMA Numbers == /\ MaxAttempts \in Nat \ {0} /\ Timeout \in Nat \ {0}
                 /\ BatchSize \in Nat \ {0} /\ Buffer \in Nat
BY DispatcherAssumption

\* The fields of a row of which one is written.
LEMMA WaitWritten ==
  ASSUME NEW r, RowLike(r), NEW w
  PROVE  LET s == [r EXCEPT !.wait = w]
         IN  RowLike(s) /\ s.st = r.st /\ s.att = r.att /\ s.wait = w
BY DEF RowLike

LEMMA StatusWritten ==
  ASSUME NEW r, RowLike(r), NEW st \in {"pending", "delivered"}
  PROVE  LET s == [r EXCEPT !.st = st] IN RowLike(s) /\ s.st = st /\ s.att = r.att
BY DEF RowLike

\* Counts are numbers.
LEMMA AttType ==
  ASSUME TypeInv, NEW d \in Deliveries
  PROVE  row[d].att \in 0 .. MaxAttempts /\ tried[d] \in 0 .. MaxAttempts
<1>1. RowLike(row[d]) BY DEF TypeInv
<1> QED BY <1>1 DEF RowLike, TypeInv

\* The initial states satisfy the invariant.
LEMMA InitIInv == Init => IInv
<1> SUFFICES ASSUME Init PROVE IInv OBVIOUS
<1> USE Numbers DEF Init, NoRow, NoJob, NoCopy
<1>1. TypeInv
  <2>1. NoJob \in Job BY DEF Job
  <2>2. RowLike(NoRow) BY DEF RowLike
  <2> QED BY <2>1, <2>2 DEF TypeInv, Phases
<1>2. JobIsClaimed /\ OkIsReceived BY DEF JobIsClaimed, OkIsReceived
<1>3. PendingHasAttempt /\ CountedIsTried /\ FailedIsCounted /\ DeliveredIsReceived
  BY DEF PendingHasAttempt, CountedIsTried, FailedIsCounted, DeliveredIsReceived
<1> QED BY <1>1, <1>2, <1>3 DEF IInv

\* Handlers and enqueuer leave the dispatchers alone.
LEMMA HandlerInv ==
  ASSUME IInv, (\E s \in Subs : HandleCreate(s) \/ HandleDelete(s)) \/ \E e \in Events : Enqueue(e)
  PROVE  IInv'
<1> USE Numbers DEF IInv
<1>0. UNCHANGED <<phase, todo, copy, job, oks, tried>>
  BY DEF HandleCreate, HandleDelete, Enqueue, dispatcherVars, historyVars
<1>1. sub' \in [Subs -> {"none", "active", "deleted"}]
  BY DEF HandleCreate, HandleDelete, Enqueue, TypeInv
<1>2. /\ row' = [d \in Deliveries |-> row'[d]]
      /\ \A d \in Deliveries : \/ row'[d] = row[d] \/ row'[d] = NoRow
                               \/ row'[d] = [NoRow EXCEPT !.st = "pending"]
  BY DEF HandleCreate, HandleDelete, Enqueue, TypeInv
<1>3. TypeInv'
  <2>1. RowLike(NoRow) /\ RowLike([NoRow EXCEPT !.st = "pending"]) BY DEF RowLike, NoRow
  <2>2. \A d \in Deliveries : RowLike(row'[d]) BY <1>2, <2>1 DEF TypeInv
  <2> QED BY <1>0, <1>1, <1>2, <2>2 DEF TypeInv
<1>4. JobIsClaimed' /\ OkIsReceived' BY <1>0 DEF JobIsClaimed, OkIsReceived
<1>5. \A d \in Deliveries : row'[d] = row[d] \/ (row'[d].st \in {"none", "pending"} /\ row'[d].att = 0)
  BY <1>2 DEF NoRow
<1>6. PendingHasAttempt' /\ FailedIsCounted' /\ DeliveredIsReceived'
  BY <1>0, <1>5 DEF PendingHasAttempt, FailedIsCounted, DeliveredIsReceived
<1>7. CountedIsTried'
  <2>1. \A d \in Deliveries : row'[d].att <= tried'[d]
    BY <1>0, <1>5 DEF CountedIsTried, TypeInv
  <2> QED BY <1>0, <2>1 DEF CountedIsTried
<1> QED BY <1>3, <1>4, <1>6, <1>7

\* A claim takes the counts of rows that have an attempt left.
LEMMA ClaimInv == ASSUME IInv, NEW x \in Dispatchers, Claim(x) PROVE IInv'
<1> USE Numbers DEF IInv
<1>0. PICK S \in Claimable :
        /\ Bump(S)
        /\ \/ /\ todo' = [todo EXCEPT ![x] = S]
              /\ copy' = [copy EXCEPT ![x] =
                            [d \in Deliveries |-> IF d \in S THEN row[d].att ELSE 0]]
              /\ phase' = [phase EXCEPT ![x] = "batch"]
           \/ UNCHANGED <<todo, copy, phase>>
  BY DEF Claim
<1>a. UNCHANGED <<sub, job, oks, tried>> /\ phase[x] = "idle" BY DEF Claim, historyVars
<1>b. S \subseteq Deliveries /\ \A d \in S : row[d].st = "pending"
  BY DEF Claimable, Due, Pending
<1>1. /\ row' = [d \in Deliveries |-> row'[d]]
      /\ \A d \in Deliveries : /\ RowLike(row'[d])
                               /\ row'[d].st = row[d].st /\ row'[d].att = row[d].att
  <2>1. row' = [d \in Deliveries |-> IF d \in S THEN [row[d] EXCEPT !.wait = ClaimWindow] ELSE row[d]]
    BY <1>0 DEF Bump
  <2>2. \A d \in Deliveries : RowLike(row[d]) BY DEF TypeInv
  <2>3. \A d \in Deliveries : LET r == [row[d] EXCEPT !.wait = ClaimWindow]
                              IN  RowLike(r) /\ r.st = row[d].st /\ r.att = row[d].att
    BY <2>2, WaitWritten
  <2> QED BY <2>1, <2>2, <2>3
<1>2. \A d \in S : row[d].att \in 0 .. MaxAttempts - 1
  <2> SUFFICES ASSUME NEW d \in S PROVE row[d].att \in 0 .. MaxAttempts - 1 OBVIOUS
  <2>1. d \in Deliveries /\ row[d].st = "pending" BY <1>b
  <2>2. row[d].att \in 0 .. MaxAttempts BY <2>1, AttType
  <2>3. row[d].att < MaxAttempts BY <2>1 DEF PendingHasAttempt
  <2> QED BY <2>2, <2>3
<1>3. TypeInv'
  <2>1. [d \in Deliveries |-> IF d \in S THEN row[d].att ELSE 0] \in [Deliveries -> 0 .. MaxAttempts - 1]
    BY <1>2
  <2>2. copy' \in [Dispatchers -> [Deliveries -> 0 .. MaxAttempts - 1]]
    BY <1>0, <2>1 DEF TypeInv
  <2>3. todo' \in [Dispatchers -> SUBSET Deliveries] /\ phase' \in [Dispatchers -> Phases]
    BY <1>0, <1>b DEF TypeInv, Phases
  <2> QED BY <1>a, <1>1, <2>2, <2>3 DEF TypeInv
<1>4. JobIsClaimed' /\ OkIsReceived'
  BY <1>0, <1>a DEF JobIsClaimed, OkIsReceived, TypeInv
<1>5. PendingHasAttempt' /\ FailedIsCounted' /\ DeliveredIsReceived'
  BY <1>a, <1>1 DEF PendingHasAttempt, FailedIsCounted, DeliveredIsReceived
<1>6. CountedIsTried'
  <2>1. \A d \in Deliveries : row[d].att <= tried[d] BY DEF CountedIsTried
  <2>2. \A y \in Dispatchers, d \in Deliveries : copy'[y][d] \in {0, copy[y][d], row[d].att}
    BY <1>0 DEF TypeInv
  <2>3. \A y \in Dispatchers : phase'[y] \in {"post", "record"} => phase'[y] = phase[y] /\ y # x
    BY <1>0, <1>a DEF TypeInv
  <2>4. \A y \in Dispatchers \ {x} : copy'[y] = copy[y] BY <1>0 DEF TypeInv
  <2>5. \A d \in Deliveries : tried[d] \in Nat BY DEF TypeInv
  <2> QED BY <1>a, <1>1, <2>1, <2>2, <2>3, <2>4, <2>5 DEF CountedIsTried
<1> QED BY <1>3, <1>4, <1>5, <1>6

\* What a dispatcher keeps when it is done with a row.
LEMMA FinishTypes ==
  ASSUME TypeInv, NEW x \in Dispatchers, NEW d \in Deliveries, Finish(x, d)
  PROVE  /\ todo' \in [Dispatchers -> SUBSET Deliveries]
         /\ copy' \in [Dispatchers -> [Deliveries -> 0 .. MaxAttempts - 1]]
         /\ phase' \in [Dispatchers -> Phases]
         /\ phase'[x] \in {"idle", "batch"}
         /\ \A y \in Dispatchers \ {x} : phase'[y] = phase[y] /\ todo'[y] = todo[y]
                                         /\ copy'[y] = copy[y]
         /\ \A f \in Deliveries : copy'[x][f] \in {0, copy[x][f]}
BY Numbers DEF TypeInv, Finish, Phases

\* A row that is skipped costs nothing.
LEMMA SkipInv == ASSUME IInv, NEW x \in Dispatchers, NEW d \in Deliveries, Skip(x, d) PROVE IInv'
<1> USE Numbers DEF IInv
<1>0. UNCHANGED <<sub, row, job, oks, tried>> /\ Finish(x, d) BY DEF Skip, historyVars
<1>1. TypeInv' BY <1>0, FinishTypes DEF TypeInv
<1>2. JobIsClaimed' /\ OkIsReceived' BY <1>0, FinishTypes DEF JobIsClaimed, OkIsReceived
<1>3. PendingHasAttempt' /\ FailedIsCounted' /\ DeliveredIsReceived'
  BY <1>0 DEF PendingHasAttempt, FailedIsCounted, DeliveredIsReceived
<1>4. CountedIsTried'
  <2>1. \A f \in Deliveries : tried[f] \in Nat BY DEF TypeInv
  <2>2. \A y \in Dispatchers, f \in Deliveries : copy'[y][f] \in {0, copy[y][f]}
    BY <1>0, FinishTypes
  <2>3. \A y \in Dispatchers : phase'[y] \in {"post", "record"} =>
          phase'[y] = phase[y] /\ copy'[y] = copy[y]
    BY <1>0, FinishTypes
  <2> QED BY <1>0, <2>1, <2>2, <2>3 DEF CountedIsTried
<1> QED BY <1>1, <1>2, <1>3, <1>4

\* An attempt is counted as tried before it is made.
LEMMA StartInv == ASSUME IInv, NEW x \in Dispatchers, NEW d \in Deliveries, Start(x, d) PROVE IInv'
<1> USE Numbers DEF IInv, Start
<1>0. UNCHANGED <<sub, row, todo, copy, oks>> /\ d \in todo[x] OBVIOUS
<1>1. TypeInv'
  <2>1. [d |-> d, left |-> Timeout, ok |-> FALSE] \in Job BY DEF Job
  <2>2. job' \in [Dispatchers -> Job] BY <2>1 DEF TypeInv
  <2>3. phase' \in [Dispatchers -> Phases] BY DEF TypeInv, Phases
  <2>4. tried' \in [Deliveries -> 0 .. MaxAttempts] BY DEF TypeInv
  <2> QED BY <1>0, <2>2, <2>3, <2>4 DEF TypeInv
<1>2. JobIsClaimed' /\ OkIsReceived' BY <1>0 DEF JobIsClaimed, OkIsReceived, TypeInv
<1>3. PendingHasAttempt' /\ FailedIsCounted' /\ DeliveredIsReceived'
  BY <1>0 DEF PendingHasAttempt, FailedIsCounted, DeliveredIsReceived
<1>4. CountedIsTried'
  <2>1. \A f \in Deliveries : tried'[f] >= tried[f] BY DEF TypeInv
  <2>2. copy[x][d] < tried'[d] BY DEF CountedIsTried, TypeInv
  <2>3. \A f \in Deliveries : row[f].att \in Nat /\ tried[f] \in Nat /\ tried'[f] \in Nat
    BY <1>1 DEF TypeInv, RowLike
  <2>4. \A y \in Dispatchers, f \in Deliveries : copy[y][f] \in Nat BY DEF TypeInv
  <2>5. \A y \in Dispatchers : phase'[y] \in {"post", "record"} => job'[y].d \in Deliveries
    BY <1>0, <1>1, <1>2 DEF JobIsClaimed, TypeInv
  <2>6. job'[x].d = d /\ \A y \in Dispatchers \ {x} : job'[y] = job[y] /\ phase'[y] = phase[y]
    BY DEF TypeInv
  <2> QED BY <1>0, <2>1, <2>2, <2>3, <2>4, <2>5, <2>6 DEF CountedIsTried
<1> QED BY <1>1, <1>2, <1>3, <1>4

\* An answer is known to be 2xx only after one was received.
LEMMA PostInv == ASSUME IInv, NEW x \in Dispatchers, Post(x) PROVE IInv'
<1> USE Numbers DEF IInv, Post
<1>0. UNCHANGED <<sub, row, todo, copy, tried>> OBVIOUS
<1>a. job[x].d \in Deliveries BY DEF JobIsClaimed, TypeInv
<1>b. /\ phase[x] = "post" /\ phase'[x] = "record"
      /\ \A y \in Dispatchers \ {x} : phase'[y] = phase[y] /\ job'[y] = job[y]
      /\ job'[x].d = job[x].d
  BY DEF TypeInv, Job
<1>1. TypeInv'
  <2>0. job[x] \in Job /\ [job[x] EXCEPT !.ok = TRUE] \in Job BY DEF TypeInv, Job
  <2>1. job' \in [Dispatchers -> Job] BY <2>0 DEF TypeInv
  <2>2. phase' \in [Dispatchers -> Phases] BY DEF TypeInv, Phases
  <2>3. oks' \in [Deliveries -> 0 .. 2] BY <1>a DEF TypeInv
  <2> QED BY <1>0, <2>1, <2>2, <2>3 DEF TypeInv
<1>2. \A f \in Deliveries : oks[f] > 0 => oks'[f] > 0 BY <1>a DEF TypeInv
<1>3. JobIsClaimed' BY <1>0, <1>b DEF JobIsClaimed
<1>4. OkIsReceived'
  <2>1. \A y \in Dispatchers \ {x} : phase[y] = "record" => job[y].d \in Deliveries
    BY DEF JobIsClaimed, TypeInv
  <2>2. phase'[x] = "record" /\ job'[x].ok => oks'[job'[x].d] > 0
    <3>1. CASE UNCHANGED job
      <4>1. ~job[x].ok BY <1>b DEF OkIsReceived
      <4> QED BY <3>1, <4>1
    <3>2. CASE oks' = [oks EXCEPT ![job[x].d] = IF @ < 2 THEN @ + 1 ELSE @]
      BY <1>a, <1>b, <3>2 DEF TypeInv
    <3> QED BY <3>1, <3>2
  <2> QED BY <1>2, <1>b, <2>1, <2>2 DEF OkIsReceived
<1>5. PendingHasAttempt' /\ FailedIsCounted' /\ DeliveredIsReceived'
  BY <1>0, <1>2 DEF PendingHasAttempt, FailedIsCounted, DeliveredIsReceived
<1>6. CountedIsTried' BY <1>0, <1>b DEF CountedIsTried
<1> QED BY <1>1, <1>3, <1>4, <1>5, <1>6

\* What Record may make of a row.
LEMMA RecordedRow ==
  ASSUME IInv, NEW x \in Dispatchers, NEW d \in Deliveries, Record(x, d)
  PROVE  /\ row' = [f \in Deliveries |-> row'[f]]
         /\ \A f \in Deliveries \ {d} : row'[f] = row[f]
         /\ \/ row'[d] = row[d]
            \/ /\ RowLike(row'[d]) /\ row'[d].st = "delivered" /\ row'[d].att = row[d].att
               /\ job[x].ok /\ row[d].st # "none"
            \/ /\ RowLike(row'[d]) /\ row'[d].att = copy[x][d] + 1
               /\ \/ row'[d].st = "failed" /\ row'[d].att = MaxAttempts
                  \/ row'[d].st = "pending" /\ row'[d].att < MaxAttempts
               /\ ~job[x].ok /\ row[d].st # "none"
<1> DEFINE n == copy[x][d] + 1
           failed == [st |-> "failed", att |-> n, wait |-> 0]
           pending == [st |-> "pending", att |-> n, wait |-> nextBackoff[n]]
<1>1. n \in 1 .. MaxAttempts BY Numbers DEF IInv, TypeInv
<1>2. row = [f \in Deliveries |-> row[f]] /\ RowLike(row[d]) BY DEF IInv, TypeInv
<1>3. RowLike(failed) /\ RowLike(pending) BY <1>1, Numbers DEF RowLike
<1>4. CASE UNCHANGED row BY <1>2, <1>4
<1>5. CASE job[x].ok /\ MarkDelivered(d)
  <2>1. LET r == [row[d] EXCEPT !.st = "delivered"]
        IN  RowLike(r) /\ r.st = "delivered" /\ r.att = row[d].att
    BY <1>2, StatusWritten
  <2> QED BY <1>2, <1>5, <2>1 DEF MarkDelivered, Update
<1>6. CASE ~job[x].ok /\ RescheduleOrFail(d, n)
  <2>1. CASE n >= MaxAttempts
    <3>1. row' = IF row[d].st = "none" THEN row ELSE [row EXCEPT ![d] = failed]
      BY <1>6, <2>1 DEF RescheduleOrFail, Update
    <3>2. n = MaxAttempts BY <1>1, <2>1, Numbers
    <3> QED BY <1>2, <1>3, <1>6, <3>1, <3>2
  <2>2. CASE ~(n >= MaxAttempts)
    <3>1. row' = IF row[d].st = "none" THEN row ELSE [row EXCEPT ![d] = pending]
      BY <1>6, <2>2 DEF RescheduleOrFail, Update
    <3>2. n < MaxAttempts BY <1>1, <2>2, Numbers
    <3> QED BY <1>2, <1>3, <1>6, <3>1, <3>2
  <2> QED BY <2>1, <2>2
<1> QED BY <1>4, <1>5, <1>6 DEF Record

\* What is written down was received or tried, whoever has written meanwhile.
LEMMA RecordInv ==
  ASSUME IInv, NEW x \in Dispatchers, NEW d \in Deliveries, Record(x, d) PROVE IInv'
<1> USE Numbers DEF IInv
<1>0. /\ UNCHANGED <<sub, oks, tried>> /\ Finish(x, d) /\ phase[x] = "record" /\ job[x].d = d
      /\ job' = [job EXCEPT ![x] = NoJob]
  BY DEF Record, historyVars
<1>1. TypeInv'
  <2>1. \A f \in Deliveries : RowLike(row'[f]) BY RecordedRow DEF TypeInv
  <2>2. row' = [f \in Deliveries |-> row'[f]] BY RecordedRow
  <2>3. NoJob \in Job BY DEF NoJob, Job
  <2>4. job' \in [Dispatchers -> Job] BY <1>0, <2>3 DEF TypeInv
  <2> QED BY <1>0, <2>1, <2>2, <2>4, FinishTypes DEF TypeInv
<1>2. \A y \in Dispatchers : phase'[y] \in {"post", "record"} =>
        phase'[y] = phase[y] /\ copy'[y] = copy[y] /\ todo'[y] = todo[y] /\ job'[y] = job[y]
  BY <1>0, FinishTypes DEF TypeInv
<1>3. JobIsClaimed' /\ OkIsReceived' BY <1>0, <1>2 DEF JobIsClaimed, OkIsReceived
<1>4. DeliveredIsReceived' BY <1>0, RecordedRow DEF DeliveredIsReceived, OkIsReceived
<1>5. PendingHasAttempt' /\ FailedIsCounted'
  BY RecordedRow DEF PendingHasAttempt, FailedIsCounted
<1>6. CountedIsTried'
  <2>1. copy[x][d] \in Nat /\ \A f \in Deliveries : tried[f] \in Nat BY DEF TypeInv
  <2>2. copy[x][d] + 1 <= tried[d] BY <1>0, <2>1 DEF CountedIsTried
  <2>3. \A f \in Deliveries : row'[f].att <= tried[f]
    BY <2>2, RecordedRow DEF CountedIsTried
  <2>4. \A y \in Dispatchers, f \in Deliveries : copy'[y][f] \in {0, copy[y][f]}
    BY <1>0, FinishTypes
  <2> QED BY <1>0, <1>2, <2>1, <2>3, <2>4 DEF CountedIsTried
<1> QED BY <1>1, <1>3, <1>4, <1>5, <1>6

\* A crash loses what is in memory only.
LEMMA CrashInv == ASSUME IInv, NEW x \in Dispatchers, Crash(x) PROVE IInv'
<1> USE Numbers DEF IInv, Crash, historyVars
<1>1. TypeInv'
  <2>1. NoJob \in Job /\ NoCopy \in [Deliveries -> 0 .. MaxAttempts - 1] BY DEF NoJob, Job, NoCopy
  <2> QED BY <2>1 DEF TypeInv, Phases
<1>2. JobIsClaimed' /\ OkIsReceived' BY DEF JobIsClaimed, OkIsReceived, TypeInv
<1>3. PendingHasAttempt' /\ FailedIsCounted' /\ DeliveredIsReceived'
  BY DEF PendingHasAttempt, FailedIsCounted, DeliveredIsReceived
<1>4. CountedIsTried'
  <2>1. \A f \in Deliveries : tried[f] \in Nat BY DEF TypeInv
  <2>2. \A f \in Deliveries : copy'[x][f] = 0 BY DEF TypeInv, NoCopy
  <2>3. phase'[x] = "idle" /\ \A y \in Dispatchers \ {x} :
          phase'[y] = phase[y] /\ copy'[y] = copy[y] /\ job'[y] = job[y]
    BY DEF TypeInv
  <2> QED BY <2>1, <2>2, <2>3 DEF CountedIsTried
<1> QED BY <1>1, <1>2, <1>3, <1>4

\* What time changes.
LEMMA TickedRows ==
  ASSUME TypeInv, Tick
  PROVE  /\ row' = [f \in Deliveries |-> row'[f]]
         /\ \A f \in Deliveries : /\ RowLike(row'[f])
                                  /\ row'[f].st = row[f].st /\ row'[f].att = row[f].att
                                  /\ row'[f].wait = IF row[f].st = "pending"
                                                    THEN Down(row[f].wait, -Overdue)
                                                    ELSE row[f].wait
         /\ \A x \in Dispatchers : /\ job'[x].d = job[x].d /\ job'[x].ok = job[x].ok
                                   /\ job'[x].left = Down(job[x].left, 0)
         /\ job' \in [Dispatchers -> Job]
<1>1. \A f \in Deliveries : RowLike(row[f]) BY DEF TypeInv
<1>2. row' = [f \in Deliveries |->
                IF row[f].st = "pending"
                THEN [row[f] EXCEPT !.wait = Down(row[f].wait, -Overdue)] ELSE row[f]]
  BY DEF Tick, Pending
<1>3. \A f \in Deliveries : LET r == [row[f] EXCEPT !.wait = Down(row[f].wait, -Overdue)]
                            IN  /\ RowLike(r) /\ r.st = row[f].st /\ r.att = row[f].att
                                /\ r.wait = Down(row[f].wait, -Overdue)
  BY <1>1, WaitWritten
<1>4. job' = [x \in Dispatchers |-> [job[x] EXCEPT !.left = Down(job[x].left, 0)]]
  BY DEF Tick
<1>5. \A x \in Dispatchers : job[x] \in Job BY DEF TypeInv
<1>6. \A x \in Dispatchers : Down(job[x].left, 0) \in 0 .. Timeout
  BY <1>5, Numbers DEF Job, Down
<1>7. \A x \in Dispatchers : LET j == [job[x] EXCEPT !.left = Down(job[x].left, 0)]
                             IN  /\ j \in Job /\ j.d = job[x].d /\ j.ok = job[x].ok
                                 /\ j.left = Down(job[x].left, 0)
  BY <1>5, <1>6 DEF Job
<1> QED BY <1>1, <1>2, <1>3, <1>4, <1>7

\* Time alone changes no result.
LEMMA TickInv == ASSUME IInv, Tick PROVE IInv'
<1> USE Numbers DEF IInv
<1>0. UNCHANGED <<sub, phase, todo, copy, oks, tried>> BY DEF Tick, historyVars
<1>1. TypeInv' BY <1>0, TickedRows DEF TypeInv
<1>2. JobIsClaimed' /\ OkIsReceived' BY <1>0, TickedRows DEF JobIsClaimed, OkIsReceived
<1>3. PendingHasAttempt' /\ FailedIsCounted' /\ DeliveredIsReceived'
  BY <1>0, TickedRows DEF PendingHasAttempt, FailedIsCounted, DeliveredIsReceived
<1>4. CountedIsTried' BY <1>0, TickedRows DEF CountedIsTried
<1> QED BY <1>1, <1>2, <1>3, <1>4

\* Every step keeps the invariant.
LEMMA NextIInv == IInv /\ [Next]_vars => IInv'
<1> SUFFICES ASSUME IInv, [Next]_vars PROVE IInv' OBVIOUS
<1>1. CASE (\E s \in Subs : HandleCreate(s) \/ HandleDelete(s)) \/ \E e \in Events : Enqueue(e)
  BY <1>1, HandlerInv
<1>2. CASE \E x \in Dispatchers : Step(x)
  BY <1>2, ClaimInv, PostInv, SkipInv, StartInv, RecordInv DEF Step
<1>3. CASE \E x \in Dispatchers : Crash(x) BY <1>3, CrashInv
<1>4. CASE Tick BY <1>4, TickInv
<1>5. CASE UNCHANGED vars
  BY <1>5 DEF vars, dispatcherVars, historyVars, IInv, TypeInv, JobIsClaimed, OkIsReceived,
              PendingHasAttempt, CountedIsTried, FailedIsCounted, DeliveredIsReceived
<1> QED BY <1>1, <1>2, <1>3, <1>4, <1>5 DEF Next

\* The inductive invariant of the delivery rows.
THEOREM Invariance == Spec => []IInv
BY InitIInv, NextIInv, PTL DEF Spec

\* dispatcher.go 129-137: a row says delivered only if its receiver answered
\* 2xx, however many dispatchers hold the row and whatever crashes.
THEOREM DeliveredIsTrue == Spec => []DeliveredIsReceived
<1>1. IInv => DeliveredIsReceived BY DEF IInv
<1> QED BY <1>1, Invariance, PTL

\* dispatcher.go 107-113, 143-149: a row is given up only after MaxAttempts
\* attempts, although the counts written back are copies.
THEOREM GivenUpIsTried == Spec => []FailedOnlyAfterMaxAttempts
<1>1. IInv => FailedOnlyAfterMaxAttempts
  <2> SUFFICES ASSUME IInv, NEW d \in Deliveries, row[d].st = "failed"
               PROVE  tried[d] >= MaxAttempts
    BY DEF FailedOnlyAfterMaxAttempts
  <2>1. row[d].att = MaxAttempts /\ row[d].att <= tried[d]
    BY DEF IInv, FailedIsCounted, CountedIsTried
  <2> QED BY <2>1, Numbers, AttType DEF IInv
<1> QED BY <1>1, Invariance, PTL

-----------------------------------------------------------------------------
\* For ResentOnlyWithCause: what holds of a row as long as nothing was lost.

\* x has a 2xx answer for d and has not written it down.
Recording(x, d) == phase[x] = "record" /\ job[x].ok /\ job[x].d = d

\* The row went with its subscription, which does not come back.
Deleted(d) == row[d].st = "none" /\ sub[d[1]] = "deleted"

\* A row that is in a batch is claimed, or has been deleted.
HeldIsClaimed(d) ==
  \A x \in Dispatchers : d \in todo[x] =>
    \/ row[d].st = "pending" /\ row[d].wait \in Int /\ row[d].wait > 0
    \/ Deleted(d)

\* Nobody holds the row together with another.
HeldByOne(d) == \A x, y \in Dispatchers : d \in todo[x] /\ d \in todo[y] => x = y

\* The row will not be claimed any more.
Over(d) == row[d].st = "delivered" \/ Deleted(d)

\* A row that was accepted is over once its result is written down, and who
\* holds it has only that to do.
SentIsOver(d) ==
  /\ oks[d] > 0 => Over(d) \/ \E x \in Dispatchers : Recording(x, d)
  /\ \A x \in Dispatchers : d \in todo[x] /\ oks[d] > 0 => Recording(x, d)

Exclusive(d) == HeldIsClaimed(d) /\ HeldByOne(d) /\ SentIsOver(d) /\ oks[d] <= 1

CInv == IInv /\ \A d \in Deliveries : d \notin causes => Exclusive(d)

-----------------------------------------------------------------------------
\* A row that somebody holds, or that was accepted, is not due.
LEMMA DueIsFree ==
  ASSUME IInv, NEW d \in Due, Exclusive(d)
  PROVE  /\ oks[d] = 0
         /\ \A x \in Dispatchers : d \notin todo[x]
<1>1. d \in Deliveries /\ row[d].st = "pending" /\ row[d].wait <= 0 BY DEF Due, Pending
<1>2. \A x \in Dispatchers : d \notin todo[x]
  <2> SUFFICES ASSUME NEW x \in Dispatchers, d \in todo[x] PROVE FALSE OBVIOUS
  <2>1. row[d].wait \in Int /\ row[d].wait > 0 BY <1>1 DEF Exclusive, HeldIsClaimed, Deleted
  <2> QED BY <1>1, <2>1
<1>3. oks[d] \in 0 .. 2 BY <1>1 DEF IInv, TypeInv
<1>4. ~(oks[d] > 0)
  <2> SUFFICES ASSUME oks[d] > 0 PROVE FALSE OBVIOUS
  <2>1. PICK x \in Dispatchers : Recording(x, d)
    BY <1>1 DEF Exclusive, SentIsOver, Over, Deleted
  <2>2. d \in todo[x] BY <2>1 DEF Recording, IInv, JobIsClaimed
  <2> QED BY <1>2, <2>2
<1> QED BY <1>2, <1>3, <1>4

\* A step that leaves the row, its holders and its results alone keeps it
\* exclusive; holders may let go of it.
LEMMA Untouched ==
  ASSUME NEW d \in Deliveries, Exclusive(d),
         row'[d].st = row[d].st,
         \A x \in Dispatchers : d \in todo'[x] => row'[d].wait = row[d].wait,
         sub[d[1]] = "deleted" => sub'[d[1]] = "deleted",
         oks'[d] = oks[d],
         \A x \in Dispatchers : /\ d \in todo'[x] => d \in todo[x]
                                /\ Recording(x, d)' <=> Recording(x, d)
  PROVE  Exclusive(d)'
<1>1. Deleted(d) => Deleted(d)' BY DEF Deleted
<1>2. HeldIsClaimed(d)' BY <1>1 DEF Exclusive, HeldIsClaimed
<1>3. HeldByOne(d)' BY DEF Exclusive, HeldByOne
<1>4. Over(d) => Over(d)' BY <1>1 DEF Over
<1>5. SentIsOver(d)' BY <1>4 DEF Exclusive, SentIsOver
<1> QED BY <1>2, <1>3, <1>5 DEF Exclusive

\* Handlers and enqueuer touch no row that is held, but to delete it.
LEMMA HandlerFree ==
  ASSUME IInv, NEW d \in Deliveries, Exclusive(d),
         (\E s \in Subs : HandleCreate(s) \/ HandleDelete(s)) \/ \E e \in Events : Enqueue(e)
  PROVE  Exclusive(d)'
<1>0. UNCHANGED <<phase, todo, copy, job, oks>>
  BY DEF HandleCreate, HandleDelete, Enqueue, dispatcherVars, historyVars
<1>1. d[1] \in Subs BY DEF Deliveries
<1>2. sub[d[1]] = "deleted" => sub'[d[1]] = "deleted"
  BY <1>1 DEF HandleCreate, HandleDelete, Enqueue, IInv, TypeInv
<1>3. \/ row'[d] = row[d] \/ Deleted(d)'
      \/ row[d].st = "none" /\ sub[d[1]] = "active"
  <2>1. NoRow.st = "none" BY DEF NoRow
  <2> QED BY <1>1, <2>1 DEF HandleCreate, HandleDelete, Enqueue, IInv, TypeInv, Deleted
<1>4. \A x \in Dispatchers : Recording(x, d)' <=> Recording(x, d) BY <1>0 DEF Recording
<1>5. CASE row'[d] = row[d] BY <1>0, <1>2, <1>4, <1>5, Untouched
<1>6. CASE Deleted(d)'
  <2>1. HeldIsClaimed(d)' /\ HeldByOne(d)'
    BY <1>0, <1>6 DEF Exclusive, HeldIsClaimed, HeldByOne
  <2>2. SentIsOver(d)' BY <1>0, <1>4, <1>6 DEF Exclusive, SentIsOver, Over
  <2> QED BY <1>0, <2>1, <2>2 DEF Exclusive
<1>7. CASE row[d].st = "none" /\ sub[d[1]] = "active"
  <2>1. \A x \in Dispatchers : d \notin todo[x]
    BY <1>7 DEF Exclusive, HeldIsClaimed, Deleted
  <2>2. \A x \in Dispatchers : ~Recording(x, d)
    BY <2>1 DEF Recording, IInv, JobIsClaimed
  <2>3. ~(oks[d] > 0) BY <1>7, <2>2 DEF Exclusive, SentIsOver, Over, Deleted
  <2>4. HeldIsClaimed(d)' /\ HeldByOne(d)' BY <1>0, <2>1 DEF HeldIsClaimed, HeldByOne
  <2>5. SentIsOver(d)' BY <1>0, <2>3 DEF SentIsOver
  <2> QED BY <1>0, <2>4, <2>5 DEF Exclusive
<1> QED BY <1>3, <1>5, <1>6, <1>7

\* A claim takes a row that nobody holds and nobody has accepted.
LEMMA ClaimFree ==
  ASSUME IInv, NEW d \in Deliveries, Exclusive(d), NEW x \in Dispatchers, Claim(x)
  PROVE  Exclusive(d)'
<1>0. PICK S \in Claimable :
        /\ Bump(S)
        /\ \/ /\ todo' = [todo EXCEPT ![x] = S]
              /\ phase' = [phase EXCEPT ![x] = "batch"]
           \/ UNCHANGED <<todo, phase>>
  BY DEF Claim
<1>a. UNCHANGED <<sub, job, oks>> /\ phase[x] = "idle" BY DEF Claim, historyVars
<1>1. /\ todo'[x] = todo[x] \/ todo'[x] = S
      /\ phase'[x] \in {"idle", "batch"}
      /\ \A y \in Dispatchers \ {x} : todo'[y] = todo[y] /\ phase'[y] = phase[y]
  BY <1>0, <1>a DEF IInv, TypeInv
<1>2. \A y \in Dispatchers : Recording(y, d)' <=> Recording(y, d)
  BY <1>1, <1>a DEF Recording
<1>3. row' = [f \in Deliveries |-> IF f \in S THEN [row[f] EXCEPT !.wait = ClaimWindow] ELSE row[f]]
  BY <1>0 DEF Bump
<1>4. CASE d \notin S
  <2>1. row'[d] = row[d] BY <1>3, <1>4
  <2> QED BY <1>1, <1>2, <1>4, <1>a, <2>1, Untouched
<1>5. CASE d \in S
  <2>1. d \in Due BY <1>5 DEF Claimable
  <2>2. row[d].st = "pending" /\ oks[d] = 0 /\ \A y \in Dispatchers : d \notin todo[y]
    BY <2>1, DueIsFree DEF Due, Pending
  <2>3. ClaimWindow \in Int /\ ClaimWindow > 0 BY Numbers DEF ClaimWindow
  <2>4. row'[d].st = "pending" /\ row'[d].wait = ClaimWindow
    <3>1. LET r == [row[d] EXCEPT !.wait = ClaimWindow]
          IN  r.wait = ClaimWindow /\ r.st = row[d].st
      BY WaitWritten DEF IInv, TypeInv
    <3> QED BY <1>3, <1>5, <2>2, <3>1
  <2>5. HeldIsClaimed(d)' BY <2>3, <2>4 DEF HeldIsClaimed
  <2>6. HeldByOne(d)' BY <1>1, <2>2 DEF HeldByOne
  <2>7. SentIsOver(d)' /\ oks'[d] <= 1 BY <1>a, <2>2 DEF SentIsOver
  <2> QED BY <2>5, <2>6, <2>7 DEF Exclusive
<1> QED BY <1>4, <1>5

\* What a dispatcher holds when it is done with f.
LEMMA FinishHolds ==
  ASSUME IInv, NEW x \in Dispatchers, NEW f \in Deliveries, Finish(x, f)
  PROVE  /\ todo'[x] = todo[x] \ {f} /\ phase'[x] \in {"idle", "batch"}
         /\ \A y \in Dispatchers \ {x} : todo'[y] = todo[y] /\ phase'[y] = phase[y]
BY DEF Finish, IInv, TypeInv

\* A row that is skipped is held by nobody afterwards.
LEMMA SkipFree ==
  ASSUME IInv, NEW d \in Deliveries, Exclusive(d),
         NEW x \in Dispatchers, NEW f \in Deliveries, Skip(x, f)
  PROVE  Exclusive(d)'
<1>0. /\ UNCHANGED <<sub, row, job, oks>> /\ Finish(x, f) /\ phase[x] = "batch"
  BY DEF Skip, historyVars
<1>1. \A y \in Dispatchers : /\ d \in todo'[y] => d \in todo[y]
                             /\ Recording(y, d)' <=> Recording(y, d)
  BY <1>0, FinishHolds DEF Recording
<1> QED BY <1>0, <1>1, Untouched

\* An attempt begins with no result.
LEMMA StartFree ==
  ASSUME IInv, NEW d \in Deliveries, Exclusive(d),
         NEW x \in Dispatchers, NEW f \in Deliveries, Start(x, f)
  PROVE  Exclusive(d)'
<1>0. /\ UNCHANGED <<sub, row, todo, oks>> /\ phase[x] = "batch"
      /\ job' = [job EXCEPT ![x] = [d |-> f, left |-> Timeout, ok |-> FALSE]]
      /\ \E to \in {"post", "record"} : phase' = [phase EXCEPT ![x] = to]
  BY DEF Start
<1>1. /\ ~job'[x].ok
      /\ \A y \in Dispatchers \ {x} : phase'[y] = phase[y] /\ job'[y] = job[y]
  BY <1>0 DEF IInv, TypeInv
<1>2. \A y \in Dispatchers : Recording(y, d)' <=> Recording(y, d)
  BY <1>0, <1>1 DEF Recording
<1> QED BY <1>0, <1>2, Untouched

\* A row is accepted while its only holder has it, for the first time.
LEMMA PostFree ==
  ASSUME IInv, NEW d \in Deliveries, Exclusive(d), NEW x \in Dispatchers, Post(x),
         d \notin causes'
  PROVE  Exclusive(d)'
<1>f. PICK f \in Deliveries : f = job[x].d /\ f \in todo[x]
  BY DEF Post, IInv, JobIsClaimed, TypeInv
<1>0. /\ UNCHANGED <<sub, row, todo>> /\ phase[x] = "post"
      /\ phase' = [phase EXCEPT ![x] = "record"]
      /\ \/ /\ job' = [job EXCEPT ![x].ok = TRUE]
            /\ oks' = [oks EXCEPT ![f] = IF @ < 2 THEN @ + 1 ELSE @]
         \/ UNCHANGED <<job, oks>>
  BY <1>f DEF Post
<1>1. /\ phase'[x] = "record" /\ job'[x].d = f
      /\ \A y \in Dispatchers \ {x} : phase'[y] = phase[y] /\ job'[y] = job[y]
  BY <1>0, <1>f DEF IInv, TypeInv, Job
<1>2. ~job[x].ok BY <1>0 DEF IInv, OkIsReceived
<1>3. CASE d # f \/ UNCHANGED <<job, oks>>
  <2>1. oks'[d] = oks[d] BY <1>0, <1>3 DEF IInv, TypeInv
  <2>2. \A y \in Dispatchers : Recording(y, d)' <=> Recording(y, d)
    BY <1>0, <1>1, <1>2, <1>3, <1>f DEF Recording
  <2> QED BY <1>0, <2>1, <2>2, Untouched
<1>4. CASE d = f /\ job' = [job EXCEPT ![x].ok = TRUE]
                 /\ oks' = [oks EXCEPT ![f] = IF @ < 2 THEN @ + 1 ELSE @]
  <2>1. ~(oks[d] > 0) BY <1>0, <1>4, <1>f DEF Recording, Exclusive, SentIsOver
  <2>2. oks'[d] = 1 BY <1>4, <2>1 DEF IInv, TypeInv
  <2>3. Recording(x, d)' BY <1>1, <1>4 DEF Recording, IInv, TypeInv, Job
  <2>4. \A y \in Dispatchers : d \in todo[y] => y = x
    BY <1>4, <1>f DEF Exclusive, HeldByOne
  <2>5. SentIsOver(d)' BY <1>0, <2>3, <2>4 DEF SentIsOver
  <2>6. Deleted(d)' <=> Deleted(d) BY <1>0 DEF Deleted
  <2>7. HeldIsClaimed(d)' /\ HeldByOne(d)'
    BY <1>0, <2>6 DEF Exclusive, HeldIsClaimed, HeldByOne
  <2> QED BY <2>2, <2>5, <2>7 DEF Exclusive
<1> QED BY <1>0, <1>3, <1>4

\* A result is written down while the row is still claimed.
LEMMA RecordFree ==
  ASSUME IInv, NEW d \in Deliveries, Exclusive(d),
         NEW x \in Dispatchers, NEW f \in Deliveries, Record(x, f), d \notin causes'
  PROVE  Exclusive(d)'
<1>0. /\ UNCHANGED <<sub, oks>> /\ Finish(x, f) /\ phase[x] = "record" /\ job[x].d = f
      /\ job' = [job EXCEPT ![x] = NoJob]
  BY DEF Record
<1>1. \/ IF job[x].ok THEN MarkDelivered(f) ELSE RescheduleOrFail(f, copy[x][f] + 1)
      \/ UNCHANGED row /\ (job[x].ok => d # f)
  BY <1>0 DEF Record, Unwritten
<1>a. f \in todo[x] BY <1>0 DEF IInv, JobIsClaimed
<1>2. /\ todo'[x] = todo[x] \ {f} /\ phase'[x] \in {"idle", "batch"}
      /\ \A y \in Dispatchers \ {x} : todo'[y] = todo[y] /\ phase'[y] = phase[y] /\ job'[y] = job[y]
  BY <1>0, FinishHolds DEF IInv, TypeInv
<1>3. \A y \in Dispatchers : d \in todo'[y] => d \in todo[y] BY <1>2
<1>4. CASE d # f
  <2>1. row'[d] = row[d] BY <1>4, RecordedRow
  <2>2. \A y \in Dispatchers : Recording(y, d)' <=> Recording(y, d)
    BY <1>0, <1>2, <1>4 DEF Recording
  <2> QED BY <1>0, <1>3, <2>1, <2>2, Untouched
<1>5. CASE d = f
  <2>1. \A y \in Dispatchers : d \notin todo'[y]
    BY <1>2, <1>5, <1>a DEF Exclusive, HeldByOne
  <2>2. ASSUME oks[d] > 0 PROVE Over(d)'
    <3>1. job[x].ok BY <1>5, <1>a, <2>2 DEF Exclusive, SentIsOver, Recording
    <3>2. MarkDelivered(d) BY <1>1, <1>5, <3>1
    <3>3. LET r == [row[d] EXCEPT !.st = "delivered"] IN r.st = "delivered"
      BY StatusWritten DEF IInv, TypeInv
    <3>4. row = [g \in Deliveries |-> row[g]] BY DEF IInv, TypeInv
    <3>5. CASE row[d].st = "none"
      <4>1. Deleted(d) BY <1>5, <1>a, <3>5 DEF Exclusive, HeldIsClaimed
      <4> QED BY <1>0, <3>2, <3>5, <4>1 DEF MarkDelivered, Update, Over, Deleted
    <3>6. CASE row[d].st # "none"
      BY <3>2, <3>3, <3>4, <3>6 DEF MarkDelivered, Update, Over
    <3> QED BY <3>5, <3>6
  <2>3. HeldIsClaimed(d)' /\ HeldByOne(d)' BY <2>1 DEF HeldIsClaimed, HeldByOne
  <2>4. SentIsOver(d)' BY <1>0, <2>1, <2>2 DEF SentIsOver
  <2> QED BY <1>0, <2>3, <2>4 DEF Exclusive
<1> QED BY <1>4, <1>5

\* A crash lets go of what was claimed; a success that is lost with it is a
\* cause.
LEMMA CrashFree ==
  ASSUME IInv, NEW d \in Deliveries, Exclusive(d), NEW x \in Dispatchers, Crash(x),
         d \notin causes'
  PROVE  Exclusive(d)'
<1>0. UNCHANGED <<sub, row, oks>> BY DEF Crash
<1>1. /\ phase'[x] = "idle" /\ todo'[x] = {}
      /\ \A y \in Dispatchers \ {x} : phase'[y] = phase[y] /\ todo'[y] = todo[y] /\ job'[y] = job[y]
  BY DEF Crash, IInv, TypeInv
<1>2. ~Recording(x, d) BY DEF Crash, Unwritten, Recording
<1>3. \A y \in Dispatchers : /\ d \in todo'[y] => d \in todo[y]
                             /\ Recording(y, d)' <=> Recording(y, d)
  BY <1>1, <1>2 DEF Recording
<1> QED BY <1>0, <1>3, Untouched

\* A claim that does not run out with a tick is still there after it.
LEMMA TickFree ==
  ASSUME IInv, NEW d \in Deliveries, Exclusive(d), Tick, d \notin causes'
  PROVE  Exclusive(d)'
<1>0. UNCHANGED <<sub, phase, todo, oks>> BY DEF Tick
<1>1. row'[d].st = row[d].st /\ (row[d].st = "pending" => row'[d].wait = Down(row[d].wait, -Overdue))
  BY TickedRows DEF IInv
<1>2. \A y \in Dispatchers : Recording(y, d)' <=> Recording(y, d)
  BY <1>0, TickedRows DEF Recording, IInv
<1>3. Deleted(d)' <=> Deleted(d) BY <1>0, <1>1 DEF Deleted
<1>4. HeldIsClaimed(d)'
  <2> SUFFICES ASSUME NEW x \in Dispatchers, d \in todo[x]
               PROVE  \/ row'[d].st = "pending" /\ row'[d].wait \in Int /\ row'[d].wait > 0
                      \/ Deleted(d)'
    BY <1>0 DEF HeldIsClaimed
  <2>1. CASE Deleted(d) BY <1>3, <2>1
  <2>2. CASE row[d].st = "pending" /\ row[d].wait \in Int /\ row[d].wait > 0
    <3>1. row[d].wait # 1 BY <2>2 DEF Tick, Lapsing, Pending
    <3>2. Overdue \in Nat BY DispatcherAssumption
    <3>3. row'[d].wait = row[d].wait - 1 BY <1>1, <2>2, <3>2 DEF Down
    <3> QED BY <1>1, <2>2, <3>1, <3>3
  <2> QED BY <2>1, <2>2 DEF Exclusive, HeldIsClaimed
<1>5. HeldByOne(d)' BY <1>0 DEF Exclusive, HeldByOne
<1>6. Over(d) => Over(d)' BY <1>1, <1>3 DEF Over
<1>7. SentIsOver(d)' BY <1>0, <1>2, <1>6 DEF Exclusive, SentIsOver
<1> QED BY <1>0, <1>4, <1>5, <1>7 DEF Exclusive

\* A cause is not forgotten.
LEMMA CausesGrow == [Next]_vars => causes \subseteq causes'
BY DEF Next, Step, HandleCreate, HandleDelete, Enqueue, Claim, Skip, Start, Post, Record,
       Crash, Tick, vars, historyVars

\* store.go 87-132, dispatcher.go 75-161: for every set of subscriptions, events
\* and dispatchers, every batch size, timeout and claim window, and any number
\* of faults, a row that its receiver has accepted is sent again only if an
\* answer or a result was lost or a claim ran out in a batch.
THEOREM ResendHasCause == Spec => []ResentOnlyWithCause
<1>1. Init => CInv
  <2> SUFFICES ASSUME Init PROVE CInv OBVIOUS
  <2>1. \A d \in Deliveries : HeldIsClaimed(d) /\ HeldByOne(d)
    BY DEF Init, HeldIsClaimed, HeldByOne
  <2>2. \A d \in Deliveries : SentIsOver(d) /\ oks[d] <= 1 BY DEF Init, SentIsOver
  <2> QED BY <2>1, <2>2, InitIInv DEF CInv, Exclusive
<1>2. CInv /\ [Next]_vars => CInv'
  <2> SUFFICES ASSUME CInv, [Next]_vars PROVE CInv' OBVIOUS
  <2>1. IInv' BY NextIInv DEF CInv
  <2>2. ASSUME NEW d \in Deliveries, d \notin causes' PROVE Exclusive(d)'
    <3>1. IInv /\ Exclusive(d) BY <2>2, CausesGrow DEF CInv
    <3>2. CASE (\E s \in Subs : HandleCreate(s) \/ HandleDelete(s)) \/ \E e \in Events : Enqueue(e)
      BY <3>1, <3>2, HandlerFree
    <3>3. CASE \E x \in Dispatchers : Step(x)
      BY <2>2, <3>1, <3>3, ClaimFree, PostFree, SkipFree, StartFree, RecordFree DEF Step
    <3>4. CASE \E x \in Dispatchers : Crash(x) BY <2>2, <3>1, <3>4, CrashFree
    <3>5. CASE Tick BY <2>2, <3>1, <3>5, TickFree
    <3>6. CASE UNCHANGED vars
      <4>1. UNCHANGED <<sub, row, phase, todo, job, oks>>
        BY <3>6 DEF vars, dispatcherVars, historyVars
      <4>2. \A x \in Dispatchers : Recording(x, d)' <=> Recording(x, d) BY <4>1 DEF Recording
      <4> QED BY <3>1, <4>1, <4>2, Untouched
    <3> QED BY <3>2, <3>3, <3>4, <3>5, <3>6 DEF Next
  <2> QED BY <2>1, <2>2 DEF CInv
<1>3. CInv => ResentOnlyWithCause
  <2> SUFFICES ASSUME CInv, NEW d \in Deliveries, d \notin causes PROVE ~(oks[d] > 1)
    BY DEF ResentOnlyWithCause
  <2>1. oks[d] <= 1 /\ oks[d] \in 0 .. 2 BY DEF CInv, Exclusive, IInv, TypeInv
  <2> QED BY <2>1
<1> QED BY <1>1, <1>2, <1>3, PTL DEF Spec

=============================================================================
