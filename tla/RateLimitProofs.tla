-------------------------- MODULE RateLimitProofs ---------------------------
(***************************************************************************)
(* Proofs about the two halves of the rate limiter: Breaker, for every set *)
(* of concurrent requests, threshold and reset time, and SlidingWindow,    *)
(* for every limit, window and lag and every number of senders.            *)
(***************************************************************************)
EXTENDS Breaker, SlidingWindow, FiniteSetTheorems, WellFoundedInduction, TLAPS

-----------------------------------------------------------------------------
\* The circuit breaker.

PCs == {"idle", "check", "probe", "call", "success", "failure", "reopen", "add",
        "trip", "zero", "unadd", "clear", "now", "stamp", "notify", "notify probe"}

\* A step of a request moves that request only.
LEMMA OnlyOneMoves ==
  ASSUME TypeOK, NEW c \in Callers, Step(c)
  PROVE  /\ pc' = [pc EXCEPT ![c] = pc'[c]]
         /\ pc'[c] \in PCs
         /\ \A d \in Callers \ {c} : pc'[d] = pc[d]
<1> USE DEF TypeOK, PCs, Goto, CAS
<1>1. CASE Load(c) \/ CheckAge(c) \/ Probe(c) \/ Call(c)
  BY <1>1 DEF Load, CheckAge, Probe, Call
<1>2. CASE RecordSuccess(c) \/ RecordFailure(c) \/ Reopen(c)
  BY <1>2 DEF RecordSuccess, RecordFailure, Reopen
<1>3. CASE Add(c) \/ Trip(c) \/ ReadNow(c) \/ Stamp(c) \/ Notify(c)
  BY <1>3 DEF Add, Trip, ReadNow, Stamp, Notify
<1>4. CASE Zero(c)
  BY <1>4 DEF Zero
<1> QED BY <1>1, <1>2, <1>3, <1>4 DEF Step

\* A step of a request keeps the types of everything else.
LEMMA StepTypes ==
  ASSUME TypeOK, NEW c \in Callers, Step(c)
  PROVE  /\ state' \in States /\ gauge' \in States
         /\ failures' \in Nat
         /\ age' \in 0 .. ResetAfter /\ sinceOpen' \in 0 .. ResetAfter
         /\ told' \in [Callers -> States]
         /\ answer' \in [Callers -> {"none", "script", "unthrottled", "error"}]
         /\ seen' \in [Callers -> 0 .. ResetAfter]
         /\ opener' \in Callers \cup {NoOne} /\ stampedBy' \in Callers \cup {NoOne}
<1>0. /\ state \in States /\ gauge \in States
      /\ failures \in Nat
      /\ age \in 0 .. ResetAfter /\ sinceOpen \in 0 .. ResetAfter
      /\ told \in [Callers -> States]
      /\ answer \in [Callers -> {"none", "script", "unthrottled", "error"}]
      /\ seen \in [Callers -> 0 .. ResetAfter]
      /\ opener \in Callers \cup {NoOne} /\ stampedBy \in Callers \cup {NoOne}
  BY DEF TypeOK
<1>a. /\ 0 \in 0 .. ResetAfter /\ ResetAfter \in 0 .. ResetAfter /\ failures + 1 \in Nat
      /\ "closed" \in States /\ "half" \in States /\ "open" \in States
  BY <1>0, BreakerAssumption DEF States
<1>1. CASE Load(c) \/ CheckAge(c) \/ Call(c)
  BY <1>0, <1>a, <1>1 DEF Load, CheckAge, Call, Answer, FailAnswer, breakerVars, historyVars
<1>2. CASE Probe(c) \/ RecordSuccess(c) \/ Reopen(c) \/ Trip(c)
  BY <1>0, <1>a, <1>2 DEF Probe, RecordSuccess, Reopen, Trip, CAS
<1>3. CASE RecordFailure(c) \/ Add(c) \/ Zero(c)
  BY <1>0, <1>a, <1>3 DEF RecordFailure, Add, Zero, breakerVars, historyVars
<1>4. CASE ReadNow(c) \/ Stamp(c) \/ Notify(c)
  BY <1>0, <1>a, <1>4 DEF ReadNow, Stamp, Notify, breakerVars, historyVars
<1> QED BY <1>1, <1>2, <1>3, <1>4 DEF Step

\* The same for the Boolean variables.
LEMMA StepBooleans ==
  ASSUME TypeOK, NEW c \in Callers, Step(c)
  PROVE  healthy' \in BOOLEAN /\ overlapped' \in BOOLEAN
<1>1. healthy \in BOOLEAN /\ overlapped \in BOOLEAN BY DEF TypeOK
<1>2. healthy' = healthy
  BY DEF Step, Load, CheckAge, Call, Probe, RecordSuccess, Reopen, Trip, RecordFailure,
         Add, Zero, ReadNow, Stamp, Notify
<1>3. \/ overlapped' = overlapped
      \/ \E from \in States :
           overlapped' = (overlapped \/ (state = from /\ \E d \in Callers : Owes(d)))
  BY DEF Step, Load, CheckAge, Call, Probe, RecordSuccess, Reopen, Trip, RecordFailure,
         Add, Zero, ReadNow, Stamp, Notify, CAS, historyVars, States
<1> QED BY <1>1, <1>2, <1>3, Zenon

\* The clock and the weather leave the breaker and its requests alone.
LEMMA WorldSteps ==
  ASSUME TypeOK, Tick \/ Weather \/ UNCHANGED vars
  PROVE  /\ UNCHANGED <<state, failures, gauge, pc, told, answer, overlapped, opener, stampedBy>>
         /\ age' \in 0 .. ResetAfter /\ sinceOpen' \in 0 .. ResetAfter
         /\ seen' \in [Callers -> 0 .. ResetAfter]
         /\ healthy' \in BOOLEAN
         /\ age <= sinceOpen => age' <= sinceOpen'
         /\ \A c \in Callers : seen[c] <= sinceOpen => seen'[c] <= sinceOpen'
<1>1. UNCHANGED <<state, failures, gauge, pc, told, answer, overlapped, opener, stampedBy>>
  BY DEF Tick, Weather, vars, breakerVars, historyVars
<1>2. healthy \in BOOLEAN BY DEF TypeOK
<1>3. healthy' = healthy \/ healthy' = ~healthy
  BY DEF Tick, Weather, vars
<1>4. healthy' \in BOOLEAN BY <1>2, <1>3, Zenon
<1>5. age \in 0 .. ResetAfter /\ sinceOpen \in 0 .. ResetAfter /\ ResetAfter \in Nat
  BY BreakerAssumption DEF TypeOK
<1>6. \/ age' = Later(age) /\ sinceOpen' = Later(sinceOpen)
      \/ age' = age /\ sinceOpen' = sinceOpen
  BY DEF Tick, Weather, vars, breakerVars, historyVars
<1>7. /\ age' \in 0 .. ResetAfter /\ sinceOpen' \in 0 .. ResetAfter
      /\ age <= sinceOpen => age' <= sinceOpen'
  BY <1>5, <1>6 DEF Later
<1>8. seen \in [Callers -> 0 .. ResetAfter] BY DEF TypeOK
<1>9. \/ /\ seen' = [c \in Callers |-> Later(seen[c])]
         /\ sinceOpen' = Later(sinceOpen)
      \/ seen' = seen /\ sinceOpen' = sinceOpen
  BY DEF Tick, Weather, vars, historyVars
<1>10. /\ seen' \in [Callers -> 0 .. ResetAfter]
       /\ \A c \in Callers : seen[c] <= sinceOpen => seen'[c] <= sinceOpen'
  BY <1>5, <1>8, <1>9 DEF Later
<1> QED BY <1>1, <1>4, <1>7, <1>10

\* Every step keeps the types.
LEMMA TypeStep == TypeOK /\ [Next]_vars => TypeOK'
<1> SUFFICES ASSUME TypeOK, [Next]_vars PROVE TypeOK' OBVIOUS
<1>1. CASE \E c \in Callers : Step(c)
  <2>1. PICK c \in Callers : Step(c) BY <1>1
  <2>2. pc' \in [Callers -> PCs] BY <2>1, OnlyOneMoves DEF TypeOK, PCs
  <2> QED BY <2>1, <2>2, StepTypes, StepBooleans DEF TypeOK, PCs
<1>2. CASE Tick \/ Weather \/ UNCHANGED vars
  BY <1>2, WorldSteps DEF TypeOK
<1> QED BY <1>1, <1>2 DEF Next

\* The breaker keeps its types.
THEOREM TypeCorrect == Spec => []TypeOK
<1>1. Init => TypeOK
  <2> SUFFICES ASSUME Init PROVE TypeOK OBVIOUS
  <2>1. healthy \in BOOLEAN /\ overlapped \in BOOLEAN BY Zenon DEF Init
  <2>2. age \in 0 .. ResetAfter /\ sinceOpen \in 0 .. ResetAfter
    BY BreakerAssumption DEF Init
  <2> QED BY <2>1, <2>2 DEF Init, TypeOK, States
<1> QED BY <1>1, TypeStep, PTL DEF Spec

-----------------------------------------------------------------------------
\* Whoever takes the counter to the threshold resets it, whatever the others do.
LEMMA CounterStep == TypeOK /\ CounterIsCleared /\ [Next]_vars => CounterIsCleared'
<1> SUFFICES ASSUME TypeOK, CounterIsCleared, [Next]_vars, failures' >= Threshold
             PROVE  \E d \in Callers : pc'[d] \in {"trip", "zero", "unadd"}
  BY DEF CounterIsCleared
<1>0. failures \in Nat /\ Threshold \in Nat \ {0} BY BreakerAssumption DEF TypeOK
<1>1. CASE \E c \in Callers : Step(c)
  <2>1. PICK c \in Callers : Step(c) BY <1>1
  <2>2. \A d \in Callers \ {c} : pc'[d] = pc[d] BY <2>1, OnlyOneMoves
  <2>3. CASE Add(c)
    BY <2>3 DEF Add, Goto, TypeOK
  <2>4. CASE Zero(c)
    BY <2>4, <1>0 DEF Zero
  <2>5. CASE Trip(c)
    BY <2>5 DEF Trip, CAS, Goto, TypeOK
  <2>6. CASE ~(Add(c) \/ Zero(c) \/ Trip(c))
    <3>1. failures' = failures /\ pc[c] \notin {"trip", "zero", "unadd"}
      BY <2>1, <2>6 DEF Step, Load, CheckAge, Probe, Call, RecordSuccess, RecordFailure,
                        Reopen, ReadNow, Stamp, Notify, breakerVars
    <3> QED BY <3>1, <2>2 DEF CounterIsCleared
  <2> QED BY <2>3, <2>4, <2>5, <2>6
<1>2. CASE Tick \/ Weather \/ UNCHANGED vars
  BY <1>2, WorldSteps DEF CounterIsCleared
<1> QED BY <1>1, <1>2 DEF Next

\* The counter never stays at the threshold (circuit_breaker.go 87-97).
THEOREM CounterAlwaysCleared == Spec => []CounterIsCleared
<1>1. Init => CounterIsCleared BY BreakerAssumption DEF Init, CounterIsCleared
<1> QED BY <1>1, CounterStep, TypeCorrect, PTL DEF Spec

-----------------------------------------------------------------------------
\* The clock is read after the opening it is read for: while the request that
\* opened the breaker holds its time, that time is not older than the opening.
ReadIsNotOlder ==
  \A c \in Callers : state = "open" /\ opener = c /\ pc[c] = "stamp" => seen[c] <= sinceOpen

StampInv == OpenersStampIsNotOlder /\ ReadIsNotOlder

\* A step that neither opens the breaker nor reads or stores a time keeps both.
LEMMA StampIdle ==
  ASSUME TypeOK, StampInv, NEW c \in Callers,
         \A d \in Callers \ {c} : pc'[d] = pc[d],
         Opening(c)' => Opening(c) /\ pc'[c] # "stamp", ~Opening(c)' => ~Opening(c),
         state' = "open" => state = "open",
         UNCHANGED <<age, seen, sinceOpen, opener, stampedBy>>
  PROVE  StampInv'
<1>1. \A d \in Callers : ~Opening(d)' => ~Opening(d) BY DEF Opening
<1>2. \A d \in Callers : pc'[d] = "stamp" => pc[d] = "stamp" BY DEF Opening
<1> QED BY <1>1, <1>2 DEF StampInv, OpenersStampIsNotOlder, ReadIsNotOlder

\* A CompareAndSwap keeps both: an opening that succeeds makes its request the
\* opener, with no time stored or read yet.
LEMMA StampCAS ==
  ASSUME TypeOK, StampInv, NEW c \in Callers, NEW from \in States, NEW to \in States,
         NEW won \in PCs, NEW lost \in PCs, CAS(c, from, to, won, lost), ~Opening(c),
         to = "open" => won = "zero", won # "stamp", lost \notin {"zero", "now", "stamp"},
         from # to, UNCHANGED <<age, seen, stampedBy>>
  PROVE  StampInv'
<1>1. /\ \A d \in Callers \ {c} : pc'[d] = pc[d]
      /\ pc'[c] = IF state = from THEN won ELSE lost
  BY DEF CAS, Goto, TypeOK
<1>2. CASE state = from /\ to = "open"
  <2>1. opener' = c /\ pc'[c] = "zero" BY <1>1, <1>2 DEF CAS
  <2> QED BY <2>1 DEF StampInv, OpenersStampIsNotOlder, ReadIsNotOlder, Opening
<1>3. CASE state = from /\ to # "open"
  BY <1>3 DEF CAS, StampInv, OpenersStampIsNotOlder, ReadIsNotOlder
<1>4. CASE state # from
  <2>1. UNCHANGED <<state, sinceOpen, opener>> BY <1>4 DEF CAS
  <2>2. ~Opening(c)' BY <1>1, <1>4 DEF Opening
  <2> QED BY <1>1, <2>1, <2>2, StampIdle
<1> QED BY <1>2, <1>3, <1>4

\* Every step keeps both.
LEMMA StampStep == TypeOK /\ StampInv /\ [Next]_vars => StampInv'
<1> SUFFICES ASSUME TypeOK, StampInv, [Next]_vars PROVE StampInv' OBVIOUS
<1>1. CASE \E c \in Callers : Step(c)
  <2>1. PICK c \in Callers : Step(c) BY <1>1
  <2>2. \A d \in Callers \ {c} : pc'[d] = pc[d] BY <2>1, OnlyOneMoves
  <2>3. CASE Stamp(c)
    <3>1. /\ age' = seen[c] /\ stampedBy' = c /\ pc[c] = "stamp" /\ pc'[c] = "notify"
          /\ \A d \in Callers \ {c} : seen'[d] = seen[d]
          /\ UNCHANGED <<state, sinceOpen, opener>>
      BY <2>3 DEF Stamp, Goto, TypeOK
    <3> QED BY <2>2, <3>1 DEF StampInv, OpenersStampIsNotOlder, ReadIsNotOlder
  <2>4. CASE ReadNow(c)
    <3>1. /\ seen'[c] = 0 /\ \A d \in Callers \ {c} : seen'[d] = seen[d]
          /\ Opening(c) /\ Opening(c)'
          /\ UNCHANGED <<state, age, sinceOpen, opener, stampedBy>>
      BY <2>4 DEF ReadNow, Goto, Opening, TypeOK, breakerVars, historyVars
    <3>2. 0 <= sinceOpen
      <4>1. sinceOpen \in 0 .. ResetAfter /\ ResetAfter \in Nat BY BreakerAssumption DEF TypeOK
      <4> QED BY <4>1
    <3>3. \A d \in Callers \ {c} : pc[d] = pc'[d] BY <2>2
    <3>4. OpenersStampIsNotOlder'
      <4> SUFFICES ASSUME NEW d \in Callers, state' = "open", opener' = d, ~Opening(d)',
                          stampedBy' = d
                   PROVE  age' <= sinceOpen'
        BY DEF OpenersStampIsNotOlder
      <4>1. ~Opening(d) BY <3>1, <3>3 DEF Opening
      <4> QED BY <3>1, <4>1 DEF StampInv, OpenersStampIsNotOlder
    <3>5. ReadIsNotOlder' BY <3>1, <3>2, <3>3 DEF StampInv, ReadIsNotOlder
    <3> QED BY <3>4, <3>5 DEF StampInv
  <2>5. CASE Probe(c)
    BY <2>5, StampCAS DEF Probe, States, PCs, Opening
  <2>6. CASE RecordSuccess(c)
    BY <2>6, StampCAS DEF RecordSuccess, States, PCs, Opening
  <2>7. CASE Reopen(c)
    BY <2>7, StampCAS DEF Reopen, States, PCs, Opening
  <2>8. CASE Trip(c)
    BY <2>8, StampCAS DEF Trip, States, PCs, Opening
  <2>9. CASE Zero(c)
    <3>1. /\ Opening(c)' => Opening(c) /\ pc'[c] # "stamp"
          /\ ~Opening(c)' => ~Opening(c)
          /\ UNCHANGED <<state, age, seen, sinceOpen, opener, stampedBy>>
      BY <2>9 DEF Zero, Goto, Opening, TypeOK, historyVars
    <3> QED BY <2>2, <3>1, StampIdle
  <2>10. CASE Load(c) \/ CheckAge(c) \/ Call(c) \/ RecordFailure(c) \/ Add(c) \/ Notify(c)
    <3>1. /\ ~Opening(c) /\ ~Opening(c)'
          /\ UNCHANGED <<state, age, seen, sinceOpen, opener, stampedBy>>
      BY <2>10 DEF Load, CheckAge, Call, RecordFailure, Add, Notify, Goto, Opening, TypeOK,
                   breakerVars, historyVars
    <3> QED BY <2>2, <3>1, StampIdle
  <2> QED BY <2>1, <2>3, <2>4, <2>5, <2>6, <2>7, <2>8, <2>9, <2>10 DEF Step
<1>2. CASE Tick \/ Weather \/ UNCHANGED vars
  BY <1>2, WorldSteps DEF StampInv, OpenersStampIsNotOlder, ReadIsNotOlder, Opening
<1> QED BY <1>1, <1>2 DEF Next

\* Once the request that opened the breaker has stored its time, and until
\* another stores one, openedAt is not older than the opening, however long
\* requests are held up between reading the clock and storing it
\* (circuit_breaker.go 76-98).
THEOREM OpenersStampNeverOlder == Spec => []OpenersStampIsNotOlder
<1>1. Init => StampInv BY DEF Init, StampInv, OpenersStampIsNotOlder, ReadIsNotOlder
<1>2. StampInv => OpenersStampIsNotOlder BY DEF StampInv
<1> QED BY <1>1, <1>2, StampStep, TypeCorrect, PTL DEF Spec

-----------------------------------------------------------------------------
\* Why the gauge is right when no transition overlapped a notification: there
\* is one notification due at most, and it is about the current state.
GaugeInv ==
  ~overlapped =>
    /\ \A c \in Callers : Owes(c) => told[c] = state
    /\ \A c, d \in Callers : Owes(c) /\ Owes(d) => c = d
    /\ (\A c \in Callers : ~Owes(c)) => gauge = state

\* A CompareAndSwap keeps GaugeInv.
LEMMA GaugeCAS ==
  ASSUME TypeOK, GaugeInv, NEW c \in Callers, NEW from \in States, NEW to \in States,
         NEW won \in PCs, NEW lost \in PCs, CAS(c, from, to, won, lost), ~Owes(c),
         won \in {"zero", "clear", "notify probe"},
         lost \notin {"zero", "now", "stamp", "clear", "notify", "notify probe"},
         gauge' = gauge
  PROVE  GaugeInv'
<1>1. /\ \A d \in Callers \ {c} : pc'[d] = pc[d] /\ told'[d] = told[d]
      /\ told'[c] = to
      /\ pc'[c] = IF state = from THEN won ELSE lost
  BY DEF CAS, Goto, TypeOK
<1>2. \A d \in Callers \ {c} : Owes(d)' <=> Owes(d) BY <1>1 DEF Owes, Opening
<1>3. CASE state = from
  <2>1. state' = to /\ Owes(c)' BY <1>1, <1>3 DEF CAS, Owes, Opening
  <2>2. overlapped' = (overlapped \/ \E d \in Callers : Owes(d)) BY <1>3 DEF CAS
  <2>3. ASSUME ~overlapped' PROVE \A d \in Callers : Owes(d)' => d = c
    BY <2>2, <2>3, <1>2
  <2> QED BY <2>1, <2>3, <1>1 DEF GaugeInv
<1>4. CASE state # from
  <2>1. state' = state /\ ~Owes(c)' BY <1>1, <1>4 DEF CAS, Owes, Opening
  <2>2. overlapped' <=> overlapped BY <1>4 DEF CAS
  <2> QED BY <2>1, <2>2, <1>1, <1>2 DEF GaugeInv
<1> QED BY <1>3, <1>4

\* Every step keeps GaugeInv.
LEMMA GaugeStep == TypeOK /\ GaugeInv /\ [Next]_vars => GaugeInv'
<1> SUFFICES ASSUME TypeOK, GaugeInv, [Next]_vars PROVE GaugeInv' OBVIOUS
<1>1. CASE \E c \in Callers : Step(c)
  <2>1. PICK c \in Callers : Step(c) BY <1>1
  <2>2. \A d \in Callers \ {c} : Owes(d)' <=> Owes(d) BY <2>1, OnlyOneMoves DEF Owes, Opening
  <2>3. CASE Probe(c)
    BY <2>3, GaugeCAS DEF Probe, States, PCs, Owes, Opening
  <2>4. CASE RecordSuccess(c)
    BY <2>4, GaugeCAS DEF RecordSuccess, States, PCs, Owes, Opening
  <2>5. CASE Reopen(c)
    BY <2>5, GaugeCAS DEF Reopen, States, PCs, Owes, Opening
  <2>6. CASE Trip(c)
    BY <2>6, GaugeCAS DEF Trip, States, PCs, Owes, Opening
  <2>7. CASE Notify(c)
    <3>1. Owes(c) /\ ~Owes(c)' /\ gauge' = told[c] BY <2>7 DEF Notify, Owes, Opening, Goto, TypeOK
    <3>2. state' = state /\ told' = told /\ overlapped' = overlapped
      BY <2>7 DEF Notify, historyVars
    <3> QED BY <3>1, <3>2, <2>2 DEF GaugeInv
  <2>8. CASE ~(Probe(c) \/ RecordSuccess(c) \/ Reopen(c) \/ Trip(c) \/ Notify(c))
    <3>1. Owes(c)' <=> Owes(c)
      BY <2>1, <2>8 DEF Step, Load, CheckAge, Call, RecordFailure, Add, Zero, ReadNow, Stamp, Goto,
                        Owes, Opening, TypeOK
    <3>2. state' = state /\ told' = told /\ gauge' = gauge /\ overlapped' = overlapped
      BY <2>1, <2>8 DEF Step, Load, CheckAge, Call, RecordFailure, Add, Zero, ReadNow, Stamp,
                        breakerVars, historyVars
    <3> QED BY <3>1, <3>2, <2>2 DEF GaugeInv
  <2> QED BY <2>3, <2>4, <2>5, <2>6, <2>7, <2>8
<1>2. CASE Tick \/ Weather \/ UNCHANGED vars
  BY <1>2, WorldSteps DEF GaugeInv, Owes, Opening
<1> QED BY <1>1, <1>2 DEF Next

\* Unless a transition overlapped a notification, the gauge shows the state
\* once nobody has a notification left to make (circuit_breaker.go 49-104).
THEOREM GaugeIsRight == Spec => []GaugeUnlessOverlapped
<1>1. Init => GaugeInv BY DEF Init, GaugeInv, Owes, Opening
<1>2. GaugeInv => GaugeUnlessOverlapped BY DEF GaugeInv, GaugeUnlessOverlapped
<1> QED BY <1>1, <1>2, GaugeStep, TypeCorrect, PTL DEF Spec

-----------------------------------------------------------------------------
\* Only the transitions of the comment at circuit_breaker.go 9-14 happen,
\* however stale the state is that a request acts on.
THEOREM OnlyLegalTransitions == Spec => LegalTransitions
<1>1. TypeOK /\ [Next]_vars =>
        [state' # state => <<state, state'>> \in {<<"closed", "open">>, <<"open", "half">>,
                                                 <<"half", "closed">>, <<"half", "open">>}]_vars
  <2> SUFFICES ASSUME TypeOK, [Next]_vars, state' # state
               PROVE  <<state, state'>> \in {<<"closed", "open">>, <<"open", "half">>,
                                             <<"half", "closed">>, <<"half", "open">>}
    OBVIOUS
  <2>1. PICK c \in Callers : Step(c) BY WorldSteps DEF Next
  <2> QED BY <2>1 DEF Step, Load, CheckAge, Probe, Call, RecordSuccess, RecordFailure, Reopen,
                      Add, Trip, Zero, ReadNow, Stamp, Notify, CAS, breakerVars
<1> QED BY <1>1, TypeCorrect, PTL DEF Spec, LegalTransitions

-----------------------------------------------------------------------------
\* The sliding window.

\* A script runs at most MaxLag after its clock reading.
SentIsRecent == \A c \in Senders : outcome[c] = "sent" => stamp[c].age <= MaxLag

\* The set never holds more than Limit members.
SetIsBounded == IsFiniteSet(zset) /\ Cardinality(zset) <= Limit

\* The key outlives the window of each of its members.
OutlivesWindow == \A m \in zset : m.age + ttl >= Window

\* No request is forgotten that was let through within the window.
AdmittedIsCounted == \A m \in admitted : m \in zset /\ m.age < Window

SInv == WindowTypeOK /\ SentIsRecent /\ SetIsBounded /\ OutlivesWindow /\ AdmittedIsCounted

-----------------------------------------------------------------------------
\* A set of time stamps is not enlarged when they grow older.
LEMMA OlderIsBounded ==
  ASSUME NEW S, IsFiniteSet(S)
  PROVE  LET T == {Older(m) : m \in S}
         IN  IsFiniteSet(T) /\ Cardinality(T) <= Cardinality(S)
<1> DEFINE T == {Older(m) : m \in S}
           f == [m \in S |-> Older(m)]
<1>1. f \in Surjection(S, T) BY DEF Surjection
<1> HIDE DEF f, T
<1>2. IsFiniteSet(T) /\ Cardinality(T) <= Cardinality(S) BY <1>1, FS_Surjection
<1> QED BY <1>2 DEF T

\* Older, on the members of the set.
LEMMA OlderMember ==
  ASSUME NEW m \in Member
  PROVE  Older(m) \in Member /\ Older(m).age = m.age + 1
BY DEF Member, Older

\* The stamp of a request that is under way.
LEMMA SentStamp ==
  ASSUME SInv, NEW c \in Senders, outcome[c] = "sent"
  PROVE  stamp[c] \in Member /\ stamp[c].age \in 0 .. MaxLag
<1>1. stamp[c] \in [age : 0 .. MaxLag + 1, nano : Nanos] BY DEF SInv, WindowTypeOK
<1>2. stamp[c].age <= MaxLag BY DEF SInv, SentIsRecent
<1> QED BY <1>1, <1>2, WindowAssumption DEF Member

\* ratelimit.go 18-38: the script keeps the set within the limit, drops only
\* what has left the window, and renews the expiry when it adds a member.
LEMMA ScriptKeeps ==
  ASSUME SInv, NEW t \in Member, t.age <= MaxLag, Script(t)
  PROVE  /\ zset' \subseteq Member /\ ttl' \in 0 .. Window
         /\ SetIsBounded' /\ OutlivesWindow'
         /\ \A m \in admitted : m \in zset'
         /\ HasRoom(t) => t \in zset'
<1>0. /\ zset \subseteq Member /\ ttl \in 0 .. Window /\ t.age \in Nat
      /\ Limit \in Nat /\ Window \in Nat /\ IsFiniteSet(zset) /\ Cardinality(zset) <= Limit
  BY WindowAssumption DEF SInv, WindowTypeOK, Member, SetIsBounded
<1>1. \A m \in zset : m.age \in Nat BY <1>0 DEF Member
<1>2. Kept(t) \in SUBSET zset BY DEF Kept
<1>3. PICK K : K = Kept(t) OBVIOUS
<1>4. /\ IsFiniteSet(K) /\ Cardinality(K) <= Cardinality(zset)
      /\ Cardinality(K) \in Nat /\ Cardinality(zset) \in Nat
  BY <1>0, <1>2, <1>3, FS_Subset, FS_CardinalityType
<1>5. \A m \in admitted : m \in K
  BY <1>0, <1>1, <1>3 DEF SInv, AdmittedIsCounted, Kept
<1>6. \A m \in K : m \in zset /\ m.age + ttl >= Window
  BY <1>2, <1>3 DEF SInv, OutlivesWindow
<1>7. CASE HasRoom(t)
  <2>1. zset' = K \cup {t} /\ ttl' = Window BY <1>3, <1>7 DEF Script
  <2>2. IsFiniteSet(K \cup {t}) /\ Cardinality(K \cup {t}) <= Cardinality(K) + 1
    BY <1>4, FS_AddElement
  <2>3. Cardinality(K) < Limit BY <1>3, <1>7 DEF HasRoom
  <2>4. Cardinality(K \cup {t}) \in Nat BY <2>2, FS_CardinalityType
  <2>5. SetIsBounded' BY <1>0, <1>4, <2>1, <2>2, <2>3, <2>4 DEF SetIsBounded
  <2>6. OutlivesWindow' BY <1>0, <1>1, <1>6, <2>1 DEF OutlivesWindow
  <2> QED BY <1>0, <1>2, <1>3, <1>5, <2>1, <2>5, <2>6
<1>8. CASE ~HasRoom(t)
  <2>1. zset' = K /\ ttl' = ttl BY <1>3, <1>8 DEF Script
  <2>2. SetIsBounded' BY <1>0, <1>4, <2>1 DEF SetIsBounded
  <2>3. OutlivesWindow' BY <1>6, <2>1 DEF OutlivesWindow
  <2> QED BY <1>0, <1>2, <1>3, <1>5, <1>8, <2>1, <2>2, <2>3
<1> QED BY <1>7, <1>8

-----------------------------------------------------------------------------
\* The least-number principle, for sets.
LEMMA LeastNatural ==
  ASSUME NEW S \in SUBSET Nat, S # {}
  PROVE  \E n \in S : \A m \in S : n <= m
<1>1. PICK R : IsWellFoundedOn(R, Nat) /\ R = {ss \in Nat \X Nat : ss[1] < ss[2]}
  BY NatLessThanWellFounded DEF OpToRel
<1>2. PICK x \in S : \A y \in S : ~(<<y, x>> \in R) BY <1>1, WFMin
<1>3. x \in Nat OBVIOUS
<1>4. ASSUME NEW y \in S PROVE x <= y
  <2>1. y \in Nat /\ <<y, x>> \in Nat \X Nat OBVIOUS
  <2>2. ~(<<y, x>>[1] < <<y, x>>[2]) BY <1>1, <1>2, <2>1
  <2> QED BY <1>3, <2>1, <2>2
<1> QED BY <1>4

\* Max, on a set of naturals below a bound.
LEMMA MaxOfBounded ==
  ASSUME NEW S \in SUBSET Nat, S # {}, NEW b \in Nat, \A n \in S : n <= b
  PROVE  Max(S) \in S /\ \A n \in S : n <= Max(S)
<1> DEFINE D == {b - n : n \in S}
<1>1. D \in SUBSET Nat /\ D # {}
  <2>1. \A n \in S : b - n \in Nat OBVIOUS
  <2> QED BY <2>1
<1> HIDE DEF D
<1>2. PICK d \in D : \A e \in D : d <= e BY <1>1, LeastNatural
<1>3. PICK n \in S : d = b - n BY <1>2 DEF D
<1>4. \A m \in S : b - n <= b - m BY <1>2, <1>3 DEF D
<1>5. \A m \in S : n >= m BY <1>4
<1>6. \E x \in S : \A y \in S : x >= y BY <1>5
<1>7. Max(S) \in S /\ \A y \in S : Max(S) >= y BY <1>6 DEF Max
<1> QED BY <1>7

\* Ceil rounds up.
LEMMA CeilRoundsUp ==
  ASSUME NEW n \in Nat, NEW d \in Nat \ {0}
  PROVE  /\ Ceil(n, d) \in Nat
         /\ Ceil(n, d) * d >= n
         /\ (Ceil(n, d) - 1) * d < n
         /\ n > 0 => Ceil(n, d) >= 1
<1>1. /\ Ceil(n, d) \in Nat
      /\ Ceil(n, d) * d >= n
      /\ (Ceil(n, d) - 1) * d < n
  BY DEF Ceil
<1>2. Ceil(n, d) = 0 => n <= 0 BY <1>1
<1> QED BY <1>1, <1>2

\* ratelimit.go 117-126: what a request is told that is not let through.
LEMMA LimitedUntilReset ==
  ASSUME SInv, NEW t \in Member, ~HasRoom(t)
  PROVE  /\ UntilReset(t) \in Nat \ {0}
         /\ RetryAfter(t) = Ceil(UntilReset(t), Second) /\ RetryAfter(t) \in Nat
         /\ \E m \in Kept(t) : UntilReset(t) = Window + t.age - m.age
         /\ \A m \in Kept(t) : UntilReset(t) <= Window + t.age - m.age
<1>0. /\ Limit \in Nat \ {0} /\ Window \in Nat /\ t.age \in Nat /\ Second \in Nat \ {0}
      /\ zset \subseteq Member
  BY WindowAssumption DEF SInv, WindowTypeOK, Member
<1>1. PICK K : K = Kept(t) OBVIOUS
<1>2. \A m \in K : m.age \in Nat /\ m.age - t.age < Window BY <1>0, <1>1 DEF Kept, Member
<1>3. K # {} BY <1>0, <1>1, FS_EmptySet DEF HasRoom
<1>4. PICK A : A = {m.age : m \in K} OBVIOUS
<1>5. A \in SUBSET Nat /\ A # {} /\ \A n \in A : n <= Window + t.age BY <1>0, <1>2, <1>3, <1>4
<1>6. Max(A) \in A /\ \A n \in A : n <= Max(A)
  <2>1. PICK b \in Nat : b = Window + t.age BY <1>0
  <2> QED BY <1>5, <2>1, MaxOfBounded
<1>7. PICK a \in Nat : a = Max(A) BY <1>5, <1>6
<1>8. UntilReset(t) = Window + t.age - a BY <1>0, <1>1, <1>4, <1>7 DEF UntilReset
<1>9. \E m \in K : a = m.age BY <1>4, <1>6, <1>7
<1>10. \A m \in K : m.age <= a BY <1>4, <1>6, <1>7
<1>11. UntilReset(t) \in Nat \ {0} BY <1>0, <1>2, <1>8, <1>9
<1>12. RetryAfter(t) = Ceil(UntilReset(t), Second) BY <1>11 DEF RetryAfter
<1>13. RetryAfter(t) \in Nat BY <1>0, <1>11, <1>12, CeilRoundsUp
<1> QED BY <1>0, <1>1, <1>2, <1>8, <1>9, <1>10, <1>11, <1>12, <1>13

-----------------------------------------------------------------------------
LEMMA InitSInv == WindowInit => SInv
<1> SUFFICES ASSUME WindowInit PROVE SInv OBVIOUS
<1>1. WindowTypeOK BY WindowAssumption DEF WindowInit, WindowTypeOK
<1>2. SentIsRecent /\ OutlivesWindow /\ AdmittedIsCounted
  BY DEF WindowInit, SentIsRecent, OutlivesWindow, AdmittedIsCounted
<1>3. SetIsBounded BY WindowAssumption, FS_EmptySet DEF WindowInit, SetIsBounded
<1> QED BY <1>1, <1>2, <1>3 DEF SInv

\* A clock reading is new.
LEMMA ReadKeeps == ASSUME SInv, NEW c \in Senders, ReadClock(c) PROVE SInv'
<1>1. PICK n \in Nanos : stamp' = [stamp EXCEPT ![c] = [age |-> 0, nano |-> n]]
  BY DEF ReadClock
<1>2. WindowTypeOK'
  <2>1. [age |-> 0, nano |-> n] \in [age : 0 .. MaxLag + 1, nano : Nanos] BY WindowAssumption
  <2> QED BY <1>1, <2>1 DEF ReadClock, SInv, WindowTypeOK
<1>3. SentIsRecent'
  BY <1>1, WindowAssumption DEF ReadClock, SInv, WindowTypeOK, SentIsRecent
<1> QED BY <1>2, <1>3
        DEF ReadClock, SInv, SetIsBounded, OutlivesWindow, AdmittedIsCounted

\* Allow: what it lets through is in the set.
LEMMA RunKeeps == ASSUME SInv, NEW c \in Senders, Run(c) PROVE SInv'
<1>1. PICK t : t = stamp[c] OBVIOUS
<1>2. t \in Member /\ t.age \in 0 .. MaxLag /\ Script(t) BY <1>1, SentStamp DEF Run
<1>3. /\ zset' \subseteq Member /\ ttl' \in 0 .. Window
      /\ SetIsBounded' /\ OutlivesWindow'
      /\ \A m \in admitted : m \in zset'
      /\ HasRoom(t) => t \in zset'
  BY <1>2, ScriptKeeps
<1>4. /\ UNCHANGED stamp /\ \A d \in Senders : outcome'[d] = "sent" => outcome[d] = "sent"
      /\ outcome' \in [Senders -> {"idle", "sent", "admitted", "limited"}]
  BY DEF Run, SInv, WindowTypeOK
<1>5. CASE HasRoom(t)
  <2>1. admitted' = admitted \cup {t} /\ retry' = [retry EXCEPT ![c] = 0] BY <1>1, <1>5 DEF Run
  <2>2. retry' \in [Senders -> Nat] BY <2>1 DEF SInv, WindowTypeOK
  <2>3. t.age < Window BY <1>2, WindowAssumption
  <2>4. AdmittedIsCounted' BY <1>3, <1>5, <2>1, <2>3 DEF SInv, AdmittedIsCounted
  <2>5. WindowTypeOK' BY <1>2, <1>3, <1>4, <2>1, <2>2 DEF SInv, WindowTypeOK
  <2>6. SentIsRecent' BY <1>4 DEF SInv, SentIsRecent
  <2> QED BY <1>3, <2>4, <2>5, <2>6 DEF SInv
<1>6. CASE ~HasRoom(t)
  <2>1. admitted' = admitted /\ retry' = [retry EXCEPT ![c] = RetryAfter(t)] BY <1>1, <1>6 DEF Run
  <2>2. RetryAfter(t) \in Nat BY <1>2, <1>6, LimitedUntilReset
  <2>3. retry' \in [Senders -> Nat] BY <2>1, <2>2 DEF SInv, WindowTypeOK
  <2>4. AdmittedIsCounted' BY <1>3, <2>1 DEF SInv, AdmittedIsCounted
  <2>5. WindowTypeOK' BY <1>3, <1>4, <2>1, <2>3 DEF SInv, WindowTypeOK
  <2>6. SentIsRecent' BY <1>4 DEF SInv, SentIsRecent
  <2> QED BY <1>3, <2>4, <2>5, <2>6 DEF SInv
<1> QED BY <1>5, <1>6

\* A script whose answer is lost only adds to the set.
LEMMA ResendKeeps == ASSUME SInv, NEW c \in Senders, Resend(c) PROVE SInv'
<1>1. PICK t : t = stamp[c] OBVIOUS
<1>2. t \in Member /\ t.age \in 0 .. MaxLag /\ Script(t) BY <1>1, SentStamp DEF Resend
<1>3. /\ zset' \subseteq Member /\ ttl' \in 0 .. Window
      /\ SetIsBounded' /\ OutlivesWindow'
      /\ \A m \in admitted : m \in zset'
  BY <1>2, ScriptKeeps
<1>4. WindowTypeOK' BY <1>3 DEF Resend, SInv, WindowTypeOK
<1>5. AdmittedIsCounted' /\ SentIsRecent'
  BY <1>3 DEF Resend, SInv, AdmittedIsCounted, SentIsRecent
<1> QED BY <1>3, <1>4, <1>5 DEF SInv

\* Time passes: when the key expires, all its members have left the window.
LEMMA WindowTickKeeps == ASSUME SInv, WindowTick PROVE SInv'
<1>0. /\ zset \subseteq Member /\ admitted \subseteq Member /\ ttl \in 0 .. Window
      /\ Window \in Nat /\ MaxLag \in Nat
      /\ stamp \in [Senders -> [age : 0 .. MaxLag + 1, nano : Nanos]]
  BY WindowAssumption DEF SInv, WindowTypeOK
<1>1. \A m \in zset : m.age \in Nat /\ m.age + ttl >= Window
  BY <1>0 DEF SInv, OutlivesWindow, Member
<1>2. ttl' \in 0 .. Window /\ (ttl > 1 => ttl' = ttl - 1) BY <1>0 DEF WindowTick
<1>3. zset' \subseteq {Older(m) : m \in zset} BY DEF WindowTick
<1>4. zset' \subseteq Member BY <1>0, <1>3, OlderMember
<1>5. SetIsBounded'
  <2>1. PICK T : T = {Older(m) : m \in zset} OBVIOUS
  <2>2. IsFiniteSet(T) /\ Cardinality(T) <= Cardinality(zset)
    BY <2>1, OlderIsBounded DEF SInv, SetIsBounded
  <2>3. zset' \in SUBSET T BY <1>3, <2>1
  <2>4. IsFiniteSet(zset') /\ Cardinality(zset') <= Cardinality(T) BY <2>2, <2>3, FS_Subset
  <2>5. /\ Cardinality(zset') \in Nat /\ Cardinality(T) \in Nat /\ Cardinality(zset) \in Nat
        /\ Cardinality(zset) <= Limit
    BY <2>2, <2>4, FS_CardinalityType DEF SInv, SetIsBounded
  <2> QED BY <2>2, <2>4, <2>5, WindowAssumption DEF SetIsBounded
<1>6. OutlivesWindow'
  <2> SUFFICES ASSUME NEW m \in zset' PROVE m.age + ttl' >= Window BY DEF OutlivesWindow
  <2>1. ttl > 1 BY <1>0 DEF WindowTick
  <2>2. PICK n \in zset : m = Older(n) BY <1>3
  <2>3. m.age = n.age + 1 BY <1>0, <2>2, OlderMember
  <2> QED BY <1>0, <1>1, <1>2, <2>1, <2>2, <2>3
<1>7. \A m \in admitted' : m \in Member /\ m \in zset' /\ m.age < Window
  <2> SUFFICES ASSUME NEW m \in admitted' PROVE m \in Member /\ m \in zset' /\ m.age < Window
    OBVIOUS
  <2>1. PICK n \in admitted : m = Older(n) /\ m.age < Window BY DEF WindowTick
  <2>2. m \in Member /\ m.age = n.age + 1 BY <1>0, <2>1, OlderMember
  <2>3. n \in zset BY <2>1 DEF SInv, AdmittedIsCounted
  <2>4. ttl > 1 BY <1>0, <1>1, <2>1, <2>2, <2>3
  <2> QED BY <1>0, <2>1, <2>2, <2>3, <2>4 DEF WindowTick
<1>8. stamp' \in [Senders -> [age : 0 .. MaxLag + 1, nano : Nanos]]
  BY <1>0 DEF WindowTick, Older
<1>9. SentIsRecent'
  <2> SUFFICES ASSUME NEW c \in Senders, outcome'[c] = "sent" PROVE stamp'[c].age <= MaxLag
    BY DEF SentIsRecent
  <2>1. outcome[c] = "sent" /\ stamp[c].age < MaxLag BY DEF WindowTick
  <2>2. stamp'[c] = Older(stamp[c]) BY <1>0, <2>1 DEF WindowTick
  <2> QED BY <1>0, <2>1, <2>2 DEF Older
<1>10. WindowTypeOK' BY <1>2, <1>4, <1>7, <1>8 DEF WindowTick, SInv, WindowTypeOK
<1> QED BY <1>5, <1>6, <1>7, <1>9, <1>10 DEF SInv, AdmittedIsCounted

LEMMA SInvStep == SInv /\ [WindowNext]_windowVars => SInv'
<1> SUFFICES ASSUME SInv, [WindowNext]_windowVars PROVE SInv' OBVIOUS
<1>1. ASSUME NEW c \in Senders, GiveUp(c) PROVE SInv'
  BY <1>1 DEF GiveUp, SInv, WindowTypeOK, SentIsRecent, SetIsBounded, OutlivesWindow, AdmittedIsCounted
<1>2. CASE UNCHANGED windowVars
  BY <1>2 DEF windowVars, SInv, WindowTypeOK, SentIsRecent, SetIsBounded, OutlivesWindow, AdmittedIsCounted
<1> QED BY <1>1, <1>2, ReadKeeps, RunKeeps, ResendKeeps, WindowTickKeeps DEF WindowNext

\* ratelimit.go 18-38, 80-126: the sorted set is bounded, and complete for the
\* requests let through within the window.
THEOREM WindowInvariance == WindowSpec => []SInv
BY InitSInv, SInvStep, PTL DEF WindowSpec

\* ratelimit.go 18-38: however scripts are delayed, reordered or sent twice, no
\* interval of time stamps shorter than the window by the lag sees more than
\* Limit admissions.
THEOREM RateIsLimited == WindowSpec => []RateIsBounded
<1>1. SInv => RateIsBounded
  <2> SUFFICES ASSUME SInv, NEW a \in 0 .. MaxLag
               PROVE  Cardinality({m \in admitted : m.age \in a .. a + Window - MaxLag - 1}) <= Limit
    BY DEF RateIsBounded
  <2>1. PICK A : A = {m \in admitted : m.age \in a .. a + Window - MaxLag - 1} OBVIOUS
  <2>2. A \in SUBSET zset BY <2>1 DEF SInv, AdmittedIsCounted
  <2>3. IsFiniteSet(zset) /\ Cardinality(zset) <= Limit BY DEF SInv, SetIsBounded
  <2>4. IsFiniteSet(A) /\ Cardinality(A) <= Cardinality(zset) BY <2>2, <2>3, FS_Subset
  <2>5. Cardinality(A) \in Nat /\ Cardinality(zset) \in Nat BY <2>3, <2>4, FS_CardinalityType
  <2> QED BY <2>1, <2>3, <2>4, <2>5, WindowAssumption
<1> QED BY <1>1, WindowInvariance, PTL

\* ratelimit.go 117-126, docs/tradeoffs.md 3: a request that is not let through
\* is told the number of seconds after which there is room, and no more.
THEOREM RetryAfterIsRight == WindowSpec => RetryAfterIsExact
<1> DEFINE MembersAfter(z, t, s) == {m \in z : m.age - t.age + s * Second < Window}
           Exact == \A c \in Senders : outcome[c] = "sent" /\ outcome'[c] = "limited"
                      => /\ retry'[c] >= 1
                         /\ Cardinality(MembersAfter(zset', stamp[c], retry'[c])) < Limit
                         /\ Cardinality(MembersAfter(zset', stamp[c], retry'[c] - 1)) >= Limit
<1>1. ASSUME SInv, NEW t \in Member, ~HasRoom(t), NEW K, K = Kept(t), NEW s, s = RetryAfter(t)
      PROVE  /\ s >= 1
             /\ Cardinality(MembersAfter(K, t, s)) < Limit
             /\ Cardinality(MembersAfter(K, t, s - 1)) >= Limit
  <2>0. /\ Limit \in Nat \ {0} /\ Window \in Nat /\ t.age \in Nat /\ Second \in Nat \ {0}
        /\ zset \subseteq Member /\ IsFiniteSet(zset) /\ Cardinality(zset) <= Limit
    BY <1>1, WindowAssumption DEF SInv, WindowTypeOK, Member, SetIsBounded
  <2>1. K \in SUBSET zset /\ \A m \in K : m.age \in Nat BY <1>1, <2>0 DEF Kept, Member
  <2>2. /\ IsFiniteSet(K) /\ Cardinality(K) <= Cardinality(zset)
        /\ Cardinality(K) \in Nat /\ Cardinality(zset) \in Nat
    BY <2>0, <2>1, FS_Subset, FS_CardinalityType
  <2>3. Cardinality(K) = Limit BY <1>1, <2>0, <2>2 DEF HasRoom
  <2>4. PICK u \in Nat \ {0} : u = UntilReset(t) BY <1>1, LimitedUntilReset
  <2>5. /\ s = Ceil(u, Second) /\ s \in Nat
        /\ \E m \in K : u = Window + t.age - m.age
        /\ \A m \in K : u <= Window + t.age - m.age
    BY <1>1, <2>4, LimitedUntilReset
  <2>6. s * Second >= u /\ (s - 1) * Second < u /\ s >= 1 BY <2>0, <2>4, <2>5, CeilRoundsUp
  <2>7. PICK x \in Int : x = s * Second BY <2>0, <2>5
  <2>8. PICK y \in Int : y = (s - 1) * Second BY <2>0, <2>5
  <2>9. Cardinality(MembersAfter(K, t, s)) < Limit
    <3>1. PICK A : A = {m \in K : m.age - t.age + x < Window} OBVIOUS
    <3>2. PICK o \in K : u = Window + t.age - o.age BY <2>5
    <3>3. A \in SUBSET (K \ {o}) BY <2>0, <2>1, <2>6, <2>7, <3>1, <3>2
    <3>4. IsFiniteSet(K \ {o}) /\ Cardinality(K \ {o}) = Cardinality(K) - 1
      BY <2>2, <3>2, FS_RemoveElement
    <3>5. IsFiniteSet(A) /\ Cardinality(A) <= Cardinality(K \ {o}) BY <3>3, <3>4, FS_Subset
    <3>6. Cardinality(A) \in Nat BY <3>5, FS_CardinalityType
    <3>7. Cardinality(A) < Limit BY <2>0, <2>3, <3>4, <3>5, <3>6
    <3> QED BY <2>7, <3>1, <3>7
  <2>10. MembersAfter(K, t, s - 1) = K
    <3>1. \A m \in K : m.age - t.age + y < Window BY <2>0, <2>1, <2>4, <2>5, <2>6, <2>8
    <3>2. MembersAfter(K, t, s - 1) = {m \in K : m.age - t.age + y < Window} BY <2>8
    <3> QED BY <3>1, <3>2
  <2>11. s >= 1 /\ Limit >= Limit BY <2>0, <2>6
  <2> HIDE DEF MembersAfter
  <2> QED BY <2>3, <2>9, <2>10, <2>11
<1>2. ASSUME SInv, [WindowNext]_windowVars PROVE Exact
  <2> SUFFICES ASSUME NEW c \in Senders, outcome[c] = "sent", outcome'[c] = "limited"
               PROVE  /\ retry'[c] >= 1
                      /\ Cardinality(MembersAfter(zset', stamp[c], retry'[c])) < Limit
                      /\ Cardinality(MembersAfter(zset', stamp[c], retry'[c] - 1)) >= Limit
    OBVIOUS
  <2>1. Run(c)
    <3>1. \A d \in Senders :
            d # c => outcome'[c] = outcome[c] \/ ~(ReadClock(d) \/ Run(d) \/ GiveUp(d))
      BY <1>2 DEF SInv, WindowTypeOK, ReadClock, Run, GiveUp
    <3>2. ~ReadClock(c) /\ ~GiveUp(c) BY <1>2 DEF SInv, WindowTypeOK, ReadClock, GiveUp
    <3> QED BY <1>2, <3>1, <3>2 DEF WindowNext, WindowTick, Resend, windowVars
  <2>2. PICK t : t = stamp[c] OBVIOUS
  <2>3. t \in Member BY <1>2, <2>2, SentStamp
  <2>4. ~HasRoom(t) BY <1>2, <2>1, <2>2 DEF Run, SInv, WindowTypeOK
  <2>5. zset' = Kept(t) /\ retry'[c] = RetryAfter(t)
    BY <1>2, <2>1, <2>2, <2>4 DEF Run, Script, SInv, WindowTypeOK
  <2>6. PICK K : K = zset' OBVIOUS
  <2>7. PICK s : s = retry'[c] OBVIOUS
  <2> HIDE DEF MembersAfter
  <2>8. /\ s >= 1 /\ Cardinality(MembersAfter(K, t, s)) < Limit
        /\ Cardinality(MembersAfter(K, t, s - 1)) >= Limit
    BY <1>1, <1>2, <2>3, <2>4, <2>5, <2>6, <2>7
  <2> QED BY <2>2, <2>6, <2>7, <2>8
<1>3. SInv /\ [WindowNext]_windowVars => [Exact]_windowVars BY <1>2
<1>4. RetryAfterIsExact <=> [][Exact]_windowVars BY DEF RetryAfterIsExact
<1> HIDE DEF Exact
<1> QED BY <1>3, <1>4, WindowInvariance, PTL DEF WindowSpec

=============================================================================
