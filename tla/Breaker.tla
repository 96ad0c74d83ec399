------------------------------ MODULE Breaker -------------------------------
(***************************************************************************)
(* The circuit breaker of the rate limiter,                                *)
(* internal/ratelimit/circuit_breaker.go, and the calls of Limiter.Allow   *)
(* that go through it.  The breaker has no lock: concurrent requests work  *)
(* on three atomics, so every action is one atomic operation of one        *)
(* request.                                                                *)
(*                                                                         *)
(* The time in openedAt is kept as its age, counted up to ResetAfter       *)
(* (openedAt is 0, the epoch, at first: the age is at its maximum).  What  *)
(* the script answers is the business of module SlidingWindow.             *)
(***************************************************************************)
EXTENDS Integers

CONSTANTS Callers,        \* the request slots: each serves one at a time
          Threshold,      \* failureThreshold: 3
          ResetAfter,     \* resetAfter: 10 seconds
          FailMode        \* FailClosed or FailOpen

ASSUME BreakerAssumption == /\ Threshold \in Nat \ {0}
                            /\ ResetAfter \in Nat
                            /\ FailMode \in {"closed", "open"}

VARIABLES state,          \* state: "closed", "half" or "open"
          failures,       \* failures
          age,            \* the time since openedAt
          gauge,          \* the exported circuit_breaker_state
          pc,             \* where each request is in Allow
          told,           \* the state it is about to notify
          answer,         \* what Allow returned or will return
          seen,           \* the age of the time it has read and not yet stored
          healthy,        \* Redis answers and no client hangs up
          sinceOpen,      \* history: the time since state became "open"
          overlapped,     \* history: state changed while a notification was due
          opener,         \* history: who opened the breaker last
          stampedBy       \* history: who stored openedAt last

breakerVars == <<state, failures, age, gauge>>
historyVars == <<sinceOpen, overlapped, opener, stampedBy>>
vars == <<breakerVars, pc, told, answer, seen, healthy, historyVars>>

States == {"closed", "half", "open"}

NoOne == "no one"

Init == /\ state = "closed" /\ failures = 0 /\ gauge = "closed"
        /\ age = ResetAfter /\ sinceOpen = ResetAfter
        /\ pc = [c \in Callers |-> "idle"]
        /\ told = [c \in Callers |-> "closed"]
        /\ answer = [c \in Callers |-> "none"]
        /\ seen = [c \in Callers |-> ResetAfter]
        /\ healthy = TRUE /\ overlapped = FALSE
        /\ opener = NoOne /\ stampedBy = NoOne

Goto(c, to) == pc' = [pc EXCEPT ![c] = to]

Answer(c, a) == answer' = [answer EXCEPT ![c] = a]

\* What Allow returns when it cannot ask Redis.
FailAnswer == IF FailMode = "open" THEN "unthrottled" ELSE "error"

\* The request has opened the breaker and not yet stored openedAt.
Opening(c) == pc[c] \in {"zero", "now", "stamp"}

\* The request has changed the state and not yet called onStateChange.
Owes(c) == Opening(c) \/ pc[c] \in {"clear", "notify", "notify probe"}

\* state.CompareAndSwap(from, to) and where the request goes on.
CAS(c, from, to, won, lost) ==
  /\ state' = IF state = from THEN to ELSE state
  /\ sinceOpen' = IF state = from /\ to = "open" THEN 0 ELSE sinceOpen
  /\ opener' = IF state = from /\ to = "open" THEN c ELSE opener
  /\ overlapped' = (overlapped \/ (state = from /\ \E d \in Callers : Owes(d)))
  /\ told' = [told EXCEPT ![c] = to]
  /\ Goto(c, IF state = from THEN won ELSE lost)

\* The age of openedAt moves with the clock.
Later(t) == IF t < ResetAfter THEN t + 1 ELSE t

-----------------------------------------------------------------------------
\* allow.

\* A request arrives; state.Load().
Load(c) == /\ pc[c] = "idle"
           /\ Goto(c, IF state = "open" THEN "check" ELSE "call")
           /\ Answer(c, "none")
           /\ UNCHANGED <<breakerVars, told, seen, healthy, historyVars>>

\* A wrong CheckAge, for the mutants: a refused request restarts the clock.
CheckAgeRestarts(c) ==
  /\ pc[c] = "check"
  /\ IF age >= ResetAfter THEN Goto(c, "probe") /\ UNCHANGED <<answer, age>>
                          ELSE Goto(c, "idle") /\ Answer(c, FailAnswer) /\ age' = 0
  /\ UNCHANGED <<state, failures, gauge, told, seen, healthy, historyVars>>

\* The breaker was open: time.Now(), openedAt.Load() and the comparison.  One
\* step: time passing between the two could only turn the request away, which
\* changes nothing of the breaker.
CheckAge(c) == /\ pc[c] = "check"
               /\ IF age >= ResetAfter
                  THEN Goto(c, "probe") /\ UNCHANGED answer
                  ELSE Goto(c, "idle") /\ Answer(c, FailAnswer)
               /\ UNCHANGED <<breakerVars, told, seen, healthy, historyVars>>

Probe(c) == /\ pc[c] = "probe"
            /\ CAS(c, "open", "half", "notify probe", "call")
            /\ UNCHANGED <<failures, age, gauge, answer, seen, healthy, stampedBy>>

-----------------------------------------------------------------------------
\* The script call and what Allow records of it.

Call(c) ==
  /\ pc[c] = "call"
  /\ \/ /\ healthy
        /\ Goto(c, "success") /\ Answer(c, "script")
     \/ /\ ~healthy
        /\ Goto(c, "failure") /\ Answer(c, FailAnswer)
  /\ UNCHANGED <<breakerVars, told, seen, healthy, historyVars>>

\* Wrong versions of RecordSuccess, for the mutants: a plain Store instead of
\* the CompareAndSwap, and nothing at all.
RecordSuccessStores(c) ==
  /\ pc[c] = "success"
  /\ state' = "closed" /\ told' = [told EXCEPT ![c] = "closed"]
  /\ Goto(c, "clear")
  /\ UNCHANGED <<failures, age, gauge, answer, seen, healthy, historyVars>>

RecordSuccessNever(c) ==
  /\ pc[c] = "success"
  /\ Goto(c, "idle")
  /\ UNCHANGED <<breakerVars, told, answer, seen, healthy, historyVars>>

RecordSuccess(c) == /\ pc[c] = "success"
                    /\ CAS(c, "half", "closed", "clear", "idle")
                    /\ UNCHANGED <<failures, age, gauge, answer, seen, healthy, stampedBy>>

\* recordFailure: the first state.Load().
RecordFailure(c) == /\ pc[c] = "failure"
                    /\ Goto(c, IF state = "half" THEN "reopen" ELSE "add")
                    /\ UNCHANGED <<breakerVars, told, answer, seen, healthy, historyVars>>

\* A wrong Reopen, for the mutants: openedAt is not stored.
ReopenUnstamped(c) == /\ pc[c] = "reopen"
                      /\ CAS(c, "half", "open", "notify", "idle")
                      /\ UNCHANGED <<failures, age, gauge, answer, seen, healthy, stampedBy>>

Reopen(c) == /\ pc[c] = "reopen"
             /\ CAS(c, "half", "open", "zero", "idle")
             /\ UNCHANGED <<failures, age, gauge, answer, seen, healthy, stampedBy>>

\* failures.Add(1) and the comparison of its result.
Add(c) == /\ pc[c] = "add"
          /\ failures' = failures + 1
          /\ Goto(c, IF failures' >= Threshold THEN "trip" ELSE "idle")
          /\ UNCHANGED <<state, age, gauge, told, answer, seen, healthy, historyVars>>

Trip(c) == /\ pc[c] = "trip"
           /\ CAS(c, "closed", "open", "zero", "unadd")
           /\ UNCHANGED <<failures, age, gauge, answer, seen, healthy, stampedBy>>

\* A wrong Zero, for the mutants: an opening leaves the counter.
ZeroKeeps(c) ==
  /\ pc[c] \in {"zero", "unadd", "clear"}
  /\ failures' = IF pc[c] = "zero" THEN failures ELSE 0
  /\ Goto(c, CASE pc[c] = "zero" -> "now"
               [] pc[c] = "unadd" -> "idle"
               [] pc[c] = "clear" -> "notify")
  /\ UNCHANGED <<state, age, gauge, told, answer, seen, healthy, historyVars>>

\* failures.Store(0): before the stamp of an opening, on a lost race, and
\* after a closing.
Zero(c) == /\ pc[c] \in {"zero", "unadd", "clear"}
           /\ failures' = 0
           /\ Goto(c, CASE pc[c] = "zero" -> "now"
                        [] pc[c] = "unadd" -> "idle"
                        [] pc[c] = "clear" -> "notify")
           /\ UNCHANGED <<state, age, gauge, told, answer, seen, healthy, historyVars>>

\* time.Now(), the argument of openedAt.Store.
ReadNow(c) == /\ pc[c] = "now"
              /\ seen' = [seen EXCEPT ![c] = 0]
              /\ Goto(c, "stamp")
              /\ UNCHANGED <<breakerVars, told, answer, healthy, historyVars>>

\* openedAt.Store of the time read, however long ago that was.
Stamp(c) == /\ pc[c] = "stamp"
            /\ age' = seen[c]
            /\ seen' = [seen EXCEPT ![c] = ResetAfter]
            /\ stampedBy' = c
            /\ Goto(c, "notify")
            /\ UNCHANGED <<state, failures, gauge, told, answer, healthy, sinceOpen,
                           overlapped, opener>>

\* A wrong Notify, for the mutants: a probe is not reported.
NotifyNoProbe(c) ==
  /\ pc[c] \in {"notify", "notify probe"}
  /\ gauge' = IF pc[c] = "notify" THEN told[c] ELSE gauge
  /\ Goto(c, IF pc[c] = "notify" THEN "idle" ELSE "call")
  /\ UNCHANGED <<state, failures, age, told, answer, seen, healthy, historyVars>>

\* onStateChange sets the gauge.
Notify(c) == /\ pc[c] \in {"notify", "notify probe"}
             /\ gauge' = told[c]
             /\ Goto(c, IF pc[c] = "notify" THEN "idle" ELSE "call")
             /\ UNCHANGED <<state, failures, age, told, answer, seen, healthy, historyVars>>

-----------------------------------------------------------------------------
\* The world around the breaker.

Tick == /\ {age, sinceOpen} \cup {seen[c] : c \in Callers} # {ResetAfter}
        /\ age' = Later(age) /\ sinceOpen' = Later(sinceOpen)
        /\ seen' = [c \in Callers |-> Later(seen[c])]
        /\ UNCHANGED <<state, failures, gauge, pc, told, answer, healthy, overlapped,
                       opener, stampedBy>>

Weather == /\ healthy' = ~healthy
           /\ UNCHANGED <<breakerVars, pc, told, answer, seen, historyVars>>

Step(c) == \/ Load(c) \/ CheckAge(c) \/ Probe(c) \/ Call(c)
           \/ RecordSuccess(c) \/ RecordFailure(c) \/ Reopen(c)
           \/ Add(c) \/ Trip(c) \/ Zero(c) \/ ReadNow(c) \/ Stamp(c) \/ Notify(c)

Next == (\E c \in Callers : Step(c)) \/ Tick \/ Weather

Spec == Init /\ [][Next]_vars

\* Requests keep arriving and run to their end, and time passes.
FairSpec == /\ Spec
            /\ \A c \in Callers : WF_vars(Step(c))
            /\ WF_vars(Tick)

-----------------------------------------------------------------------------
TypeOK == /\ state \in States /\ gauge \in States
          /\ failures \in Nat
          /\ age \in 0 .. ResetAfter /\ sinceOpen \in 0 .. ResetAfter
          /\ pc \in [Callers -> {"idle", "check", "probe", "call", "success",
                                 "failure", "reopen", "add", "trip", "zero", "unadd",
                                 "clear", "now", "stamp", "notify", "notify probe"}]
          /\ told \in [Callers -> States]
          /\ answer \in [Callers -> {"none", "script", "unthrottled", "error"}]
          /\ seen \in [Callers -> 0 .. ResetAfter]
          /\ healthy \in BOOLEAN
          /\ overlapped \in BOOLEAN
          /\ opener \in Callers \cup {NoOne} /\ stampedBy \in Callers \cup {NoOne}

\* circuit_breaker.go 87-97: whoever takes the counter to the threshold also
\* resets it, win or lose, so however requests interleave it never stays there
\* to trip the breaker at the next failure.
CounterIsCleared ==
  failures >= Threshold => \E c \in Callers : pc[c] \in {"trip", "zero", "unadd"}

\* circuit_breaker.go 76-98: the clock is read and stored in two steps, without
\* a lock, so a request held up between them overwrites openedAt with a time
\* from before a later opening.  Nothing else makes the next probe early: once
\* the request that opened the breaker has stored its time, and as long as no
\* other stores after it, openedAt is not older than the opening.
OpenersStampIsNotOlder ==
  \A c \in Callers : state = "open" /\ opener = c /\ ~Opening(c) /\ stampedBy = c
                       => age <= sinceOpen

\* circuit_breaker.go 49-52, 63-104: the gauge shows the state of the breaker
\* once every notification has run, unless the state changed again while one
\* was still due: notifications are not ordered, and then the gauge may stay
\* wrong until the next transition.
GaugeUnlessOverlapped ==
  ~overlapped /\ (\A c \in Callers : ~Owes(c)) => gauge = state

\* circuit_breaker.go 9-14, 61-62: the only transitions there are; a success
\* that raced with an opening does not close the breaker.
LegalTransitions ==
  [][state' # state => <<state, state'>> \in {<<"closed", "open">>, <<"open", "half">>,
                                              <<"half", "closed">>, <<"half", "open">>}]_vars

\* circuit_breaker.go 42-59: the breaker never stays open for good.
OpenIsProbed == (state = "open") ~> (state # "open")

\* circuit_breaker.go 63-70, ratelimit.go 86-93: once calls succeed the breaker
\* closes and stays closed, and requests are no longer turned away, whatever
\* was in flight.
ClosesAfterRecovery ==
  <>[]healthy => <>[](state = "closed" /\ \A c \in Callers : answer[c] # FailAnswer)

=============================================================================
