--------------------------- MODULE SlidingWindow ----------------------------
(***************************************************************************)
(* The sliding-window rate limit of one API key: the Lua script of         *)
(* internal/ratelimit/ratelimit.go and the part of Limiter.Allow around    *)
(* it.  A request reads its clock first and the script runs later, so      *)
(* scripts may run in another order than their time stamps; the answer may *)
(* be lost and the client library send the script again.                   *)
(*                                                                         *)
(* Time is relative: a member of the sorted set is [age, nano], the        *)
(* milliseconds since its time stamp and the nanosecond within that        *)
(* millisecond.  The score is the millisecond, so a larger age is a        *)
(* smaller score.                                                          *)
(***************************************************************************)
EXTENDS Integers, FiniteSetsExt

CONSTANTS Senders,        \* concurrent requests with the key
          Limit,          \* Config.Limit: 100
          Window,         \* Config.Window: one minute, in milliseconds
          MaxLag,         \* longest time from the clock reading to the script
          Nanos,          \* clock readings told apart in one millisecond
          Second          \* milliseconds in a second

ASSUME WindowAssumption == /\ Limit \in Nat \ {0} /\ Second \in Nat \ {0}
                           /\ MaxLag \in Nat /\ Window \in Nat /\ MaxLag < Window
                           /\ Nanos \subseteq Nat /\ IsFiniteSet(Nanos)
                           /\ IsFiniteSet(Senders)

VARIABLES zset,           \* the sorted set "rl:" + keyID
          ttl,            \* what is left of its PEXPIRE
          stamp,          \* the latest clock reading of each request
          outcome,        \* "idle", "sent", or the answer
          retry,          \* Retry-After in seconds
          admitted        \* history: the time stamps of the requests let through

windowVars == <<zset, ttl, stamp, outcome, retry, admitted>>

Member == [age : Nat, nano : Nanos]

WindowInit ==
  /\ zset = {} /\ ttl = 0
  /\ stamp \in [Senders -> [age : {MaxLag + 1}, nano : Nanos]]
  /\ outcome = [c \in Senders |-> "idle"]
  /\ retry = [c \in Senders |-> 0]
  /\ admitted = {}

Older(m) == [m EXCEPT !.age = @ + 1]

-----------------------------------------------------------------------------
\* time.Now(): the readings of one caller increase.
ReadClock(c) ==
  /\ outcome[c] # "sent"
  /\ \E n \in Nanos :
       /\ stamp[c].age = 0 => n > stamp[c].nano
       /\ stamp' = [stamp EXCEPT ![c] = [age |-> 0, nano |-> n]]
  /\ outcome' = [outcome EXCEPT ![c] = "sent"]
  /\ UNCHANGED <<zset, ttl, retry, admitted>>

\* ZREMRANGEBYSCORE key -inf now_ms - window, for the time stamp t.
Kept(t) == {m \in zset : m.age - t.age < Window}

HasRoom(t) == Cardinality(Kept(t)) < Limit

\* A wrong script, for the mutants: the expiry in seconds instead of
\* milliseconds.
ScriptExpiresEarly(t) ==
  IF HasRoom(t) THEN zset' = Kept(t) \cup {t} /\ ttl' = Window \div Second
                ELSE zset' = Kept(t) /\ UNCHANGED ttl

\* The script leaves the set trimmed, and extended if there is room.
Script(t) ==
  IF HasRoom(t) THEN zset' = Kept(t) \cup {t} /\ ttl' = Window
                ELSE zset' = Kept(t) /\ UNCHANGED ttl

\* The milliseconds from the time stamp t until the oldest member expires.
UntilReset(t) == Max({m.age : m \in Kept(t)}) * (-1) + Window + t.age

Ceil(n, d) == (n + d - 1) \div d

\* A wrong RetryAfter, for the mutants: rounded down.
RetryAfterFloor(t) == (IF UntilReset(t) < 0 THEN 0 ELSE UntilReset(t)) \div Second

RetryAfter(t) == Ceil(IF UntilReset(t) < 0 THEN 0 ELSE UntilReset(t), Second)

\* The script runs and Allow returns.
Run(c) ==
  /\ outcome[c] = "sent"
  /\ Script(stamp[c])
  /\ IF HasRoom(stamp[c])
     THEN /\ admitted' = admitted \cup {stamp[c]}
          /\ retry' = [retry EXCEPT ![c] = 0]
          /\ outcome' = [outcome EXCEPT ![c] = "admitted"]
     ELSE /\ retry' = [retry EXCEPT ![c] = RetryAfter(stamp[c])]
          /\ outcome' = [outcome EXCEPT ![c] = "limited"]
          /\ UNCHANGED admitted
  /\ UNCHANGED stamp

\* The script runs, its answer is lost, and the client library resends it.
Resend(c) == /\ outcome[c] = "sent"
             /\ Script(stamp[c])
             /\ UNCHANGED <<stamp, outcome, retry, admitted>>

\* No answer at all: Allow returns an error and admits nothing (FailClosed).
GiveUp(c) == /\ outcome[c] = "sent"
             /\ outcome' = [outcome EXCEPT ![c] = "idle"]
             /\ UNCHANGED <<zset, ttl, stamp, retry, admitted>>

-----------------------------------------------------------------------------
\* A millisecond passes; the key expires when its time to live is over.
WindowTick ==
  /\ \A c \in Senders : outcome[c] = "sent" => stamp[c].age < MaxLag
  /\ zset' = IF ttl <= 1 THEN {} ELSE {Older(m) : m \in zset}
  /\ ttl' = IF ttl = 0 THEN 0 ELSE ttl - 1
  /\ stamp' = [c \in Senders |->
                 IF stamp[c].age > MaxLag THEN stamp[c] ELSE Older(stamp[c])]
  /\ admitted' = {m \in {Older(n) : n \in admitted} : m.age < Window}
  /\ UNCHANGED <<outcome, retry>>

WindowNext == WindowTick \/ \E c \in Senders : ReadClock(c) \/ Run(c) \/ Resend(c) \/ GiveUp(c)

WindowSpec == WindowInit /\ [][WindowNext]_windowVars

-----------------------------------------------------------------------------
WindowTypeOK ==
  /\ zset \subseteq Member
  /\ ttl \in 0 .. Window
  /\ stamp \in [Senders -> [age : 0 .. MaxLag + 1, nano : Nanos]]
  /\ outcome \in [Senders -> {"idle", "sent", "admitted", "limited"}]
  /\ retry \in [Senders -> Nat]
  /\ admitted \subseteq Member

\* ratelimit.go 18-38: no interval of time stamps shorter than the window by
\* the lag sees more than Limit admissions with different time stamps,
\* although scripts with later stamps trim the set first, the key expires by
\* the clock of Redis and scripts run twice.
RateIsBounded ==
  \A a \in 0 .. MaxLag :
    Cardinality({m \in admitted : m.age \in a .. a + Window - MaxLag - 1}) <= Limit

\* ratelimit.go 117-126, docs/tradeoffs.md 3: Retry-After is the number of
\* seconds until a member expires: waiting that long makes room, and one
\* second less does not.
RetryAfterIsExact ==
  [][\A c \in Senders :
       LET MembersAfter(s) == {m \in zset' : m.age - stamp[c].age + s * Second < Window}
       IN  outcome[c] = "sent" /\ outcome'[c] = "limited"
             => /\ retry'[c] >= 1
                /\ Cardinality(MembersAfter(retry'[c])) < Limit
                /\ Cardinality(MembersAfter(retry'[c] - 1)) >= Limit]_windowVars

=============================================================================
