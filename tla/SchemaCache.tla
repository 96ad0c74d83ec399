---------------------------- MODULE SchemaCache -----------------------------
(***************************************************************************)
(* The schema registry of one (project, event name), internal/schemas: the *)
(* row of event_schemas, the cache of compiled schemas every API replica   *)
(* keeps for it, the validation of incoming events (resolveEntry, called   *)
(* by events.checkSchema), and the handlers that change the schema.        *)
(*                                                                         *)
(* A schema is the number of the write that made it, and whether that      *)
(* write was an upsert (live) or a delete; number 0 is the initial row.    *)
(***************************************************************************)
EXTENDS Naturals, FiniteSetsExt, Faults

CONSTANTS Requests,       \* slots for ingest requests, one event each
          Writers,        \* the upserts and deletes of a behaviour
          Replicas,       \* API processes
          Home            \* the replica that serves a request or a writer

ASSUME SchemaAssumption == Home \in [Requests \cup Writers -> Replicas]

VARIABLES table,          \* the row of event_schemas
          cache,          \* SchemaValidator.cache of each replica
          flying,         \* the key is in the singleflight group
          pc,             \* where each request is in resolveEntry
          got,            \* the entry it will use
          wpc,            \* where each writer is
          wrote,          \* the number of its write
          answered,       \* history: the latest write each replica answered
          floor,          \* history: answered, when the request came
          raced           \* history: an Invalidate overlapped a stale fill

requestVars == <<flying, pc, got>>
historyVars == <<answered, floor, raced>>
vars == <<table, cache, requestVars, wpc, wrote, historyVars, faults>>

Numbers == 0 .. Cardinality(Writers)

Schema == [n : Numbers, live : BOOLEAN]

\* Also what a missing cache entry is.
NoSchema == [n |-> 0, live |-> FALSE]

Init == /\ table \in [n : {0}, live : BOOLEAN]
        /\ cache = [r \in Replicas |-> NoSchema]
        /\ flying = [r \in Replicas |-> FALSE]
        /\ pc = [q \in Requests |-> "idle"]
        /\ got = [q \in Requests |-> NoSchema]
        /\ wpc = [a \in Writers |-> "idle"]
        /\ wrote = [a \in Writers |-> 0]
        /\ answered = [r \in Replicas |-> 0]
        /\ raced = [r \in Replicas |-> FALSE]
        /\ floor = [q \in Requests |-> 0]
        /\ faults = 0

\* The requests that get their result from the flight q leads.
Flight(q) == {p \in Requests : Home[p] = Home[q] /\ (p = q \/ pc[p] = "wait")}

Goto(S, to) == pc' = [q \in Requests |-> IF q \in S THEN to ELSE pc[q]]

-----------------------------------------------------------------------------
\* resolveEntry.

\* A request comes; the cache is looked up under the lock.
Lookup(q) ==
  /\ pc[q] \in {"idle", "done", "skipped"}
  /\ Goto({q}, IF cache[Home[q]].live THEN "done" ELSE "do")
  /\ got' = [got EXCEPT ![q] = cache[Home[q]]]
  /\ floor' = [floor EXCEPT ![q] = answered[Home[q]]]
  /\ NoFault
  /\ UNCHANGED <<table, cache, flying, wpc, wrote, answered, raced>>

\* sf.Do: lead a flight, or wait for the one there is.
Do(q) == /\ pc[q] = "do"
         /\ Goto({q}, IF flying[Home[q]] THEN "wait" ELSE "get")
         /\ flying' = [flying EXCEPT ![Home[q]] = TRUE]
         /\ NoFault
         /\ UNCHANGED <<table, cache, got, wpc, wrote, historyVars>>

\* store.Get with the context of the leader: the row or ErrNotFound, or an
\* error because the leader's client has hung up or the database fails.
Get(q) ==
  /\ pc[q] = "get"
  /\ \/ Goto({q}, "compile") /\ got' = [got EXCEPT ![q] = table]
     \/ Goto({q}, "error") /\ UNCHANGED got
  /\ NoFault
  /\ UNCHANGED <<table, cache, flying, wpc, wrote, historyVars>>

\* A wrong Land, for the mutants: an error wakes only the leader.
LandAlone(q) ==
  /\ pc[q] \in {"compile", "error"}
  /\ flying' = [flying EXCEPT ![Home[q]] = FALSE]
  /\ IF pc[q] = "error" THEN Goto({q}, "skipped") ELSE Goto(Flight(q), "write")
  /\ got' = [p \in Requests |-> IF p \in Flight(q) THEN got[q] ELSE got[p]]
  /\ NoFault
  /\ UNCHANGED <<table, cache, wpc, wrote, historyVars>>

\* The flight ends: leader and waiters get the same result.
Land(q) ==
  /\ pc[q] \in {"compile", "error"}
  /\ flying' = [flying EXCEPT ![Home[q]] = FALSE]
  /\ Goto(Flight(q), IF pc[q] = "error" THEN "skipped" ELSE "write")
  /\ got' = [p \in Requests |-> IF p \in Flight(q) THEN got[q] ELSE got[p]]
  /\ NoFault
  /\ UNCHANGED <<table, cache, wpc, wrote, historyVars>>

\* Cache the entry, unless there is no schema, and validate with it.
Write(q) == /\ pc[q] = "write"
            /\ cache' = IF got[q].live THEN [cache EXCEPT ![Home[q]] = got[q]] ELSE cache
            /\ Goto({q}, "done")
            /\ NoFault
            /\ UNCHANGED <<table, flying, got, wpc, wrote, historyVars>>

-----------------------------------------------------------------------------
\* HandleUpsert and HandleDelete.

\* Store.Upsert or Store.Delete; after an error, even one that follows the
\* commit, the handler answers 500 and does not invalidate.
Put(a, live) ==
  /\ wpc[a] = "idle"
  /\ \/ /\ table' = [n |-> table.n + 1, live |-> live]
        /\ \/ wpc' = [wpc EXCEPT ![a] = "invalidate"] /\ NoFault
           \/ wpc' = [wpc EXCEPT ![a] = "failed"] /\ Fault
        /\ wrote' = [wrote EXCEPT ![a] = table.n + 1]
     \/ /\ wpc' = [wpc EXCEPT ![a] = "failed"] /\ Fault
        /\ UNCHANGED <<table, wrote>>
  /\ UNCHANGED <<cache, requestVars, historyVars>>

StaleFill(q, a) == /\ Home[q] = Home[a] /\ pc[q] \in {"compile", "write"}
                   /\ got[q].n < wrote[a]

Answered(a) ==
  /\ answered' = [answered EXCEPT ![Home[a]] = IF wrote[a] > @ THEN wrote[a] ELSE @]
  /\ raced' = [raced EXCEPT ![Home[a]] = @ \/ \E q \in Requests : StaleFill(q, a)]

\* A wrong Invalidate, for the mutants: the cache keeps its entry.
InvalidateNothing(a) ==
  /\ wpc[a] = "invalidate"
  /\ wpc' = [wpc EXCEPT ![a] = "answered"]
  /\ Answered(a)
  /\ NoFault
  /\ UNCHANGED <<table, cache, requestVars, wrote, floor>>

\* Invalidate, on the replica that served the write, and the answer.
Invalidate(a) ==
  /\ wpc[a] = "invalidate"
  /\ cache' = [cache EXCEPT ![Home[a]] = NoSchema]
  /\ wpc' = [wpc EXCEPT ![a] = "answered"]
  /\ Answered(a)
  /\ NoFault
  /\ UNCHANGED <<table, requestVars, wrote, floor>>

Step(q) == Lookup(q) \/ Do(q) \/ Get(q) \/ Land(q) \/ Write(q)

Next == \/ \E q \in Requests : Step(q)
        \/ \E a \in Writers : Invalidate(a) \/ \E live \in BOOLEAN : Put(a, live)

Spec == Init /\ [][Next]_vars

\* Handlers run to their end.
FairSpec == Spec /\ \A q \in Requests : WF_vars(Step(q))

-----------------------------------------------------------------------------
TypeOK ==
  /\ table \in Schema
  /\ cache \in [Replicas -> {NoSchema} \cup [n : Numbers, live : {TRUE}]]
  /\ flying \in [Replicas -> BOOLEAN]
  /\ pc \in [Requests -> {"idle", "do", "get", "compile", "error", "wait", "write",
                          "done", "skipped"}]
  /\ got \in [Requests -> Schema]
  /\ wpc \in [Writers -> {"idle", "invalidate", "answered", "failed"}]
  /\ wrote \in [Writers -> Numbers]
  /\ answered \in [Replicas -> Numbers] /\ floor \in [Requests -> Numbers]
  /\ raced \in [Replicas -> BOOLEAN]
  /\ faults \in 0 .. MaxFaults

Fresh(q) == pc[q] = "done" => got[q].n >= floor[q]

\* validator.go 113-163: an event that comes after its replica has answered a
\* write is validated with that write's schema or a later one, unless an
\* invalidation overlapped the fill of an older one there.  Nothing is said of
\* writes another replica has answered: their invalidations do not come here.
FreshUnlessRaced == \A q \in Requests : raced[Home[q]] \/ Fresh(q)

\* validator.go 119-163: every validation ends, also for those who wait for a
\* leader whose client hangs up.
EveryValidationEnds ==
  \A q \in Requests : (pc[q] = "do") ~> (pc[q] \in {"done", "skipped"})

-----------------------------------------------------------------------------
\* What the documents say of the registry and the code does not do.

\* handler.go 105, docs/tradeoffs.md 10: events after a write see its schema.
SubsequentUsesUpdated == \A q \in Requests : Fresh(q)

=============================================================================
