------------------------------ MODULE Polling -------------------------------
(***************************************************************************)
(* web/src/hooks/usePolledResource.ts, the hook through which every card   *)
(* of the dashboard reads the API, and web/src/lib/connection.ts, the      *)
(* store behind the banner "API unreachable".                              *)
(*                                                                         *)
(* JavaScript is single-threaded: an action is what runs from one await or *)
(* timer to the next.  A poll in flight is first served by the API (or     *)
(* fails) and lands in the browser later; polls are not ordered.  Those of *)
(* an effect that was cleaned up are cancelled: whatever they return is    *)
(* ignored, so they are dropped at once.                                   *)
(***************************************************************************)
EXTENDS Naturals, Sequences, SequencesExt

CONSTANTS Resources,      \* the uses of the hook
          ReadsData,      \* those whose component keeps reading data
          ReadsStatus,    \* those whose component reads status
          NoData,         \* null
          MaxFlights      \* bound: polls in flight of one resource

ASSUME PollingAssumption == /\ MaxFlights \in Nat \ {0}
                            /\ ReadsData \cup ReadsStatus \subseteq Resources

VARIABLES res,            \* the state of each use of the hook
          online,         \* isOnline
          up              \* the API can be reached and answers 2xx

pollingVars == <<res, online, up>>

\* useState: data, status and what the current effect has in flight.
Fresh == [data |-> NoData, status |-> "idle", flights |-> <<>>]

\* A poll in flight: its question, then its answer.
Asked(q) == [at |-> "asked", ask |-> q, got |-> NoData]

PollingInit == res = [r \in Resources |-> Fresh] /\ online = TRUE /\ up = TRUE

\* The effect runs (again): what was in flight is cancelled, and poll() is
\* called at once.
Started(s, q) == [s EXCEPT !.flights = <<Asked(q)>>]

\* The component is mounted with the hook's initial state.
Mounted(q) == Started(Fresh, q)

\* reportSuccess and reportFailure.
Report(status) == online' = status

\* The ConnectionBanner "API unreachable" is shown.
Banner == ~online

\* The interval of r fires.
Tick(r, q) ==
  /\ Len(res[r].flights) < MaxFlights
  /\ res' = [res EXCEPT ![r].flights = Append(@, Asked(q))]
  /\ UNCHANGED <<online, up>>

\* A wrong Refetch, for the mutants: the polls in flight are not cancelled.
RefetchKeeps(r, q) == Tick(r, q)

\* refetch: triggerCount restarts the effect.
Refetch(r, q) ==
  /\ res' = [res EXCEPT ![r] = Started(@, q)]
  /\ UNCHANGED <<online, up>>

\* The API answers the i-th poll of r in flight with v, or the poll fails.
Serve(r, i, v) ==
  /\ res[r].flights[i].at = "asked"
  /\ res' = [res EXCEPT ![r].flights[i] = [at  |-> IF up THEN "ok" ELSE "failed",
                                            ask |-> {},
                                            got |-> IF up THEN v ELSE NoData]]
  /\ UNCHANGED <<online, up>>

\* What poll() does with the answer; what nobody reads is not kept.
Landed(r, s, i) ==
  LET f == s.flights[i] IN
  [data    |-> IF f.at = "ok" /\ r \in ReadsData THEN f.got ELSE s.data,
   status  |-> IF r \notin ReadsStatus THEN s.status
               ELSE IF f.at = "ok" THEN "ok" ELSE "error",
   flights |-> RemoveAt(s.flights, i)]

\* A wrong Land, for the mutants: a success is not reported.
LandSilently(r, i) ==
  /\ res[r].flights[i].at # "asked"
  /\ res' = [res EXCEPT ![r] = Landed(r, @, i)]
  /\ online' = (online /\ res[r].flights[i].at = "ok")
  /\ UNCHANGED up

Land(r, i) == /\ res[r].flights[i].at # "asked"
              /\ res' = [res EXCEPT ![r] = Landed(r, @, i)]
              /\ Report(res[r].flights[i].at = "ok")
              /\ UNCHANGED up

\* The API, or the way to it, fails and recovers.
Weather == /\ up' = ~up
           /\ UNCHANGED <<res, online>>

=============================================================================
