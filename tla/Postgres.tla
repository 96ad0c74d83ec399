------------------------------ MODULE Postgres ------------------------------
(***************************************************************************)
(* The tables the ingestion path writes, one operator per SQL statement of *)
(* internal/events/store.go, internal/webhooks/store.go (EnqueueDeliveries)*)
(* and internal/worker/worker.go (deadLetter).  A statement is atomic.     *)
(*                                                                         *)
(* One project, one event name, one day and one matching subscription:     *)
(* daily[i] is what the entry i of the stream has added to the bucket of   *)
(* daily_event_counts, and hooks holds the event_id of each                *)
(* webhook_deliveries row.                                                 *)
(***************************************************************************)
EXTENDS Stream, Sequences

CONSTANTS Keys, NoKey,    \* idempotency keys; NoKey is the NULL of the column
          Key,            \* Key[e]: the idempotency key of an event
          Users, NoUser,  \* user ids; NoUser is the empty user_id
          User            \* User[e]: the user of an event

ASSUME KeyAssumption == Key \in [Events -> Keys \cup {NoKey}] /\ NoKey \notin Keys
ASSUME UserAssumption == User \in [Events -> Users \cup {NoUser}] /\ NoUser \notin Users

VARIABLES rows,           \* events: the ids of the stored events
          daily,          \* daily_event_counts, split by the entry counted
          active,         \* daily_active_users: the users of the day
          hooks,          \* webhook_deliveries
          dlq             \* dead_letter_events: rows inserted for each entry

tables == <<rows, daily, active, hooks, dlq>>

PostgresInit == /\ rows = {}
                /\ daily = [i \in Slots |-> 0]
                /\ active = {}
                /\ hooks = {}
                /\ dlq = [i \in Slots |-> 0]

\* The primary key on id and the partial unique index on (project_id,
\* idempotency_key), which ignores NULL keys.
Conflicts(e, f) == e = f \/ (Key[e] # NoKey /\ Key[e] = Key[f])

\* Some row stands for e: e itself, or an earlier event with its key.
Stored(e) == \E f \in rows : Conflicts(e, f)

\* Store and BatchStore: INSERT ... ON CONFLICT DO NOTHING for each event of
\* the sequence, in one transaction.
InsertEvents(s) ==
  rows' = rows \cup {s[i] : i \in {j \in DOMAIN s :
                        /\ ~Stored(s[j])
                        /\ \A k \in DOMAIN s : k < j => ~Conflicts(s[k], s[j])}}

\* EnqueueDeliveries: one row per (subscription, event_id).
EnqueueDeliveries(e) == hooks' = hooks \cup {e}

\* UpsertDailyCount: INSERT 1, or count + 1.
UpsertDailyCount(i) == daily' = [daily EXCEPT ![i] = @ + 1]

\* UpsertDailyActiveUser: anonymous events are skipped; ON CONFLICT DO NOTHING.
UpsertDailyActiveUser(e) == active' = active \cup ({User[e]} \ {NoUser})

\* deadLetter's INSERT: no key, no conflict.
InsertDeadLetter(i) == dlq' = [dlq EXCEPT ![i] = @ + 1]

=============================================================================
