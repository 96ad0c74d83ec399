------------------------------- MODULE Stream -------------------------------
(***************************************************************************)
(* The Redis stream "events" with its consumer group "workers", as         *)
(* internal/queue uses it: XADD (stream.go), XREADGROUP, XAUTOCLAIM,       *)
(* XPENDING and XACK (consumer.go).                                        *)
(*                                                                         *)
(* An entry is a slot of the stream; slots are filled in order, and the    *)
(* number of a slot plays the part of the entry's ID.  The entry carries   *)
(* what the group knows of it: "new" (after the group's last-delivered-id),*)
(* "pending" (in the pending list, idle for less than MinIdleTime), "idle" *)
(* (in the pending list for longer) or "acked" (removed from it).  n is    *)
(* the delivery counter of the pending list.  The stream is never trimmed. *)
(***************************************************************************)
EXTENDS Naturals, FiniteSets

CONSTANTS Events,         \* the payloads, one per uuid that buildEvent draws
          Malformed,      \* those that decodeEvent rejects: another producer's
          NoEvent,        \* what a free slot holds
          MaxStream,      \* bound: entries the stream can hold
          ReadCount       \* Count of XREADGROUP and XAUTOCLAIM: 10 in the code

ASSUME StreamAssumption == /\ MaxStream \in Nat
                           /\ ReadCount \in Nat \ {0}
                           /\ Malformed \subseteq Events
                           /\ NoEvent \notin Events

VARIABLE stream

Slots == 1 .. MaxStream

Entry == [ev : Events \cup {NoEvent}, n : Nat,
          st : {"free", "new", "pending", "idle", "acked"}]

StreamInit ==
  stream = [i \in Slots |-> [ev |-> NoEvent, n |-> 0, st |-> "free"]]

With(status) == {i \in Slots : stream[i].st \in status}

Used == With({"new", "pending", "idle", "acked"})

\* The pending entries list of the group.
Pel == With({"pending", "idle"})

\* The first k elements of a set of entries, in ID order.
First(k, S) == {i \in S : Cardinality({j \in S : j < i}) < k}

NewEntry(e) == [ev |-> e, n |-> 0, st |-> "new"]

\* The end of the stream: where the next entry goes.
End(i) == /\ stream[i].st = "free"
          /\ \A j \in Slots : j < i => stream[j].st # "free"

\* XADD.
XAdd(e) == \E i \in Slots : End(i) /\ stream' = [stream EXCEPT ![i] = NewEntry(e)]

\* XADD applied twice: go-redis sends a command again when the reply is lost.
XAddTwice(e) ==
  \E i, j \in Slots : /\ End(i) /\ j = i + 1 /\ stream[j].st = "free"
                      /\ stream' = [stream EXCEPT ![i] = NewEntry(e), ![j] = NewEntry(e)]

\* Hand entries to a consumer: XREADGROUP and XAUTOCLAIM both count a
\* delivery and restart the idle time.
Delivered(r) == [ev |-> r.ev, n |-> r.n + 1, st |-> "pending"]

Deliver(S) ==
  stream' = [i \in Slots |-> IF i \in S THEN Delivered(stream[i]) ELSE stream[i]]

\* Read: the next entries never delivered to the group.
NextNew == First(ReadCount, With({"new"}))

\* A wrong Reclaim, for the mutants: nothing is ever reclaimed.
NextIdleNever == {}

\* Another: entries are looked up in the stream, not in the pending list.
NextIdleAcked == First(ReadCount, With({"idle", "acked"}))

\* Reclaim: the first entries that have been pending for MinIdleTime.
NextIdle == First(ReadCount, With({"idle"}))

\* deliveryCounts: XPENDING over the ID range of the claimed entries, limited
\* to as many replies as there are claimed entries.  Whatever is pending in
\* that range is counted against the limit; a claimed entry that is not among
\* the replies has count 0 in the map.
DeliveryCounts(S) ==
  LET inRange == {i \in Pel : \E a, b \in S : a <= i /\ i <= b}
      replies == First(Cardinality(S), inRange)
  IN  [i \in Slots |-> IF i \in S \cap replies THEN stream[i].n ELSE 0]

\* XACK: out of the pending list; no error when it is not in it.
XAck(i) == stream' = [stream EXCEPT ![i].st = "acked"]

\* An entry nobody acknowledged for MinIdleTime can be claimed.
BecomeIdle(i) == /\ stream[i].st = "pending"
                 /\ stream' = [stream EXCEPT ![i].st = "idle"]

=============================================================================
