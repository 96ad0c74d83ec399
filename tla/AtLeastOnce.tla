----------------------------- MODULE AtLeastOnce ----------------------------
(***************************************************************************)
(* What the ingestion pipeline promises of the entries of its stream,      *)
(* without requests, goroutines, deliveries or faults: an entry that is    *)
(* taken in becomes durable, then it is acknowledged, and nothing of this  *)
(* is ever undone.  Pipeline implements it.                                *)
(***************************************************************************)
CONSTANT Entries

VARIABLES accepted,       \* the entries taken in
          settled,        \* those whose event is stored or dead-lettered
          acked           \* those nobody will look at again

vars == <<accepted, settled, acked>>

Init == accepted = {} /\ settled = {} /\ acked = {}

\* New entries; some may repeat an event that is stored already.
Accept == \E S \in SUBSET (Entries \ accepted) : \E T \in SUBSET S :
            /\ accepted' = accepted \cup S
            /\ settled' = settled \cup T
            /\ UNCHANGED acked

\* Entries become durable: one row may settle several of them.
Settle == \E S \in SUBSET accepted :
            /\ settled' = settled \cup S
            /\ UNCHANGED <<accepted, acked>>

\* A durable entry is acknowledged.
Ack == \E i \in settled : /\ acked' = acked \cup {i}
                          /\ UNCHANGED <<accepted, settled>>

Next == Accept \/ Settle \/ Ack

Spec == Init /\ [][Next]_vars

=============================================================================
