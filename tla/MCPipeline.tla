----------------------------- MODULE MCPipeline -----------------------------
(***************************************************************************)
(* Instances of Pipeline for TLC.                                          *)
(***************************************************************************)
EXTENDS Pipeline, TLC

CONSTANTS a, b, c, d, g, x, q1, q2, q3, k, u, w1, w2, p1, p2

\* A request with one event; the client's repetition of it, in a batch with
\* another event; and a batch whose second event may be invalid.
Repeated == [q \in Requests |-> CASE q = q1 -> <<a>> [] q = q2 -> <<b, c>> [] q = q3 -> <<g, d>>]

OneEvent == [q \in Requests |-> <<a>>]

\* b is a sent again, with the same idempotency key; the others have none.
RepeatedKey == [e \in Events |-> IF e \in {a, b} THEN k ELSE NoKey]

NoKeys == [e \in Events |-> NoKey]

\* a has a user, the others are anonymous.
UserOfA == [e \in Events |-> IF e = a THEN u ELSE NoUser]

OneProcess == [w \in Workers |-> p1]
TwoProcesses == [w \in Workers |-> IF w = w1 THEN p1 ELSE p2]

Goroutines == Permutations(Workers)

=============================================================================
