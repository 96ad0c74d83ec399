------------------------------- MODULE Faults -------------------------------
(***************************************************************************)
(* The faults of the environment: a failed or ambiguous call to Redis or   *)
(* PostgreSQL, a crash, a termination signal, a call that takes longer     *)
(* than MinIdleTime.  Every such step spends one unit of a budget, so a    *)
(* behaviour has at most MaxFaults of them, in any order and any place.    *)
(***************************************************************************)
EXTENDS Naturals

CONSTANT MaxFaults        \* how many faults one behaviour may have

ASSUME MaxFaultsAssumption == MaxFaults \in Nat

VARIABLE faults           \* how many it has had

Fault == faults < MaxFaults /\ faults' = faults + 1

NoFault == UNCHANGED faults

=============================================================================
