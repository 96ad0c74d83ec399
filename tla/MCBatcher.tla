------------------------------ MODULE MCBatcher -----------------------------
(***************************************************************************)
(* A small instance of Batcher: three events, one call of trackBatch and   *)
(* one of flush.                                                           *)
(***************************************************************************)
EXTENDS Batcher

=============================================================================
