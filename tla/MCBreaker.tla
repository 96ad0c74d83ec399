------------------------------ MODULE MCBreaker ------------------------------
(***************************************************************************)
(* A small instance of Breaker: two requests at a time, as many failures   *)
(* as open the breaker.                                                    *)
(***************************************************************************)
EXTENDS Breaker

=============================================================================
