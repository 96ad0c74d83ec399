------------------------------ MODULE MCConsole ------------------------------
(***************************************************************************)
(* A small instance of Console.                                            *)
(***************************************************************************)
EXTENDS Console

=============================================================================
