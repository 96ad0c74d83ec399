---------------------------- MODULE MCDispatcher -----------------------------
(***************************************************************************)
(* Small instances of Dispatcher.                                          *)
(***************************************************************************)
EXTENDS Dispatcher

\* Every subscription takes every event.
NoFilter == Subs \X Events

=============================================================================
