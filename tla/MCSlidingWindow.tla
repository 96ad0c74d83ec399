--------------------------- MODULE MCSlidingWindow ---------------------------
(***************************************************************************)
(* A small instance of SlidingWindow: two requests at a time.              *)
(***************************************************************************)
EXTENDS SlidingWindow

=============================================================================
