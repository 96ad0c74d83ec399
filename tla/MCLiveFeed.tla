----------------------------- MODULE MCLiveFeed ------------------------------
(***************************************************************************)
(* A small instance of LiveFeed.                                           *)
(***************************************************************************)
EXTENDS LiveFeed

\* No filter, and one that lets only the first event through.
FirstOrAll == {Events, {1}}

\* The second is a part of the name of event 1, which the API finds nothing for.
PartOfName == [m \in FirstOrAll |-> IF m = Events THEN Events ELSE {}]

=============================================================================
