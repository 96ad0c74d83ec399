----------------------------- MODULE MCAnalytics -----------------------------
(***************************************************************************)
(* A small instance of Analytics.                                          *)
(***************************************************************************)
EXTENDS Analytics

E(name, user, at) == [name |-> name, user |-> user, at |-> at]

\* Steps of one user within the window, out of it and at once, on the edge of
\* two buckets, on three days, by nobody, and in the future of the browser.
SomeEvents == {E("view", "u", 2), E("view", "u", 5), E("click", "u", 5), E("buy", "u", 7),
               E("click", "v", 6), E("buy", Anonymous, 8), E("view", "v", 9)}

\* Each makes another user the top one.
TwoEvents == {E("view", "u", 2), E("view", "v", 2)}

ThreeSteps == <<"view", "click", "buy">>

=============================================================================
