------------------------------- MODULE Sender -------------------------------
(***************************************************************************)
(* web/src/components/EventSender.tsx with the RateLimitBanner, and the    *)
(* flag isPipelining of App.  A handler runs up to its await, and on when  *)
(* the answer is there, even if its component has been unmounted: then it  *)
(* only reaches App.  What it tells the request log is left out.           *)
(***************************************************************************)
EXTENDS Naturals, Sequences, SequencesExt

CONSTANT MaxRetryAfter    \* bound: rateLimitSeconds

ASSUME SenderAssumption == MaxRetryAfter \in Nat \ {0}

VARIABLES sender,         \* the state of the component
          sends,          \* the handlers that await an answer
          pipelining      \* isPipelining

senderVars == <<sender, sends, pipelining>>

\* useState, with the pending timers of flash and batchFlash; lock is what the
\* banner of rateLimitSeconds has left.
FreshSender == [sending |-> FALSE, flash |-> "none", batchFlash |-> "none", lock |-> 0,
                flashTimers |-> 0, batchTimers |-> 0]

SenderInit == sender = FreshSender /\ sends = <<>> /\ pipelining = FALSE

\* The handlers, and how what they call ends: flush() and trackBatch() never
\* throw (module Batcher), fetch() may.
Outcomes(kind) == CASE kind \in {"single", "batch"} -> {"sent", "limited", "failed"}
                    [] kind = "duplicate" -> {"both accepted", "other"}
                    [] kind = "badKey" -> {"other"}

Kinds == {"single", "batch", "duplicate", "badKey"}

-----------------------------------------------------------------------------
\* A wrong MaySend, for the mutants: batches ignore the rate limit.
MaySendAnyBatch(kind) == ~sender.sending /\ (kind = "single" => sender.lock = 0)

\* The first lines of the handlers, and disabled of their buttons.
MaySend(kind) == ~sender.sending /\ (kind \in {"single", "batch"} => sender.lock = 0)

\* handleSendSingle, handleSendBatch, handleDuplicateDemo and
\* handleAuthFailureDemo, up to the await.
HandleSend(kind) ==
  /\ MaySend(kind)
  /\ sender' = [sender EXCEPT
       !.sending = TRUE,
       !.flash = IF kind \in {"single", "duplicate"} THEN "none" ELSE @,
       !.batchFlash = IF kind = "batch" THEN "none" ELSE @]
  /\ sends' = Append(sends, [kind |-> kind, live |-> TRUE])
  /\ pipelining' = TRUE

\* setFlash or setBatchFlash, and the timer that takes it back.
Flashed(s, kind, what) ==
  IF kind = "batch" THEN [s EXCEPT !.batchFlash = what, !.batchTimers = @ + 1]
                    ELSE [s EXCEPT !.flash = what, !.flashTimers = @ + 1]

\* What the handlers do with the answer.
Concluded(s, kind, outcome, secs) ==
  CASE outcome = "sent"          -> Flashed(s, kind, "success")
    [] outcome = "limited"       -> [s EXCEPT !.lock = secs]
    [] outcome = "failed"        -> Flashed(s, kind, "error")
    [] outcome = "both accepted" -> Flashed(s, kind, "idempotent")
    [] outcome = "other"         -> s

\* And finally.
FinishSend(i, outcome, secs) ==
  /\ outcome \in Outcomes(sends[i].kind) /\ (outcome = "limited") = (secs > 0)
  /\ sender' = IF sends[i].live
               THEN [Concluded(sender, sends[i].kind, outcome, secs) EXCEPT !.sending = FALSE]
               ELSE sender
  /\ sends' = RemoveAt(sends, i)
  /\ pipelining' = FALSE

-----------------------------------------------------------------------------
\* A timer takes back whatever is flashed: nobody cancels it when a newer
\* flash is shown.
FlashTimer == /\ sender.flashTimers > 0
              /\ sender' = [sender EXCEPT !.flash = "none", !.flashTimers = @ - 1]
              /\ UNCHANGED <<sends, pipelining>>

BatchTimer == /\ sender.batchTimers > 0
              /\ sender' = [sender EXCEPT !.batchFlash = "none", !.batchTimers = @ - 1]
              /\ UNCHANGED <<sends, pipelining>>

\* A wrong Countdown, for the mutants: the last second does not end.
CountdownStops(n) == IF n <= 1 THEN n ELSE n - 1

\* setRemaining: the last second calls onExpire.
Countdown(n) == IF n <= 1 THEN 0 ELSE n - 1

BannerTick == /\ sender.lock > 0
              /\ sender' = [sender EXCEPT !.lock = Countdown(@)]
              /\ UNCHANGED <<sends, pipelining>>

\* The component is unmounted: its state is gone, its handlers go on.
SenderUnmounted ==
  /\ sender' = FreshSender
  /\ sends' = [i \in DOMAIN sends |-> [sends[i] EXCEPT !.live = FALSE]]
  /\ UNCHANGED pipelining

=============================================================================
