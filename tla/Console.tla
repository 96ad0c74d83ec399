------------------------------ MODULE Console -------------------------------
(***************************************************************************)
(* The EventSender (module Sender) with its tabs for webhooks and schemas  *)
(* (module Panels) inside the "Send & Monitor" tab of App: what a user     *)
(* clicks, and the answers and timers that follow in any order.            *)
(***************************************************************************)
EXTENDS Sender, Panels

CONSTANT MaxClicks        \* bound: what the user does

ASSUME ConsoleAssumption == MaxClicks \in Nat

VARIABLES shown,          \* the tab of App is mounted
          clicks          \* what the user has done so far

vars == <<senderVars, panelVars, shown, clicks>>

Init == SenderInit /\ PanelsInit /\ shown = TRUE /\ clicks = 0

Click == clicks < MaxClicks /\ clicks' = clicks + 1

-----------------------------------------------------------------------------
\* The user.
LeaveTab == /\ Click /\ shown /\ shown' = FALSE
            /\ SenderUnmounted /\ Unmount

EnterTab == /\ Click /\ ~shown /\ shown' = TRUE
            /\ UNCHANGED <<senderVars, panelVars>>

OpenPanel(kind) == /\ Click /\ shown /\ panel.kind # kind
                   /\ Mount(kind)
                   /\ UNCHANGED <<senderVars, shown>>

ClosePanel == /\ Click /\ shown /\ panel.kind # "closed"
              /\ Unmount
              /\ UNCHANGED <<senderVars, shown>>

\* The buttons for sending are on the tabs "single" and "batch".
Send(kind) == /\ Click /\ shown /\ panel.kind = "closed"
              /\ HandleSend(kind)
              /\ UNCHANGED <<panelVars, shown>>

UsePanel == /\ Click /\ shown
            /\ \/ HandleCreate \/ HandleRegisterInvalid
               \/ \E n \in SchemaNames, mode \in Modes : HandleRegister(n, mode)
               \/ \E id \in Ids : HandleDelete(id)
               \/ \E n \in SchemaNames : HandleTestViolation(n)
            /\ UNCHANGED <<senderVars, shown>>

-----------------------------------------------------------------------------
\* Answers and timers.
Finish == /\ \E i \in DOMAIN sends, secs \in 0 .. MaxRetryAfter :
               \E outcome \in Outcomes(sends[i].kind) : FinishSend(i, outcome, secs)
          /\ UNCHANGED <<panelVars, shown, clicks>>

SenderTimer == /\ FlashTimer \/ BatchTimer
               /\ UNCHANGED <<panelVars, shown, clicks>>

LockTimer == BannerTick /\ UNCHANGED <<panelVars, shown, clicks>>

Api == /\ \E i \in DOMAIN calls : Serve(i)
       /\ UNCHANGED <<senderVars, shown, clicks>>

PanelAnswer == /\ \E i \in DOMAIN calls : Answer(i)
               /\ UNCHANGED <<senderVars, shown, clicks>>

PanelTimer == /\ ErrorTimer \/ \E n \in SchemaNames : RowTimer(n)
              /\ UNCHANGED <<senderVars, shown, clicks>>

Next == \/ LeaveTab \/ EnterTab \/ ClosePanel
        \/ \E kind \in {"webhooks", "schemas"} : OpenPanel(kind)
        \/ \E kind \in Kinds : Send(kind)
        \/ UsePanel
        \/ Finish \/ SenderTimer \/ LockTimer \/ Api \/ PanelAnswer \/ PanelTimer

Spec == Init /\ [][Next]_vars

\* Every request is answered or fails, and timers fire.
FairSpec == /\ Spec
            /\ WF_vars(Finish) /\ WF_vars(SenderTimer) /\ WF_vars(LockTimer)
            /\ WF_vars(Api) /\ WF_vars(PanelAnswer) /\ WF_vars(PanelTimer)

-----------------------------------------------------------------------------
\* EventSender.tsx 76-197, WebhookPanel.tsx 39-91, SchemaPanel.tsx 49-84 and
\* 162-221: the send, save and test buttons are disabled exactly while a request
\* of theirs is under way, a delete button only while one is (a second deletion
\* takes over the one slot and enables the first button again); the pipeline is
\* not lit when nothing is being sent, although handlers outlive components.
BusyFlagsAreTrue ==
  LET Live(what) == {i \in DOMAIN calls : calls[i].live /\ calls[i].what = what} IN
  /\ sender.sending = (\E i \in DOMAIN sends : sends[i].live)
  /\ pipelining => sends # <<>>
  /\ panel.busy = (Live("save") # {})
  /\ panel.deleting # None => \E i \in Live("delete") : calls[i].id = panel.deleting
  /\ \A n \in SchemaNames :
       panel.rows[n].testing = (\E i \in Live("test") : calls[i].id = n)

\* EventSender.tsx 82 and 119: while the rate limit is counted down nothing is
\* being sent through the SDK from this component.
LockoutHolds == sender.lock > 0 =>
  \A i \in DOMAIN sends : sends[i].live => sends[i].kind \in {"duplicate", "badKey"}

\* WebhookPanel.tsx 26-91, SchemaPanel.tsx 149-221: a schema is never listed
\* twice; and when no answer is outstanding the list is what the API has,
\* without duplicates, unless a change overlapped the load or the opposite
\* change, the load failed, or an answer was lost.  Only this browser changes
\* the rows here: what another client of the project creates or deletes is not
\* listed before the panel is opened again.
ListIsServer ==
  LET ids == [i \in DOMAIN panel.list |-> panel.list[i].id] IN
  /\ panel.kind = "schemas" => IsInjective(ids)
  /\ panel.kind # "closed" /\ clean /\ calls = <<>> =>
       IsInjective(ids) /\ Range(panel.list) = server[panel.kind]

\* EventSender.tsx 97-112, RateLimitBanner.tsx 13-28, WebhookPanel.tsx 85-90,
\* SchemaPanel.tsx 80-83: when the user stops, everything transient goes: the
\* lockout, flashes, results and errors with a timer, and all busy marks.
ConsoleSettles ==
  <>[](/\ sender = FreshSender /\ ~pipelining
       /\ ~panel.busy /\ panel.deleting = None /\ ~panel.deleteError
       /\ panel.rows = [n \in SchemaNames |-> FreshRow])

=============================================================================
