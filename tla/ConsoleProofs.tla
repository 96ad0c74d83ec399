---------------------------- MODULE ConsoleProofs ---------------------------
(***************************************************************************)
(* Proofs about the console of the dashboard, for every number of clicks,  *)
(* schemas and webhooks.                                                   *)
(***************************************************************************)
EXTENDS Console, FiniteSetTheorems, WellFoundedInduction, TLAPS

Handler == [kind : Kinds, live : BOOLEAN]

Flashes == {"none", "success", "error", "idempotent"}

SenderState == [sending : BOOLEAN, flash : Flashes, batchFlash : Flashes, lock : Nat,
                flashTimers : Nat, batchTimers : Nat]

SenderType == sender \in SenderState /\ sends \in Seq(Handler) /\ pipelining \in BOOLEAN

\* The button that is disabled while a handler awaits its answer admits no
\* second one.
OneLiveSend ==
  /\ \A i, j \in DOMAIN sends : sends[i].live /\ sends[j].live => i = j
  /\ sender.sending = TRUE <=> \E i \in DOMAIN sends : sends[i].live

PipeIsSending == pipelining => sends # <<>>

SenderInv == SenderType /\ OneLiveSend /\ PipeIsSending /\ LockoutHolds

-----------------------------------------------------------------------------
\* RemoveAt of the sequence module: the others keep their order.
LEMMA RemoveAtFacts ==
  ASSUME NEW S, NEW s \in Seq(S), NEW i \in DOMAIN s
  PROVE  /\ RemoveAt(s, i) \in Seq(S)
         /\ Len(RemoveAt(s, i)) = Len(s) - 1
         /\ \A k \in DOMAIN RemoveAt(s, i) :
              RemoveAt(s, i)[k] = s[IF k < i THEN k ELSE k + 1]
<1>1. i \in 1 .. Len(s) /\ Len(s) \in Nat OBVIOUS
<1>2. PICK a : a = SubSeq(s, 1, i - 1) OBVIOUS
<1>3. PICK b : b = SubSeq(s, i + 1, Len(s)) OBVIOUS
<1>4. a \in Seq(S) /\ Len(a) = i - 1 /\ \A k \in 1 .. i - 1 : a[k] = s[k] BY <1>1, <1>2
<1>5. b \in Seq(S) /\ Len(b) = Len(s) - i /\ \A k \in 1 .. Len(s) - i : b[k] = s[k + i]
  BY <1>1, <1>3
<1>6. RemoveAt(s, i) = a \o b BY <1>2, <1>3 DEF RemoveAt
<1>7. a \o b \in Seq(S) /\ Len(a \o b) = Len(s) - 1 BY <1>1, <1>4, <1>5
<1>8. ASSUME NEW k \in DOMAIN (a \o b) PROVE (a \o b)[k] = s[IF k < i THEN k ELSE k + 1]
  <2>1. k \in 1 .. Len(s) - 1 BY <1>7
  <2>2. CASE k < i
    <3>1. (a \o b)[k] = s[k] BY <1>1, <1>4, <1>5, <2>1, <2>2
    <3> QED BY <2>2, <3>1
  <2>3. CASE ~(k < i)
    <3>1. (a \o b)[k] = b[k - (i - 1)] BY <1>1, <1>4, <1>5, <2>1, <2>3
    <3>2. PICK m \in 1 .. Len(s) - i : m = k - (i - 1) BY <1>1, <2>1, <2>3
    <3>3. b[m] = s[m + i] BY <1>5
    <3>4. m + i = k + 1 BY <1>1, <2>1, <3>2
    <3>5. (a \o b)[k] = s[k + 1] BY <3>1, <3>2, <3>3, <3>4
    <3> QED BY <2>3, <3>5
  <2> QED BY <2>2, <2>3
<1> QED BY <1>6, <1>7, <1>8

\* EventSender.tsx 88-205: the answer of a handler ends the lock of its button.
LEMMA ConcludedFacts ==
  ASSUME NEW s \in SenderState, NEW kind \in Kinds, NEW outcome \in Outcomes(kind),
         NEW secs \in Nat
  PROVE  /\ [Concluded(s, kind, outcome, secs) EXCEPT !.sending = FALSE] \in SenderState
         /\ [Concluded(s, kind, outcome, secs) EXCEPT !.sending = FALSE].sending = FALSE
<1>1. ASSUME NEW what \in Flashes PROVE Flashed(s, kind, what) \in SenderState
  <2>1. s.batchTimers + 1 \in Nat /\ s.flashTimers + 1 \in Nat BY DEF SenderState
  <2>2. CASE kind = "batch" BY <2>1, <2>2 DEF Flashed, SenderState
  <2>3. CASE kind # "batch" BY <2>1, <2>3 DEF Flashed, SenderState
  <2> QED BY <2>2, <2>3
<1>2. outcome \in {"sent", "limited", "failed", "both accepted", "other"}
  <2>1. CASE kind \in {"single", "batch"} BY <2>1 DEF Outcomes
  <2>2. CASE kind = "duplicate" BY <2>2 DEF Outcomes
  <2>3. CASE kind = "badKey" BY <2>3 DEF Outcomes
  <2> QED BY <2>1, <2>2, <2>3 DEF Kinds
<1>3. Concluded(s, kind, outcome, secs) \in SenderState
  <2>1. [s EXCEPT !.lock = secs] \in SenderState BY DEF SenderState
  <2> QED BY <1>1, <1>2, <2>1 DEF Concluded, Flashes
<1> QED BY <1>3 DEF SenderState

-----------------------------------------------------------------------------
LEMMA SenderStarts == Init => SenderInv
<1> SUFFICES ASSUME Init PROVE SenderInv OBVIOUS
<1>1. sender = FreshSender /\ sends = <<>> /\ pipelining = FALSE BY DEF Init, SenderInit
<1>2. FreshSender \in SenderState /\ FreshSender.sending = FALSE /\ FreshSender.lock = 0
  BY DEF FreshSender, SenderState, Flashes
<1>3. <<>> \in Seq(Handler) /\ DOMAIN <<>> = {} OBVIOUS
<1>4. SenderType BY <1>1, <1>2, <1>3 DEF SenderType
<1>5. OneLiveSend /\ PipeIsSending /\ LockoutHolds
  BY <1>1, <1>2, <1>3 DEF OneLiveSend, PipeIsSending, LockoutHolds
<1> QED BY <1>4, <1>5 DEF SenderInv

\* EventSender.tsx 76-205: a button that may be clicked has no handler under way.
LEMMA SendKeeps ==
  ASSUME SenderInv, NEW kind \in Kinds, HandleSend(kind)
  PROVE  SenderInv'
<1>1. /\ sender \in SenderState /\ sends \in Seq(Handler) /\ Len(sends) \in Nat
      /\ DOMAIN sends = 1 .. Len(sends)
  BY DEF SenderInv, SenderType
<1>2. PICK h : h = [kind |-> kind, live |-> TRUE] OBVIOUS
<1>3. h \in Handler /\ h.live = TRUE /\ h.kind = kind BY <1>2 DEF Handler
<1>4. sends' = Append(sends, h) BY <1>2 DEF HandleSend
<1>5. /\ sends' \in Seq(Handler) /\ sends' # <<>> /\ DOMAIN sends' = 1 .. Len(sends) + 1
      /\ sends'[Len(sends) + 1] = h /\ \A i \in DOMAIN sends : sends'[i] = sends[i]
  BY <1>1, <1>3, <1>4
<1>6. /\ sender' \in SenderState /\ sender'.sending = TRUE /\ sender'.lock = sender.lock
  BY <1>1 DEF HandleSend, SenderState, Flashes
<1>7. sender.sending # TRUE /\ (kind \in {"single", "batch"} => sender.lock = 0)
  BY DEF HandleSend, MaySend
<1>8. \A i \in DOMAIN sends : ~sends[i].live BY <1>7 DEF SenderInv, OneLiveSend
<1>9. \A i \in DOMAIN sends' : sends'[i].live => i = Len(sends) + 1 BY <1>1, <1>5, <1>8
<1>10. SenderType' BY <1>5, <1>6 DEF HandleSend, SenderType
<1>11. OneLiveSend'
  <2>1. sends'[Len(sends) + 1].live /\ Len(sends) + 1 \in DOMAIN sends' BY <1>1, <1>3, <1>5
  <2> QED BY <1>6, <1>9, <2>1 DEF OneLiveSend
<1>12. PipeIsSending' BY <1>5 DEF PipeIsSending
<1>13. LockoutHolds' BY <1>3, <1>5, <1>6, <1>7, <1>9, <1>1 DEF LockoutHolds, Kinds, SenderState
<1> QED BY <1>10, <1>11, <1>12, <1>13 DEF SenderInv

\* EventSender.tsx 88-205: no other handler of the component is under way when
\* one sets the lockout; one that outlived its component sets nothing.
LEMMA FinishKeeps ==
  ASSUME SenderInv, NEW i \in DOMAIN sends, NEW secs \in Nat,
         NEW outcome \in Outcomes(sends[i].kind), FinishSend(i, outcome, secs)
  PROVE  SenderInv'
<1>1. /\ sender \in SenderState /\ sends \in Seq(Handler) /\ Len(sends) \in Nat
      /\ DOMAIN sends = 1 .. Len(sends) /\ sends[i] \in Handler
  BY DEF SenderInv, SenderType
<1>2. PICK s : s = sends OBVIOUS
<1>3. PICK r : r = RemoveAt(s, i) OBVIOUS
<1>4. s \in Seq(Handler) /\ i \in DOMAIN s BY <1>1, <1>2
<1>5. /\ r \in Seq(Handler) /\ Len(r) = Len(s) - 1
      /\ \A k \in DOMAIN r : r[k] = s[IF k < i THEN k ELSE k + 1]
  BY <1>3, <1>4, RemoveAtFacts
<1>6. sends' = r /\ pipelining' = FALSE BY <1>2, <1>3 DEF FinishSend
<1>7. DOMAIN r = 1 .. Len(s) - 1 /\ DOMAIN s = 1 .. Len(s) BY <1>4, <1>5
<1>8. \A k \in DOMAIN r : (IF k < i THEN k ELSE k + 1) \in DOMAIN s \ {i} BY <1>4, <1>7
<1>9. \A j \in DOMAIN s \ {i} : \E k \in DOMAIN r : r[k] = s[j]
  <2> SUFFICES ASSUME NEW j \in DOMAIN s \ {i} PROVE \E k \in DOMAIN r : r[k] = s[j] OBVIOUS
  <2>1. CASE j < i BY <1>4, <1>5, <1>7, <2>1
  <2>2. CASE j > i
    <3>1. j - 1 \in DOMAIN r /\ ~(j - 1 < i) /\ (j - 1) + 1 = j BY <1>4, <1>7, <2>2
    <3>2. r[j - 1] = s[j] BY <1>5, <3>1
    <3> QED BY <3>1, <3>2
  <2> QED BY <1>4, <1>7, <2>1, <2>2
<1>10. \A j, k \in DOMAIN s : s[j].live /\ s[k].live => j = k
  BY <1>2 DEF SenderInv, OneLiveSend
<1>11. \A j, k \in DOMAIN r : r[j].live /\ r[k].live => j = k
  <2> SUFFICES ASSUME NEW j \in DOMAIN r, NEW k \in DOMAIN r, r[j].live, r[k].live PROVE j = k
    OBVIOUS
  <2>1. PICK m : m = IF j < i THEN j ELSE j + 1 OBVIOUS
  <2>2. PICK n : n = IF k < i THEN k ELSE k + 1 OBVIOUS
  <2>3. m \in DOMAIN s /\ n \in DOMAIN s BY <1>8, <2>1, <2>2
  <2>4. r[j] = s[m] /\ r[k] = s[n] BY <1>5, <2>1, <2>2
  <2>5. m = n BY <1>10, <2>3, <2>4
  <2>6. i \in Nat /\ j \in Nat /\ k \in Nat BY <1>4, <1>7
  <2> QED BY <2>1, <2>2, <2>5, <2>6
<1>12. PipeIsSending' BY <1>6 DEF PipeIsSending
<1>13. CASE sends[i].live
  <2>1. sender' \in SenderState /\ sender'.sending = FALSE
    <3>1. sends[i].kind \in Kinds BY <1>1 DEF Handler
    <3>2. PICK o, k, q : o = outcome /\ k = sends[i].kind /\ q = sender OBVIOUS
    <3>3. sender' = [Concluded(q, k, o, secs) EXCEPT !.sending = FALSE]
      BY <1>13, <3>2 DEF FinishSend
    <3>4. q \in SenderState /\ k \in Kinds /\ o \in Outcomes(k) BY <1>1, <3>1, <3>2
    <3> QED BY <3>3, <3>4, ConcludedFacts
  <2>2. \A k \in DOMAIN r : ~r[k].live BY <1>2, <1>4, <1>5, <1>8, <1>10, <1>13
  <2>3. SenderType' BY <1>5, <1>6, <2>1 DEF SenderType
  <2>4. OneLiveSend' BY <1>6, <2>1, <2>2 DEF OneLiveSend
  <2>5. LockoutHolds' BY <1>6, <2>2 DEF LockoutHolds
  <2> QED BY <1>12, <2>3, <2>4, <2>5 DEF SenderInv
<1>14. CASE ~sends[i].live
  <2>1. sender' = sender BY <1>14 DEF FinishSend
  <2>2. SenderType' BY <1>1, <1>5, <1>6, <2>1 DEF SenderType
  <2>3. (\E k \in DOMAIN r : r[k].live) <=> (\E j \in DOMAIN s : s[j].live)
    <3>1. ASSUME NEW k \in DOMAIN r, r[k].live PROVE \E j \in DOMAIN s : s[j].live
      BY <1>5, <1>8, <3>1
    <3>2. ASSUME NEW j \in DOMAIN s, s[j].live PROVE \E k \in DOMAIN r : r[k].live
      BY <1>2, <1>9, <1>14, <3>2
    <3> QED BY <3>1, <3>2
  <2>4. OneLiveSend' BY <1>2, <1>6, <1>11, <2>1, <2>3 DEF SenderInv, OneLiveSend
  <2>5. LockoutHolds'
    <3>1. sender.lock > 0 => \A j \in DOMAIN s : s[j].live => s[j].kind \in {"duplicate", "badKey"}
      BY <1>2 DEF SenderInv, LockoutHolds
    <3> QED BY <1>5, <1>6, <1>8, <2>1, <3>1 DEF LockoutHolds
  <2> QED BY <1>12, <2>2, <2>4, <2>5 DEF SenderInv
<1> QED BY <1>13, <1>14

\* EventSender.tsx 97-101, 134-138, RateLimitBanner.tsx 13-28: a timer changes
\* what is shown, and the lockout only gets shorter.
LEMMA SenderTimerKeeps ==
  ASSUME SenderInv, FlashTimer \/ BatchTimer \/ BannerTick
  PROVE  SenderInv'
<1>1. sender \in SenderState /\ sends' = sends /\ pipelining' = pipelining
  BY DEF SenderInv, SenderType, FlashTimer, BatchTimer, BannerTick
<1>2. /\ sender' \in SenderState /\ sender'.sending = sender.sending
      /\ sender'.lock > 0 => sender.lock > 0
  <2>1. CASE FlashTimer
    <3>1. sender.flashTimers - 1 \in Nat BY <1>1, <2>1 DEF FlashTimer, SenderState
    <3> QED BY <1>1, <2>1, <3>1 DEF FlashTimer, SenderState, Flashes
  <2>2. CASE BatchTimer
    <3>1. sender.batchTimers - 1 \in Nat BY <1>1, <2>2 DEF BatchTimer, SenderState
    <3> QED BY <1>1, <2>2, <3>1 DEF BatchTimer, SenderState, Flashes
  <2>3. CASE BannerTick
    <3>1. Countdown(sender.lock) \in Nat BY <1>1 DEF Countdown, SenderState
    <3> QED BY <1>1, <2>3, <3>1 DEF BannerTick, SenderState
  <2> QED BY <2>1, <2>2, <2>3
<1> QED BY <1>1, <1>2
        DEF SenderInv, SenderType, OneLiveSend, PipeIsSending, LockoutHolds

\* EventSender.tsx 51-70: the handlers of a component that is unmounted are
\* nobody's.
LEMMA LeavingKeeps ==
  ASSUME SenderInv, SenderUnmounted
  PROVE  SenderInv'
<1>1. /\ sends \in Seq(Handler) /\ pipelining \in BOOLEAN /\ Len(sends) \in Nat
      /\ DOMAIN sends = 1 .. Len(sends) /\ \A i \in DOMAIN sends : sends[i] \in Handler
  BY DEF SenderInv, SenderType
<1>2. sender' = FreshSender /\ pipelining' = pipelining BY DEF SenderUnmounted
<1>3. FreshSender \in SenderState /\ FreshSender.sending = FALSE /\ FreshSender.lock = 0
  BY DEF FreshSender, SenderState, Flashes
<1>4. \A i \in DOMAIN sends : /\ [sends[i] EXCEPT !.live = FALSE] \in Handler
                              /\ [sends[i] EXCEPT !.live = FALSE].live = FALSE
  BY <1>1 DEF Handler
<1>5. /\ sends' \in Seq(Handler) /\ DOMAIN sends' = DOMAIN sends /\ Len(sends') = Len(sends)
      /\ \A i \in DOMAIN sends' : sends'[i].live = FALSE
  <2>1. PICK n \in Nat : n = Len(sends) /\ DOMAIN sends = 1 .. n BY <1>1
  <2>2. sends' = [i \in 1 .. n |-> [sends[i] EXCEPT !.live = FALSE]] BY <2>1 DEF SenderUnmounted
  <2>3. \A i \in 1 .. n : sends'[i] \in Handler /\ sends'[i].live = FALSE BY <1>4, <2>1, <2>2
  <2>4. sends' \in [1 .. n -> Handler] BY <2>2, <2>3
  <2>5. sends' \in Seq(Handler) /\ Len(sends') = n /\ DOMAIN sends' = 1 .. n BY <2>4
  <2> QED BY <2>1, <2>3, <2>5
<1>6. PipeIsSending'
  <2>1. pipelining => sends # <<>> BY DEF SenderInv, PipeIsSending
  <2>2. sends # <<>> => Len(sends) # 0 BY <1>1
  <2>3. Len(sends') # 0 => sends' # <<>> BY <1>5
  <2> QED BY <1>2, <1>5, <2>1, <2>2, <2>3 DEF PipeIsSending
<1>7. SenderType' BY <1>1, <1>2, <1>3, <1>5 DEF SenderType
<1>8. OneLiveSend' /\ LockoutHolds' BY <1>2, <1>3, <1>5 DEF OneLiveSend, LockoutHolds
<1> QED BY <1>6, <1>7, <1>8 DEF SenderInv

LEMMA SenderStep == SenderInv /\ [Next]_vars => SenderInv'
<1> SUFFICES ASSUME SenderInv, [Next]_vars PROVE SenderInv' OBVIOUS
<1>1. ASSUME UNCHANGED senderVars PROVE SenderInv'
  BY <1>1 DEF senderVars, SenderInv, SenderType, OneLiveSend, PipeIsSending, LockoutHolds
<1>2. CASE LeaveTab BY <1>2, LeavingKeeps DEF LeaveTab
<1>3. CASE EnterTab BY <1>1, <1>3 DEF EnterTab
<1>4. CASE ClosePanel BY <1>1, <1>4 DEF ClosePanel
<1>5. CASE \E kind \in {"webhooks", "schemas"} : OpenPanel(kind) BY <1>1, <1>5 DEF OpenPanel
<1>6. CASE \E kind \in Kinds : Send(kind) BY <1>6, SendKeeps DEF Send
<1>7. CASE UsePanel BY <1>1, <1>7 DEF UsePanel
<1>8. CASE Finish
  <2>1. PICK i \in DOMAIN sends, secs \in 0 .. MaxRetryAfter :
          \E outcome \in Outcomes(sends[i].kind) : FinishSend(i, outcome, secs)
    BY <1>8 DEF Finish
  <2>2. PICK outcome \in Outcomes(sends[i].kind) : FinishSend(i, outcome, secs) BY <2>1
  <2>3. secs \in Nat OBVIOUS
  <2> QED BY <2>2, <2>3, FinishKeeps
<1>9. CASE SenderTimer BY <1>9, SenderTimerKeeps DEF SenderTimer
<1>10. CASE LockTimer BY <1>10, SenderTimerKeeps DEF LockTimer
<1>11. CASE Api BY <1>1, <1>11 DEF Api
<1>12. CASE PanelAnswer BY <1>1, <1>12 DEF PanelAnswer
<1>13. CASE PanelTimer BY <1>1, <1>13 DEF PanelTimer
<1>14. CASE UNCHANGED vars BY <1>1, <1>14 DEF vars
<1> QED BY <1>2, <1>3, <1>4, <1>5, <1>6, <1>7, <1>8, <1>9, <1>10, <1>11, <1>12, <1>13, <1>14
        DEF Next

\* EventSender.tsx 82 and 119: in every behaviour, nothing goes out through the
\* SDK from this component while the rate limit is counted down.
THEOREM LockoutIsKept == Spec => []LockoutHolds
<1>1. SenderInv => LockoutHolds BY DEF SenderInv
<1> QED BY SenderStarts, SenderStep, <1>1, PTL DEF Spec

-----------------------------------------------------------------------------
\* The least-number principle, for sets.
LEMMA LeastNatural ==
  ASSUME NEW S \in SUBSET Nat, S # {}
  PROVE  \E n \in S : \A m \in S : n <= m
<1>1. PICK R : IsWellFoundedOn(R, Nat) /\ R = {ss \in Nat \X Nat : ss[1] < ss[2]}
  BY NatLessThanWellFounded DEF OpToRel
<1>2. PICK x \in S : \A y \in S : ~(<<y, x>> \in R) BY <1>1, WFMin
<1>3. x \in Nat OBVIOUS
<1>4. ASSUME NEW y \in S PROVE x <= y
  <2>1. y \in Nat /\ <<y, x>> \in Nat \X Nat OBVIOUS
  <2>2. ~(<<y, x>>[1] < <<y, x>>[2]) BY <1>1, <1>2, <2>1
  <2> QED BY <1>3, <2>1, <2>2
<1> QED BY <1>4

IsList(l) == \E S : l \in Seq(S)

\* A list shows no id twice.
InjIds(l) == \A i, j \in DOMAIN l : l[i].id = l[j].id => i = j

\* One step of the recursion of Filtered, and the function it defines on 0 .. n.
Keep(list, id, m, k) == IF list[m].id # id THEN Append(k, list[m]) ELSE k

Keeps(list, id, n, f) == f = [m \in 0 .. n |-> IF m = 0 THEN <<>> ELSE Keep(list, id, m, f[m - 1])]

\* The recursion of Filtered defines a function.
LEMMA KeepsExists ==
  ASSUME NEW list, NEW id, NEW n \in Nat
  PROVE  \E f : Keeps(list, id, n, f)
<1> DEFINE Bad == {m \in Nat : ~\E f : Keeps(list, id, m, f)}
<1>1. SUFFICES ASSUME Bad # {} PROVE FALSE OBVIOUS
<1>2. Bad \in SUBSET Nat OBVIOUS
<1>3. PICK b \in Bad : \A m \in Bad : b <= m
  <2> HIDE DEF Bad
  <2> QED BY <1>1, <1>2, LeastNatural
<1>4. b \in Nat /\ ~\E f : Keeps(list, id, b, f) OBVIOUS
<1>5. CASE b = 0
  <2>1. PICK f : f = [m \in 0 .. 0 |-> <<>>] OBVIOUS
  <2>2. f = [m \in 0 .. 0 |-> IF m = 0 THEN <<>> ELSE Keep(list, id, m, f[m - 1])] BY <2>1
  <2>3. Keeps(list, id, b, f) BY <1>5, <2>2 DEF Keeps
  <2> QED BY <1>4, <2>3
<1>6. CASE b # 0
  <2>1. b - 1 \in Nat /\ b - 1 < b BY <1>4, <1>6
  <2>2. ~(b - 1 \in Bad) BY <1>3, <1>4, <2>1
  <2>3. PICK f : Keeps(list, id, b - 1, f) BY <2>1, <2>2
  <2>4. f = [m \in 0 .. b - 1 |-> IF m = 0 THEN <<>> ELSE Keep(list, id, m, f[m - 1])]
    BY <2>3 DEF Keeps
  <2>5. PICK g : g = [m \in 0 .. b |-> IF m = b THEN Keep(list, id, b, f[b - 1]) ELSE f[m]]
    OBVIOUS
  <2>6. ASSUME NEW m \in 0 .. b
        PROVE  g[m] = IF m = 0 THEN <<>> ELSE Keep(list, id, m, g[m - 1])
    <3>1. CASE m = b
      <4>1. g[b - 1] = f[b - 1] BY <1>4, <1>6, <2>1, <2>5
      <4>2. g[m] = Keep(list, id, b, f[b - 1]) BY <2>5, <3>1
      <4> QED BY <1>6, <3>1, <4>1, <4>2
    <3>2. CASE m = 0 BY <1>4, <1>6, <2>4, <2>5, <3>2
    <3>3. CASE m # b /\ m # 0
      <4>1. m \in 0 .. b - 1 /\ m - 1 \in 0 .. b /\ m - 1 # b BY <1>4, <3>3
      <4>2. g[m] = f[m] /\ g[m - 1] = f[m - 1] BY <2>5, <3>3, <4>1
      <4>3. f[m] = Keep(list, id, m, f[m - 1]) BY <2>4, <3>3, <4>1
      <4> QED BY <3>3, <4>2, <4>3
    <3> QED BY <3>1, <3>2, <3>3
  <2>7. g = [m \in 0 .. b |-> IF m = 0 THEN <<>> ELSE Keep(list, id, m, g[m - 1])]
    BY <2>5, <2>6
  <2>8. Keeps(list, id, b, g) BY <2>7 DEF Keeps
  <2> QED BY <1>4, <2>8
<1> QED BY <1>5, <1>6

\* WebhookPanel.tsx 78, SchemaPanel.tsx 181 and 209: filter drops no other row
\* and adds none.
LEMMA FilteredFacts ==
  ASSUME NEW list, IsList(list), NEW id
  PROVE  /\ IsList(Filtered(list, id))
         /\ \A n : Has(list, n) /\ n # id => Has(Filtered(list, id), n)
         /\ Range(Filtered(list, id)) = {r \in Range(list) : r.id # id}
         /\ InjIds(list) => InjIds(Filtered(list, id))
<1>1. PICK S : list \in Seq(S) BY DEF IsList
<1>2. PICK L \in Nat : L = Len(list) /\ DOMAIN list = 1 .. L BY <1>1
<1>3. PICK f : f = CHOOSE k : Keeps(list, id, L, k) OBVIOUS
<1>4. Keeps(list, id, L, f) BY <1>2, <1>3, KeepsExists
<1>5. Filtered(list, id) = f[L] BY <1>2, <1>3 DEF Filtered, Keeps, Keep
<1>6. f[0] = <<>> /\ \A m \in 1 .. L : f[m] = Keep(list, id, m, f[m - 1])
  BY <1>2, <1>4 DEF Keeps
<1> DEFINE Good(n) == /\ f[n] \in Seq(S)
                      /\ \A j \in 1 .. n : list[j].id # id => \E k \in DOMAIN f[n] : f[n][k] = list[j]
                      /\ \A k \in DOMAIN f[n] :
                           \E j \in 1 .. n : f[n][k] = list[j] /\ list[j].id # id
                      /\ InjIds(list) => InjIds(f[n])
           Bad == {n \in 0 .. L : ~Good(n)}
<1>7. Bad = {}
  <2>1. SUFFICES ASSUME Bad # {} PROVE FALSE OBVIOUS
  <2>2. Bad \in SUBSET Nat OBVIOUS
  <2>3. PICK b \in Bad : \A m \in Bad : b <= m
    <3> HIDE DEF Bad
    <3> QED BY <2>1, <2>2, LeastNatural
  <2>4. b \in 0 .. L /\ ~Good(b) OBVIOUS
  <2>5. CASE b = 0
    <3>1. f[0] \in Seq(S) BY <1>6
    <3>2. 1 .. 0 = {} OBVIOUS
    <3>3. DOMAIN f[0] = {} BY <1>6
    <3>4. InjIds(f[0]) BY <3>3 DEF InjIds
    <3> QED BY <2>4, <2>5, <3>1, <3>2, <3>3, <3>4
  <2>6. CASE b # 0
    <3>1. b - 1 \in 0 .. L /\ b \in 1 .. L /\ ~(b <= b - 1) BY <1>2, <2>4, <2>6
    <3>2. Good(b - 1) BY <2>3, <3>1
    <3> HIDE DEF Good
    <3>3. PICK p : p = f[b - 1] OBVIOUS
    <3>4. p \in Seq(S) BY <3>2, <3>3 DEF Good
    <3>5. list[b] \in S BY <1>1, <1>2, <3>1
    <3>6. \A j \in 1 .. b - 1 : list[j].id # id => \E k \in DOMAIN p : p[k] = list[j]
      BY <3>2, <3>3 DEF Good
    <3>10. \A k \in DOMAIN p : \E j \in 1 .. b - 1 : p[k] = list[j] /\ list[j].id # id
      BY <3>2, <3>3 DEF Good
    <3>11. InjIds(list) => InjIds(p) BY <3>2, <3>3 DEF Good
    <3>12. \A j \in 1 .. b - 1 : j \in 1 .. b /\ j \in DOMAIN list /\ j # b BY <1>2, <3>1
    <3>7. f[b] = Keep(list, id, b, p) BY <1>6, <3>1, <3>3
    <3>8. CASE list[b].id # id
      <4>1. f[b] = Append(p, list[b]) BY <3>7, <3>8 DEF Keep
      <4>2. /\ f[b] \in Seq(S) /\ \A k \in DOMAIN p : k \in DOMAIN f[b] /\ f[b][k] = p[k]
            /\ \E k \in DOMAIN f[b] : f[b][k] = list[b]
        BY <3>4, <3>5, <4>1
      <4>3. \A j \in 1 .. b : j = b \/ j \in 1 .. b - 1 BY <1>2, <3>1
      <4>4. PICK e : e = Len(p) + 1 OBVIOUS
      <4>5. /\ DOMAIN f[b] = DOMAIN p \cup {e} /\ ~(e \in DOMAIN p) /\ f[b][e] = list[b]
        BY <3>4, <3>5, <4>1, <4>4
      <4>6. \A k \in DOMAIN f[b] : \E j \in 1 .. b : f[b][k] = list[j] /\ list[j].id # id
        <5>1. b \in 1 .. b BY <1>2, <3>1
        <5> QED BY <3>8, <3>10, <3>12, <4>2, <4>5, <5>1
      <4>7. ASSUME InjIds(list) PROVE InjIds(f[b])
        <5>1. b \in DOMAIN list BY <1>2, <3>1
        <5>2. \A k \in DOMAIN p : p[k].id # list[b].id
          BY <3>10, <3>12, <4>7, <5>1 DEF InjIds
        <5>3. InjIds(p) BY <3>11, <4>7
        <5> QED BY <4>2, <4>5, <5>2, <5>3 DEF InjIds
      <4> QED BY <2>4, <3>6, <4>2, <4>3, <4>6, <4>7 DEF Good
    <3>9. CASE list[b].id = id
      <4>1. f[b] = p BY <3>7, <3>9 DEF Keep
      <4>2. \A j \in 1 .. b : j = b \/ j \in 1 .. b - 1 BY <1>2, <3>1
      <4> QED BY <2>4, <3>4, <3>6, <3>9, <3>10, <3>11, <3>12, <4>1, <4>2 DEF Good
    <3> QED BY <3>8, <3>9
  <2> QED BY <2>5, <2>6
<1>8. Good(L)
  <2>1. L \in 0 .. L BY <1>2
  <2> QED BY <1>7, <2>1
<1>9. IsList(f[L]) BY <1>8 DEF IsList
<1>10. ASSUME NEW n, Has(list, n), n # id PROVE Has(f[L], n)
  <2>1. PICK j \in 1 .. L : list[j].id = n BY <1>2, <1>10 DEF Has
  <2>2. PICK k \in DOMAIN f[L] : f[L][k] = list[j] BY <1>8, <1>10, <2>1
  <2> QED BY <2>1, <2>2 DEF Has
<1>11. Range(f[L]) = {r \in Range(list) : r.id # id}
  <2>1. ASSUME NEW r \in Range(f[L]) PROVE r \in Range(list) /\ r.id # id
    <3>1. PICK k \in DOMAIN f[L] : f[L][k] = r BY DEF Range
    <3>2. PICK j \in 1 .. L : f[L][k] = list[j] /\ list[j].id # id BY <1>8
    <3> QED BY <1>2, <3>1, <3>2 DEF Range
  <2>2. ASSUME NEW r \in Range(list), r.id # id PROVE r \in Range(f[L])
    <3>1. PICK j \in 1 .. L : list[j] = r BY <1>2 DEF Range
    <3>2. PICK k \in DOMAIN f[L] : f[L][k] = list[j] BY <1>8, <2>2, <3>1
    <3> QED BY <3>1, <3>2 DEF Range
  <2> QED BY <2>1, <2>2
<1> QED BY <1>5, <1>8, <1>9, <1>10, <1>11

-----------------------------------------------------------------------------
Ats == {"asked", "ok", "failed", "202", "422"}

RowState == [testing : BOOLEAN, result : Ats \cup {"none"}, timers : Nat]

PanelFields == {"kind", "list", "busy", "deleting", "error", "deleteError", "errorTimers", "rows"}

CallFields == {"kind", "what", "id", "mode", "live", "at", "got"}

\* A list is whatever the API or the handlers made it, so a panel is typed up
\* to the rows that it lists, and a call up to those it got.
PanelType(p) == /\ DOMAIN p = PanelFields /\ p = [f \in PanelFields |-> p[f]]
                /\ IsList(p.list) /\ p.busy \in BOOLEAN
                /\ p.rows \in [SchemaNames -> RowState]

CallType(c) == /\ DOMAIN c = CallFields /\ c = [f \in CallFields |-> c[f]]
               /\ c.what \in {"load", "save", "delete", "test"}
               /\ c.live \in BOOLEAN /\ c.at \in Ats /\ IsList(c.got)
               /\ c.what = "load" => c.kind \in {"webhooks", "schemas"}
               /\ c.what = "test" => c.id \in SchemaNames

CallsType(cs) == IsList(cs) /\ \A i \in DOMAIN cs : CallType(cs[i])

ServerType == /\ DOMAIN server = {"webhooks", "schemas"}
              /\ server = [k \in DOMAIN server |-> server[k]]
              /\ \A kind \in {"webhooks", "schemas"} : IsFiniteSet(server[kind])

Waits(c, what) == c.live = TRUE /\ c.what = what

\* The button is disabled while its one save is under way.
SaveMatches(p, cs) ==
  /\ p.busy = TRUE <=> \E i \in DOMAIN cs : Waits(cs[i], "save")
  /\ \A i, j \in DOMAIN cs : Waits(cs[i], "save") /\ Waits(cs[j], "save") => i = j

\* The row that is marked is being deleted.
DeleteMatches(p, cs) ==
  p.deleting # None => \E i \in DOMAIN cs : Waits(cs[i], "delete") /\ cs[i].id = p.deleting

\* A test is under way at most once per row, and only while the row is listed.
TestsMatch(p, cs) ==
  /\ \A n \in SchemaNames :
       p.rows[n].testing = TRUE <=> \E i \in DOMAIN cs : Waits(cs[i], "test") /\ cs[i].id = n
  /\ \A i, j \in DOMAIN cs :
       Waits(cs[i], "test") /\ Waits(cs[j], "test") /\ cs[i].id = cs[j].id => i = j
  /\ \A i \in DOMAIN cs : Waits(cs[i], "test") => Has(p.list, cs[i].id)

PanelInv == /\ PanelType(panel) /\ CallsType(calls) /\ ServerType
            /\ SaveMatches(panel, calls) /\ DeleteMatches(panel, calls) /\ TestsMatch(panel, calls)

-----------------------------------------------------------------------------
\* A list has positions 1 .. n.
LEMMA ListDomain ==
  ASSUME NEW l, IsList(l)
  PROVE  Len(l) \in Nat /\ DOMAIN l = 1 .. Len(l)
BY DEF IsList

LEMMA EmptyList == IsList(<<>>) /\ DOMAIN <<>> = {}
<1>1. <<>> \in Seq({}) OBVIOUS
<1> QED BY <1>1 DEF IsList

\* A function on 1 .. n is a list.
LEMMA ListOf ==
  ASSUME NEW n \in Nat, NEW f, f = [i \in 1 .. n |-> f[i]]
  PROVE  IsList(f)
<1>1. PICK S : S = {f[i] : i \in 1 .. n} OBVIOUS
<1>2. \A i \in 1 .. n : f[i] \in S BY <1>1
<1>3. f \in [1 .. n -> S] BY <1>2
<1>4. f \in Seq(S) BY <1>3
<1> QED BY <1>4 DEF IsList

\* A call that is not answered to anybody, or still to somebody.
LEMMA SetLive ==
  ASSUME NEW c, CallType(c), NEW b \in BOOLEAN
  PROVE  /\ CallType([c EXCEPT !.live = b])
         /\ [c EXCEPT !.live = b].live = b
         /\ [c EXCEPT !.live = b].what = c.what
         /\ [c EXCEPT !.live = b].id = c.id
         /\ [c EXCEPT !.live = b].kind = c.kind
         /\ [c EXCEPT !.live = b].mode = c.mode
         /\ [c EXCEPT !.live = b].at = c.at
         /\ [c EXCEPT !.live = b].got = c.got
<1>1. PICK d : d = [c EXCEPT !.live = b] OBVIOUS
<1>2. DOMAIN d = CallFields /\ d = [f \in CallFields |-> d[f]] BY <1>1 DEF CallType
<1>3. /\ d.live = b /\ d.what = c.what /\ d.id = c.id /\ d.kind = c.kind /\ d.at = c.at
      /\ d.got = c.got /\ d.mode = c.mode
  BY <1>1 DEF CallType, CallFields
<1>4. CallType(d) BY <1>2, <1>3 DEF CallType
<1> QED BY <1>1, <1>3, <1>4

\* A call is appended.
LEMMA AppendedCall ==
  ASSUME NEW cs, CallsType(cs), NEW c, CallType(c)
  PROVE  /\ CallsType(Append(cs, c))
         /\ DOMAIN Append(cs, c) = DOMAIN cs \cup {Len(cs) + 1}
         /\ ~(Len(cs) + 1 \in DOMAIN cs)
         /\ Append(cs, c)[Len(cs) + 1] = c
         /\ \A i \in DOMAIN cs : Append(cs, c)[i] = cs[i]
<1>1. PICK S : cs \in Seq(S) BY DEF CallsType, IsList
<1>2. PICK T : T = S \cup {c} OBVIOUS
<1>3. cs \in Seq(T) /\ c \in T BY <1>1, <1>2
<1>4. PICK a : a = Append(cs, c) OBVIOUS
<1>5. /\ a \in Seq(T) /\ Len(cs) \in Nat /\ DOMAIN cs = 1 .. Len(cs)
      /\ DOMAIN a = 1 .. Len(cs) + 1
      /\ a[Len(cs) + 1] = c /\ \A i \in 1 .. Len(cs) : a[i] = cs[i]
  BY <1>3, <1>4
<1>6. IsList(a) BY <1>5 DEF IsList
<1>7. DOMAIN a = DOMAIN cs \cup {Len(cs) + 1} /\ ~(Len(cs) + 1 \in DOMAIN cs) BY <1>5
<1>8. \A i \in DOMAIN a : CallType(a[i]) BY <1>5, <1>7 DEF CallsType
<1> QED BY <1>4, <1>5, <1>6, <1>7, <1>8 DEF CallsType

\* The same call, but for who waits for it.
SameCall(d, c) == /\ d.kind = c.kind /\ d.what = c.what /\ d.id = c.id /\ d.mode = c.mode
                  /\ d.at = c.at /\ d.got = c.got

\* The calls of a panel that is unmounted.
LEMMA OrphansFacts ==
  ASSUME CallsType(calls)
  PROVE  /\ CallsType(Orphans) /\ DOMAIN Orphans = DOMAIN calls
         /\ \A i \in DOMAIN Orphans : /\ Orphans[i].live = FALSE
                                       /\ SameCall(Orphans[i], calls[i])
<1>1. PICK n \in Nat : n = Len(calls) /\ DOMAIN calls = 1 .. n
  BY ListDomain DEF CallsType
<1>2. PICK cs : cs = calls OBVIOUS
<1>3. PICK o : o = Orphans OBVIOUS
<1>4. o = [i \in 1 .. n |-> [cs[i] EXCEPT !.live = FALSE]] BY <1>1, <1>2, <1>3 DEF Orphans
<1>5. \A i \in 1 .. n : CallType(cs[i]) BY <1>1, <1>2 DEF CallsType
<1>6. \A i \in 1 .. n : CallType(o[i]) /\ o[i].live = FALSE /\ SameCall(o[i], cs[i])
  BY <1>4, <1>5, SetLive DEF SameCall
<1>7. o = [i \in 1 .. n |-> o[i]] BY <1>4
<1>8. IsList(o) BY <1>7, ListOf
<1>9. DOMAIN o = 1 .. n BY <1>4
<1> QED BY <1>1, <1>2, <1>3, <1>6, <1>8, <1>9 DEF CallsType

\* s: the calls that are left of cs when the one at i is answered and the rows l
\* are listed: the others, but for the tests of rows that are not listed.
Left(cs, i, l, s) ==
  \E m :
    /\ \A k \in DOMAIN s :
         /\ m[k] \in DOMAIN cs \ {i} /\ SameCall(s[k], cs[m[k]])
         /\ s[k].live = TRUE <=>
              cs[m[k]].live = TRUE /\ (cs[m[k]].what = "test" => Has(l, cs[m[k]].id))
    /\ \A j \in DOMAIN cs \ {i} : \E k \in DOMAIN s : m[k] = j
    /\ \A j, k \in DOMAIN s : m[j] = m[k] => j = k

LEMMA LeftCalls ==
  ASSUME NEW cs, CallsType(cs), NEW i \in DOMAIN cs, NEW l,
         NEW s, s = StillLive(RemoveAt(cs, i), l)
  PROVE  CallsType(s) /\ Left(cs, i, l, s)
<1>1. PICK S : cs \in Seq(S) BY DEF CallsType, IsList
<1>2. PICK r : r = RemoveAt(cs, i) OBVIOUS
<1>3. PICK n \in Nat : n = Len(cs) - 1 /\ i \in 1 .. n + 1 /\ DOMAIN cs = 1 .. n + 1 BY <1>1
<1>4. /\ r \in Seq(S) /\ Len(r) = n /\ DOMAIN r = 1 .. n
      /\ \A k \in DOMAIN r : r[k] = cs[IF k < i THEN k ELSE k + 1]
  <2>1. /\ r \in Seq(S) /\ Len(r) = Len(cs) - 1
        /\ \A k \in DOMAIN r : r[k] = cs[IF k < i THEN k ELSE k + 1]
    BY <1>1, <1>2, RemoveAtFacts
  <2>2. Len(r) = n BY <1>3, <2>1
  <2>3. DOMAIN r = 1 .. n BY <2>1, <2>2
  <2> QED BY <2>1, <2>2, <2>3
<1>5. PICK m : m = [k \in 1 .. n |-> IF k < i THEN k ELSE k + 1] OBVIOUS
<1>6. \A k \in 1 .. n : m[k] \in DOMAIN cs \ {i} /\ r[k] = cs[m[k]] BY <1>3, <1>4, <1>5
<1>7. \A j, k \in 1 .. n : m[j] = m[k] => j = k BY <1>3, <1>5
<1>8. ASSUME NEW j \in DOMAIN cs \ {i} PROVE \E k \in 1 .. n : m[k] = j
  <2>1. CASE j < i
    <3>1. j \in 1 .. n BY <1>3, <2>1
    <3> QED BY <1>5, <2>1, <3>1
  <2>2. CASE ~(j < i)
    <3>1. j - 1 \in 1 .. n /\ ~(j - 1 < i) /\ (j - 1) + 1 = j BY <1>3, <2>2
    <3> QED BY <1>5, <3>1
  <2> QED BY <2>1, <2>2
<1>9. s = StillLive(r, l) BY <1>2
<1>10. s = [k \in 1 .. n |->
              [r[k] EXCEPT !.live = r[k].live /\ (r[k].what = "test" => Has(l, r[k].id))]]
  BY <1>4, <1>9 DEF StillLive
<1>11. \A k \in 1 .. n : CallType(r[k]) BY <1>6 DEF CallsType
<1>12. ASSUME NEW k \in 1 .. n
       PROVE  /\ CallType(s[k]) /\ SameCall(s[k], r[k])
              /\ s[k].live = TRUE <=>
                   r[k].live = TRUE /\ (r[k].what = "test" => Has(l, r[k].id))
  <2>1. PICK c : c = r[k] OBVIOUS
  <2>2. CallType(c) /\ c.live \in BOOLEAN BY <1>11, <2>1 DEF CallType
  <2>3. PICK b \in BOOLEAN : b = (c.live /\ (c.what = "test" => Has(l, c.id))) BY <2>2
  <2>4. s[k] = [c EXCEPT !.live = b] BY <1>10, <2>1, <2>3
  <2>5. /\ CallType(s[k]) /\ s[k].live = b /\ SameCall(s[k], c)
    BY <2>2, <2>4, SetLive DEF SameCall
  <2> QED BY <2>1, <2>2, <2>3, <2>5
<1>13. DOMAIN s = 1 .. n /\ s = [k \in 1 .. n |-> s[k]] BY <1>10
<1>14. IsList(s) BY <1>13, ListOf
<1>15. CallsType(s) BY <1>12, <1>13, <1>14 DEF CallsType
<1>16. \A k \in 1 .. n :
         /\ m[k] \in DOMAIN cs \ {i} /\ SameCall(s[k], cs[m[k]])
         /\ s[k].live = TRUE <=>
              /\ cs[m[k]].live = TRUE
              /\ cs[m[k]].what = "test" => Has(l, cs[m[k]].id)
  <2> SUFFICES ASSUME NEW k \in 1 .. n
               PROVE  /\ m[k] \in DOMAIN cs \ {i} /\ SameCall(s[k], cs[m[k]])
                      /\ s[k].live = TRUE <=>
                           /\ cs[m[k]].live = TRUE
                           /\ cs[m[k]].what = "test" => Has(l, cs[m[k]].id)
    OBVIOUS
  <2>1. m[k] \in DOMAIN cs \ {i} /\ r[k] = cs[m[k]] BY <1>6
  <2>2. /\ SameCall(s[k], r[k])
        /\ s[k].live = TRUE <=> r[k].live = TRUE /\ (r[k].what = "test" => Has(l, r[k].id))
    BY <1>12
  <2> QED BY <2>1, <2>2
<1> QED BY <1>7, <1>8, <1>13, <1>15, <1>16 DEF Left

-----------------------------------------------------------------------------
\* A panel that was just mounted, or none.
LEMMA FreshPanelFacts ==
  ASSUME NEW kind
  PROVE  /\ PanelType(FreshPanel(kind)) /\ FreshPanel(kind).list = <<>>
         /\ FreshPanel(kind).busy = FALSE /\ FreshPanel(kind).deleting = None
         /\ \A n \in SchemaNames : FreshPanel(kind).rows[n].testing = FALSE
<1>1. PICK p : p = FreshPanel(kind) OBVIOUS
<1>2. FreshRow \in RowState /\ FreshRow.testing = FALSE BY DEF FreshRow, RowState
<1>3. /\ DOMAIN p = PanelFields /\ p = [f \in PanelFields |-> p[f]] /\ p.list = <<>>
      /\ p.busy = FALSE /\ p.deleting = None
      /\ p.rows = [n \in SchemaNames |-> FreshRow]
  BY <1>1 DEF FreshPanel, PanelFields
<1>4. PanelType(p) BY <1>2, <1>3, EmptyList DEF PanelType
<1> QED BY <1>1, <1>2, <1>3, <1>4

\* Nothing is marked and nothing is under way.
LEMMA NothingUnderWay ==
  ASSUME NEW p, NEW cs, p.busy = FALSE, p.deleting = None,
         \A n \in SchemaNames : p.rows[n].testing = FALSE,
         \A i \in DOMAIN cs : cs[i].live = FALSE \/ cs[i].what = "load"
  PROVE  SaveMatches(p, cs) /\ DeleteMatches(p, cs) /\ TestsMatch(p, cs)
<1>1. \A i \in DOMAIN cs : ~Waits(cs[i], "save") /\ ~Waits(cs[i], "test") BY DEF Waits
<1> QED BY <1>1 DEF SaveMatches, DeleteMatches, TestsMatch

LEMMA PanelsStart == Init => PanelInv
<1> SUFFICES ASSUME Init PROVE PanelInv OBVIOUS
<1>1. /\ server = [webhooks |-> {}, schemas |-> {}]
      /\ panel = FreshPanel("closed") /\ calls = <<>>
  BY DEF Init, PanelsInit
<1>2. ServerType
  <2>1. IsFiniteSet({}) BY FS_EmptySet
  <2> QED BY <1>1, <2>1 DEF ServerType
<1>3. CallsType(calls) BY <1>1, EmptyList DEF CallsType
<1>4. PanelType(panel) BY <1>1, FreshPanelFacts
<1>5. SaveMatches(panel, calls) /\ DeleteMatches(panel, calls) /\ TestsMatch(panel, calls)
  BY <1>1, EmptyList, FreshPanelFacts, NothingUnderWay
<1> QED BY <1>2, <1>3, <1>4, <1>5 DEF PanelInv

\* EventSender.tsx 345-354: a panel is mounted or unmounted.
LEMMA MountKeeps ==
  ASSUME PanelInv, (\E kind \in {"webhooks", "schemas"} : Mount(kind)) \/ Unmount
  PROVE  PanelInv'
<1>1. CallsType(Orphans) /\ \A i \in DOMAIN Orphans : Orphans[i].live = FALSE
  BY OrphansFacts DEF PanelInv
<1>2. PICK o : o = Orphans OBVIOUS
<1>3. CallsType(o) /\ \A i \in DOMAIN o : o[i].live = FALSE BY <1>1, <1>2
<1>4. server' = server BY DEF Mount, Unmount
<1>5. ServerType' BY <1>4 DEF PanelInv, ServerType
<1>6. CASE Unmount
  <2>1. panel' = FreshPanel("closed") /\ calls' = o BY <1>2, <1>6 DEF Unmount
  <2>2. PICK p : p = FreshPanel("closed") OBVIOUS
  <2>3. /\ PanelType(p) /\ SaveMatches(p, o) /\ DeleteMatches(p, o) /\ TestsMatch(p, o)
    BY <1>3, <2>2, FreshPanelFacts, NothingUnderWay
  <2> QED BY <1>3, <1>5, <2>1, <2>2, <2>3 DEF PanelInv
<1>7. ASSUME NEW kind \in {"webhooks", "schemas"}, Mount(kind) PROVE PanelInv'
  <2>1. PICK c : c = [Call("load", None, "warn") EXCEPT !.kind = kind] OBVIOUS
  <2>2. CallType(c) /\ c.what = "load"
    <3>1. /\ DOMAIN c = CallFields /\ c = [f \in CallFields |-> c[f]]
          /\ c.what = "load" /\ c.kind = kind /\ c.live = TRUE /\ c.at = "asked" /\ c.got = <<>>
      BY <2>1 DEF Call, CallFields
    <3> QED BY <3>1, EmptyList DEF CallType, Ats
  <2>3. PICK a : a = Append(o, c) OBVIOUS
  <2>4. panel' = FreshPanel(kind) /\ calls' = a BY <1>2, <1>7, <2>1, <2>3 DEF Mount
  <2>5. CallsType(a) /\ \A i \in DOMAIN a : a[i].live = FALSE \/ a[i].what = "load"
    BY <1>3, <2>2, <2>3, AppendedCall
  <2>6. PICK p : p = FreshPanel(kind) OBVIOUS
  <2>7. /\ PanelType(p) /\ SaveMatches(p, a) /\ DeleteMatches(p, a) /\ TestsMatch(p, a)
    BY <2>5, <2>6, FreshPanelFacts, NothingUnderWay
  <2> QED BY <1>5, <2>4, <2>5, <2>6, <2>7 DEF PanelInv
<1> QED BY <1>6, <1>7

\* What the buttons do: a call is issued and its button is marked.
LEMMA IssueKeeps ==
  ASSUME PanelInv, NEW c, CallType(c), c.live = TRUE, c.what # "load", Issue(c),
         PanelType(panel'), panel'.list = panel.list,
         panel'.busy = TRUE <=> panel.busy = TRUE \/ c.what = "save",
         c.what = "save" => panel.busy # TRUE,
         panel'.deleting = IF c.what = "delete" THEN c.id ELSE panel.deleting,
         c.what = "test" => Has(panel.list, c.id) /\ panel.rows[c.id].testing # TRUE,
         \A n \in SchemaNames : panel'.rows[n].testing = TRUE <=>
           panel.rows[n].testing = TRUE \/ (c.what = "test" /\ c.id = n)
  PROVE  PanelInv'
<1>1. PICK s, a, e : s = calls /\ a = Append(s, c) /\ e = Len(s) + 1 OBVIOUS
<1>2. CallsType(s) BY <1>1 DEF PanelInv
<1>3. calls' = a /\ server' = server BY <1>1 DEF Issue
<1>4. /\ CallsType(a) /\ DOMAIN a = DOMAIN s \cup {e} /\ ~(e \in DOMAIN s) /\ a[e] = c
      /\ \A i \in DOMAIN s : a[i] = s[i]
  BY <1>1, <1>2, AppendedCall
<1>5. ServerType' BY <1>3 DEF PanelInv, ServerType
<1>6. SaveMatches(panel, s) /\ DeleteMatches(panel, s) /\ TestsMatch(panel, s)
  BY <1>1 DEF PanelInv
<1>7. SaveMatches(panel', a)
  <2>1. c.what = "save" => \A i \in DOMAIN s : ~Waits(s[i], "save") BY <1>6 DEF SaveMatches
  <2>2. Waits(c, "save") <=> c.what = "save" BY DEF Waits
  <2>3. (\E i \in DOMAIN a : Waits(a[i], "save")) <=>
          c.what = "save" \/ \E i \in DOMAIN s : Waits(s[i], "save")
    BY <1>4, <2>2
  <2>4. \A i, j \in DOMAIN a : Waits(a[i], "save") /\ Waits(a[j], "save") => i = j
    BY <1>4, <1>6, <2>1, <2>2 DEF SaveMatches
  <2> QED BY <1>6, <2>3, <2>4 DEF SaveMatches
<1>8. DeleteMatches(panel', a)
  <2>1. CASE c.what = "delete" BY <1>4, <2>1 DEF DeleteMatches, Waits
  <2>2. CASE c.what # "delete" BY <1>4, <1>6, <2>2 DEF DeleteMatches
  <2> QED BY <2>1, <2>2
<1>9. TestsMatch(panel', a)
  <2>1. Waits(c, "test") <=> c.what = "test" BY DEF Waits
  <2>2. c.what = "test" => c.id \in SchemaNames BY DEF CallType
  <2>3. c.what = "test" => \A i \in DOMAIN s : ~(Waits(s[i], "test") /\ s[i].id = c.id)
    BY <1>6, <2>2 DEF TestsMatch
  <2>4. \A i, j \in DOMAIN a :
          Waits(a[i], "test") /\ Waits(a[j], "test") /\ a[i].id = a[j].id => i = j
    BY <1>4, <1>6, <2>1, <2>3 DEF TestsMatch
  <2>5. \A i \in DOMAIN a : Waits(a[i], "test") => Has(panel'.list, a[i].id)
    BY <1>4, <1>6, <2>1 DEF TestsMatch
  <2>6. ASSUME NEW n \in SchemaNames
        PROVE  panel'.rows[n].testing = TRUE <=>
                 \E i \in DOMAIN a : Waits(a[i], "test") /\ a[i].id = n
    <3>1. panel.rows[n].testing = TRUE <=> \E i \in DOMAIN s : Waits(s[i], "test") /\ s[i].id = n
      BY <1>6 DEF TestsMatch
    <3> QED BY <1>4, <2>1, <3>1
  <2> QED BY <2>4, <2>5, <2>6 DEF TestsMatch
<1> QED BY <1>3, <1>4, <1>5, <1>7, <1>8, <1>9 DEF PanelInv

\* The API has acted on a call: nobody knows yet.
LEMMA ServedKeeps ==
  ASSUME PanelInv, ServerType', panel' = panel, CallsType(calls'), DOMAIN calls' = DOMAIN calls,
         \A k \in DOMAIN calls : /\ calls'[k].live = calls[k].live
                                 /\ calls'[k].what = calls[k].what
                                 /\ calls[k].what # "save" => calls'[k].id = calls[k].id
  PROVE  PanelInv'
<1>1. PICK s, a, p : s = calls /\ a = calls' /\ p = panel OBVIOUS
<1>2. /\ DOMAIN a = DOMAIN s
      /\ \A k \in DOMAIN s : \A what : Waits(a[k], what) <=> Waits(s[k], what)
      /\ \A k \in DOMAIN s : Waits(s[k], "delete") \/ Waits(s[k], "test") => a[k].id = s[k].id
  BY <1>1 DEF Waits
<1>3. SaveMatches(p, s) /\ DeleteMatches(p, s) /\ TestsMatch(p, s) BY <1>1 DEF PanelInv
<1>4. SaveMatches(p, a) BY <1>2, <1>3 DEF SaveMatches
<1>5. DeleteMatches(p, a) BY <1>2, <1>3 DEF DeleteMatches
<1>6. TestsMatch(p, a)
  <2>1. \A n \in SchemaNames :
          p.rows[n].testing = TRUE <=> \E i \in DOMAIN s : Waits(s[i], "test") /\ s[i].id = n
    BY <1>3 DEF TestsMatch
  <2>2. \A n : (\E i \in DOMAIN s : Waits(s[i], "test") /\ s[i].id = n) <=>
               (\E i \in DOMAIN a : Waits(a[i], "test") /\ a[i].id = n)
    BY <1>2
  <2>3. \A n \in SchemaNames :
          p.rows[n].testing = TRUE <=> \E i \in DOMAIN a : Waits(a[i], "test") /\ a[i].id = n
    BY <2>1, <2>2
  <2> QED BY <1>2, <1>3, <2>3 DEF TestsMatch
<1> QED BY <1>1, <1>4, <1>5, <1>6 DEF PanelInv

\* A step that changes neither calls nor marks.
LEMMA UnmarkedKeeps ==
  ASSUME PanelInv, server' = server, calls' = calls, PanelType(panel'),
         panel'.list = panel.list, panel'.busy = panel.busy, panel'.deleting = panel.deleting,
         \A n \in SchemaNames : panel'.rows[n].testing = panel.rows[n].testing
  PROVE  PanelInv'
<1>1. ServerType' BY DEF PanelInv, ServerType
<1>2. CallsType(calls') BY DEF PanelInv
<1>3. SaveMatches(panel', calls') BY DEF PanelInv, SaveMatches
<1>4. DeleteMatches(panel', calls') BY DEF PanelInv, DeleteMatches
<1>5. TestsMatch(panel', calls') BY DEF PanelInv, TestsMatch
<1> QED BY <1>1, <1>2, <1>3, <1>4, <1>5 DEF PanelInv

\* The call of a handler.
LEMMA NewCall ==
  ASSUME NEW c, DOMAIN c = CallFields, c = [f \in CallFields |-> c[f]],
         c.what \in {"save", "delete", "test"}, c.what = "test" => c.id \in SchemaNames,
         c.live = TRUE, c.at = "asked", c.got = <<>>
  PROVE  CallType(c)
BY EmptyList DEF CallType, Ats

\* WebhookPanel.tsx 39-77, SchemaPanel.tsx 49-58 and 162-208: the buttons.
LEMMA HandlersKeep ==
  ASSUME PanelInv,
         \/ HandleCreate \/ HandleRegisterInvalid
         \/ \E n \in SchemaNames, mode \in Modes : HandleRegister(n, mode)
         \/ \E id \in Ids : HandleDelete(id)
         \/ \E n \in SchemaNames : HandleTestViolation(n)
  PROVE  PanelInv'
<1>1. PICK p : p = panel OBVIOUS
<1>2. PanelType(p) /\ p.rows \in [SchemaNames -> RowState] BY <1>1 DEF PanelInv, PanelType
<1>3. ASSUME NEW id, NEW mode, Issue(Call("save", id, mode)), panel.busy # TRUE,
             panel' = [panel EXCEPT !.busy = TRUE, !.error = FALSE]
      PROVE  PanelInv'
  <2>1. PICK c : c = Call("save", id, mode) OBVIOUS
  <2>2. CallType(c) /\ c.live = TRUE /\ c.what = "save"
    <3>1. /\ DOMAIN c = CallFields /\ c = [f \in CallFields |-> c[f]] /\ c.live = TRUE
          /\ c.what = "save" /\ c.at = "asked" /\ c.got = <<>>
      BY <2>1 DEF Call, CallFields
    <3> QED BY <3>1, NewCall
  <2>3. PICK q : q = [p EXCEPT !.busy = TRUE, !.error = FALSE] OBVIOUS
  <2>4. /\ DOMAIN q = PanelFields /\ q = [f \in PanelFields |-> q[f]] /\ q.busy = TRUE
        /\ q.list = p.list /\ q.deleting = p.deleting /\ q.rows = p.rows
    BY <1>2, <2>3 DEF PanelType, PanelFields
  <2>5. PanelType(q) BY <1>2, <2>4 DEF PanelType
  <2>6. panel' = q BY <1>1, <1>3, <2>3
  <2> QED BY <1>1, <1>3, <2>1, <2>2, <2>4, <2>5, <2>6, IssueKeeps
<1>4. CASE HandleCreate BY <1>3, <1>4 DEF HandleCreate, MayCreate
<1>5. CASE \E n \in SchemaNames, mode \in Modes : HandleRegister(n, mode)
  BY <1>3, <1>5 DEF HandleRegister, MayRegister
<1>6. CASE HandleRegisterInvalid
  <2>1. PICK q : q = [p EXCEPT !.error = TRUE] OBVIOUS
  <2>2. /\ DOMAIN q = PanelFields /\ q = [f \in PanelFields |-> q[f]] /\ q.busy = p.busy
        /\ q.list = p.list /\ q.deleting = p.deleting /\ q.rows = p.rows
    BY <1>2, <2>1 DEF PanelType, PanelFields
  <2>3. PanelType(q) BY <1>2, <2>2 DEF PanelType
  <2>4. panel' = q /\ calls' = calls /\ server' = server
    BY <1>1, <1>6, <2>1 DEF HandleRegisterInvalid
  <2> QED BY <1>1, <2>2, <2>3, <2>4, UnmarkedKeeps
<1>7. ASSUME NEW id \in Ids, HandleDelete(id) PROVE PanelInv'
  <2>1. PICK c : c = Call("delete", id, "warn") OBVIOUS
  <2>2. CallType(c) /\ c.live = TRUE /\ c.what = "delete" /\ c.id = id
    <3>1. /\ DOMAIN c = CallFields /\ c = [f \in CallFields |-> c[f]] /\ c.live = TRUE
          /\ c.what = "delete" /\ c.id = id /\ c.at = "asked" /\ c.got = <<>>
      BY <2>1 DEF Call, CallFields
    <3> QED BY <3>1, NewCall
  <2>3. PICK q : q = [p EXCEPT !.deleting = id] OBVIOUS
  <2>4. /\ DOMAIN q = PanelFields /\ q = [f \in PanelFields |-> q[f]] /\ q.busy = p.busy
        /\ q.list = p.list /\ q.deleting = id /\ q.rows = p.rows
    BY <1>2, <2>3 DEF PanelType, PanelFields
  <2>5. PanelType(q) BY <1>2, <2>4 DEF PanelType
  <2>6. panel' = q /\ Issue(c) BY <1>1, <1>7, <2>1, <2>3 DEF HandleDelete
  <2> QED BY <1>1, <2>2, <2>4, <2>5, <2>6, IssueKeeps
<1>8. ASSUME NEW n \in SchemaNames, HandleTestViolation(n) PROVE PanelInv'
  <2>1. PICK c : c = Call("test", n, "warn") OBVIOUS
  <2>2. CallType(c) /\ c.live = TRUE /\ c.what = "test" /\ c.id = n
    <3>1. /\ DOMAIN c = CallFields /\ c = [f \in CallFields |-> c[f]] /\ c.live = TRUE
          /\ c.what = "test" /\ c.id = n /\ c.at = "asked" /\ c.got = <<>>
      BY <2>1 DEF Call, CallFields
    <3> QED BY <3>1, NewCall
  <2>3. PICK q : q = [p EXCEPT !.rows[n].testing = TRUE, !.rows[n].result = "none"] OBVIOUS
  <2>4. /\ DOMAIN q = PanelFields /\ q = [f \in PanelFields |-> q[f]] /\ q.busy = p.busy
        /\ q.list = p.list /\ q.deleting = p.deleting
        /\ q.rows = [p.rows EXCEPT ![n] =
                       [p.rows[n] EXCEPT !.testing = TRUE, !.result = "none"]]
    BY <1>2, <2>3 DEF PanelType, PanelFields
  <2>5. /\ q.rows \in [SchemaNames -> RowState] /\ q.rows[n].testing = TRUE
        /\ \A k \in SchemaNames \ {n} : q.rows[k] = p.rows[k]
    <3>1. PICK t : t = [p.rows[n] EXCEPT !.testing = TRUE, !.result = "none"] OBVIOUS
    <3>2. t \in RowState /\ t.testing = TRUE BY <1>2, <3>1 DEF RowState
    <3>3. q.rows = [p.rows EXCEPT ![n] = t] BY <2>4, <3>1
    <3> QED BY <1>2, <3>2, <3>3
  <2>6. PanelType(q) BY <1>2, <2>4, <2>5 DEF PanelType
  <2>7. panel' = q /\ Issue(c) BY <1>1, <1>8, <2>1, <2>3 DEF HandleTestViolation
  <2>8. Has(p.list, n) /\ p.rows[n].testing # TRUE
    BY <1>1, <1>8 DEF HandleTestViolation, MayTest
  <2>9. \A k \in SchemaNames : q.rows[k].testing = TRUE <=> p.rows[k].testing = TRUE \/ n = k
    BY <2>5
  <2> QED BY <1>1, <2>2, <2>4, <2>6, <2>7, <2>8, <2>9, IssueKeeps
<1> QED BY <1>4, <1>5, <1>6, <1>7, <1>8

\* WebhookPanel.tsx 85-90, SchemaPanel.tsx 80-83: the timers.
LEMMA PanelTimerKeeps ==
  ASSUME PanelInv, ErrorTimer \/ \E n \in SchemaNames : RowTimer(n)
  PROVE  PanelInv'
<1>1. PICK p : p = panel OBVIOUS
<1>2. PanelType(p) /\ p.rows \in [SchemaNames -> RowState] BY <1>1 DEF PanelInv, PanelType
<1>3. CASE ErrorTimer
  <2>1. PICK q : q = [p EXCEPT !.deleteError = FALSE, !.errorTimers = @ - 1] OBVIOUS
  <2>2. /\ DOMAIN q = PanelFields /\ q = [f \in PanelFields |-> q[f]] /\ q.busy = p.busy
        /\ q.list = p.list /\ q.deleting = p.deleting /\ q.rows = p.rows
    BY <1>2, <2>1 DEF PanelType, PanelFields
  <2>3. PanelType(q) BY <1>2, <2>2 DEF PanelType
  <2>4. panel' = q /\ calls' = calls /\ server' = server BY <1>1, <1>3, <2>1 DEF ErrorTimer
  <2> QED BY <1>1, <2>2, <2>3, <2>4, UnmarkedKeeps
<1>4. ASSUME NEW n \in SchemaNames, RowTimer(n) PROVE PanelInv'
  <2>1. PICK q : q = [p EXCEPT !.rows[n].result = "none", !.rows[n].timers = @ - 1] OBVIOUS
  <2>2. /\ DOMAIN q = PanelFields /\ q = [f \in PanelFields |-> q[f]] /\ q.busy = p.busy
        /\ q.list = p.list /\ q.deleting = p.deleting
        /\ q.rows = [p.rows EXCEPT ![n] =
                       [p.rows[n] EXCEPT !.result = "none", !.timers = p.rows[n].timers - 1]]
    BY <1>2, <2>1 DEF PanelType, PanelFields
  <2>3. p.rows[n].timers - 1 \in Nat
    <3>1. p.rows[n].timers > 0 BY <1>1, <1>4 DEF RowTimer
    <3>2. p.rows[n].timers \in Nat BY <1>2 DEF RowState
    <3> QED BY <3>1, <3>2
  <2>4. /\ q.rows \in [SchemaNames -> RowState]
        /\ \A k \in SchemaNames : q.rows[k].testing = p.rows[k].testing
    <3>1. PICK t : t = [p.rows[n] EXCEPT !.result = "none",
                                     !.timers = p.rows[n].timers - 1]
      OBVIOUS
    <3>2. t \in RowState /\ t.testing = p.rows[n].testing BY <1>2, <2>3, <3>1 DEF RowState
    <3>3. q.rows = [p.rows EXCEPT ![n] = t] BY <2>2, <3>1
    <3> QED BY <1>2, <3>2, <3>3
  <2>5. PanelType(q) BY <1>2, <2>2, <2>4 DEF PanelType
  <2>6. panel' = q /\ calls' = calls /\ server' = server BY <1>1, <1>4, <2>1 DEF RowTimer
  <2> QED BY <1>1, <2>2, <2>4, <2>5, <2>6, UnmarkedKeeps
<1> QED BY <1>3, <1>4

-----------------------------------------------------------------------------
\* One of the calls is replaced.
LEMMA ReplacedCall ==
  ASSUME NEW cs, CallsType(cs), NEW i \in DOMAIN cs, NEW d, CallType(d)
  PROVE  /\ CallsType([cs EXCEPT ![i] = d]) /\ DOMAIN [cs EXCEPT ![i] = d] = DOMAIN cs
         /\ [cs EXCEPT ![i] = d][i] = d
         /\ \A k \in DOMAIN cs \ {i} : [cs EXCEPT ![i] = d][k] = cs[k]
<1>1. PICK n \in Nat : DOMAIN cs = 1 .. n BY ListDomain DEF CallsType
<1>2. PICK a : a = [cs EXCEPT ![i] = d] OBVIOUS
<1>3. /\ DOMAIN a = 1 .. n /\ a[i] = d /\ \A k \in DOMAIN cs \ {i} : a[k] = cs[k]
      /\ a = [k \in 1 .. n |-> a[k]]
  BY <1>1, <1>2
<1>4. IsList(a) BY <1>3, ListOf
<1>5. \A k \in DOMAIN a : CallType(a[k]) BY <1>1, <1>3 DEF CallsType
<1> QED BY <1>1, <1>2, <1>3, <1>4, <1>5 DEF CallsType

\* The rows of the API are a list.
LEMMA ListingFacts ==
  ASSUME ServerType, NEW kind \in {"webhooks", "schemas"}
  PROVE  IsList(Listing(kind))
<1>1. PICK n : n = Cardinality(server[kind]) OBVIOUS
<1>2. n \in Nat BY <1>1, FS_CardinalityType DEF ServerType
<1>3. PICK f : f = Listing(kind) OBVIOUS
<1> DEFINE Row(i) == CHOOSE r \in server[kind] :
                       Cardinality({q \in server[kind] : Before(kind, q, r)}) = i - 1
<1>4. f = [i \in 1 .. n |-> Row(i)] BY <1>1, <1>3, Zenon DEF Listing
<1> HIDE DEF Row
<1>5. f = [i \in 1 .. n |-> f[i]] BY <1>4
<1> QED BY <1>2, <1>3, <1>5, ListOf

\* The API changes the rows of one kind.
LEMMA ServerChanges ==
  ASSUME ServerType, NEW kind, NEW S, server' = [server EXCEPT ![kind] = S],
         kind \in {"webhooks", "schemas"} => IsFiniteSet(S)
  PROVE  ServerType'
<1>1. DOMAIN server = {"webhooks", "schemas"} BY DEF ServerType
<1>2. DOMAIN server' = {"webhooks", "schemas"} /\ server' = [k \in DOMAIN server' |-> server'[k]]
  BY <1>1
<1>3. \A k \in {"webhooks", "schemas"} : server'[k] = IF k = kind THEN S ELSE server[k]
  BY <1>1
<1> QED BY <1>2, <1>3 DEF ServerType

\* The rows stay finitely many.
LEMMA RowsAreFinite ==
  ASSUME NEW rows, IsFiniteSet(rows), NEW id, NEW row
  PROVE  IsFiniteSet(Without(rows, id)) /\ IsFiniteSet(With(rows, row))
<1>1. Without(rows, id) \subseteq rows /\ {r \in rows : r.id # row.id} \subseteq rows
  BY DEF Without
<1>2. IsFiniteSet(Without(rows, id)) /\ IsFiniteSet({r \in rows : r.id # row.id})
  BY <1>1, FS_Subset
<1>3. IsFiniteSet({r \in rows : r.id # row.id} \cup {row}) BY <1>2, FS_AddElement
<1> QED BY <1>2, <1>3 DEF With

\* The API acts on a call, or refuses it.
LEMMA ServeKeeps ==
  ASSUME PanelInv, NEW i \in DOMAIN calls, Serve(i)
  PROVE  PanelInv'
<1>1. PICK s, c : s = calls /\ c = s[i] OBVIOUS
<1>2. CallsType(s) /\ i \in DOMAIN s /\ CallType(c) /\ ServerType
  BY <1>1 DEF PanelInv, CallsType
<1>3. ASSUME NEW d, CallType(d), d.live = c.live, d.what = c.what, c.what # "save" => d.id = c.id,
             calls' = [s EXCEPT ![i] = d], ServerType', panel' = panel
      PROVE  PanelInv'
  <2>1. PICK a : a = [s EXCEPT ![i] = d] OBVIOUS
  <2>2. CallsType(a) /\ DOMAIN a = DOMAIN s /\ a[i] = d /\ \A k \in DOMAIN s \ {i} : a[k] = s[k]
    BY <1>2, <1>3, <2>1, ReplacedCall
  <2>3. \A k \in DOMAIN s : /\ a[k].live = s[k].live /\ a[k].what = s[k].what
                            /\ s[k].what # "save" => a[k].id = s[k].id
    BY <1>1, <1>3, <2>2
  <2>4. calls' = a BY <1>3, <2>1
  <2> QED BY <1>1, <1>3, <2>2, <2>3, <2>4, ServedKeeps
<1>4. ASSUME NEW at \in Ats
      PROVE  LET d == [c EXCEPT !.at = at] IN
             CallType(d) /\ d.live = c.live /\ d.what = c.what /\ d.id = c.id
  <2>1. PICK d : d = [c EXCEPT !.at = at] OBVIOUS
  <2>2. DOMAIN d = CallFields /\ d = [f \in CallFields |-> d[f]] BY <1>2, <2>1 DEF CallType
  <2>3. /\ d.live = c.live /\ d.what = c.what /\ d.id = c.id /\ d.kind = c.kind /\ d.at = at
        /\ d.got = c.got
    BY <1>2, <2>1 DEF CallType, CallFields
  <2>4. CallType(d) BY <1>2, <2>2, <2>3 DEF CallType
  <2> QED BY <2>1, <2>3, <2>4
<1>5. server' = server => ServerType' BY <1>2 DEF ServerType
<1>6. ASSUME NEW at \in Ats, calls' = Answered(i, at), ServerType', panel' = panel
      PROVE  PanelInv'
  <2>1. calls' = [s EXCEPT ![i] = [c EXCEPT !.at = at]] BY <1>1, <1>6 DEF Answered
  <2>2. PICK d : d = [c EXCEPT !.at = at] OBVIOUS
  <2>3. CallType(d) /\ d.live = c.live /\ d.what = c.what /\ d.id = c.id BY <1>4, <2>2
  <2> QED BY <1>3, <1>6, <2>1, <2>2, <2>3
<1>7. CASE Refuse(i) BY <1>5, <1>6, <1>7 DEF Refuse, Ats
<1>8. CASE ServeTest(i)
  <2>1. Verdict(calls[i].id) \in Ats BY DEF Verdict, Ats
  <2> QED BY <1>5, <1>6, <1>8, <2>1 DEF ServeTest
<1>9. CASE ServeLoad(i)
  <2>1. PICK g : g = Listing(c.kind) OBVIOUS
  <2>2. c.what = "load" /\ c.kind \in {"webhooks", "schemas"}
    BY <1>1, <1>2, <1>9 DEF ServeLoad, CallType
  <2>3. IsList(g) BY <1>2, <2>1, <2>2, ListingFacts
  <2>4. PICK d : d = [c EXCEPT !.at = "ok", !.got = g] OBVIOUS
  <2>5. calls' = [s EXCEPT ![i] = d] /\ server' = server /\ panel' = panel
    BY <1>1, <1>9, <2>1, <2>4 DEF ServeLoad
  <2>6. DOMAIN d = CallFields /\ d = [f \in CallFields |-> d[f]] BY <1>2, <2>4 DEF CallType
  <2>7. /\ d.live = c.live /\ d.what = c.what /\ d.id = c.id /\ d.kind = c.kind /\ d.at = "ok"
        /\ d.got = g
    BY <1>2, <2>4 DEF CallType, CallFields
  <2>8. CallType(d) BY <1>2, <2>3, <2>6, <2>7 DEF CallType, Ats
  <2> QED BY <1>3, <1>5, <2>5, <2>7, <2>8
<1>10. ASSUME NEW lost \in BOOLEAN, ServeDelete(i, lost) PROVE PanelInv'
  <2>1. PICK k, S : k = c.kind /\ S = Without(server[k], c.id) OBVIOUS
  <2>2. server' = [server EXCEPT ![k] = S] /\ panel' = panel
    BY <1>1, <1>10, <2>1 DEF ServeDelete
  <2>3. k \in {"webhooks", "schemas"} => IsFiniteSet(S)
    BY <1>2, <2>1, RowsAreFinite DEF ServerType
  <2>4. ServerType' BY <1>2, <2>2, <2>3, ServerChanges
  <2>5. \E at \in Ats : calls' = Answered(i, at) BY <1>10 DEF ServeDelete, Ats
  <2> QED BY <1>6, <2>2, <2>4, <2>5
<1>11. ASSUME NEW lost \in BOOLEAN, ServeSave(i, lost) PROVE PanelInv'
  <2>1. PICK k, id : k = c.kind /\ id = IF k = "webhooks" THEN created + 1 ELSE c.id OBVIOUS
  <2>2. PICK S : S = With(server[k], [id |-> id, mode |-> c.mode]) OBVIOUS
  <2>3. server' = [server EXCEPT ![k] = S] /\ panel' = panel
    BY <1>1, <1>11, <2>1, <2>2 DEF ServeSave
  <2>4. k \in {"webhooks", "schemas"} => IsFiniteSet(S)
    BY <1>2, <2>2, RowsAreFinite DEF ServerType
  <2>5. ServerType' BY <1>2, <2>3, <2>4, ServerChanges
  <2>6. PICK at \in Ats : at = IF lost THEN "failed" ELSE "ok" BY DEF Ats
  <2>7. PICK d : d = [c EXCEPT !.at = at, !.id = id] OBVIOUS
  <2>8. calls' = [s EXCEPT ![i] = d] /\ c.what = "save"
    BY <1>1, <1>11, <2>1, <2>6, <2>7 DEF ServeSave
  <2>9. DOMAIN d = CallFields /\ d = [f \in CallFields |-> d[f]] BY <1>2, <2>7 DEF CallType
  <2>10. /\ d.live = c.live /\ d.what = c.what /\ d.kind = c.kind /\ d.at = at /\ d.got = c.got
    BY <1>2, <2>7 DEF CallType, CallFields
  <2>11. CallType(d) BY <1>2, <2>8, <2>9, <2>10 DEF CallType
  <2> QED BY <1>3, <2>3, <2>5, <2>8, <2>10, <2>11
<1> QED BY <1>7, <1>8, <1>9, <1>10, <1>11 DEF Serve

-----------------------------------------------------------------------------
\* A handler has gone on (c: its call, p and q: the panel before and after): the
\* mark of its button is gone, the others are as they were, and a row is shown
\* as being tested exactly as long as it is listed.
Concludes(p, c, q) ==
  /\ PanelType(q)
  /\ q.busy = TRUE <=> p.busy = TRUE /\ ~Waits(c, "save")
  /\ q.deleting = IF Waits(c, "delete") THEN None ELSE p.deleting
  /\ \A n \in SchemaNames :
       q.rows[n].testing = TRUE <=> /\ p.rows[n].testing = TRUE /\ Has(q.list, n)
                                    /\ ~(Waits(c, "test") /\ c.id = n)

\* Such a panel matches the calls that are left.
LEMMA ConcludesKeeps ==
  ASSUME NEW p, NEW cs, CallsType(cs), NEW i \in DOMAIN cs, NEW q, Concludes(p, cs[i], q),
         SaveMatches(p, cs), DeleteMatches(p, cs), TestsMatch(p, cs),
         NEW a, a = StillLive(RemoveAt(cs, i), q.list)
  PROVE  CallsType(a) /\ SaveMatches(q, a) /\ DeleteMatches(q, a) /\ TestsMatch(q, a)
<1>0. PICK l : l = q.list OBVIOUS
<1>1. CallsType(a) /\ Left(cs, i, l, a)
  <2>1. a = StillLive(RemoveAt(cs, i), l) BY <1>0
  <2> QED BY <2>1, LeftCalls
<1>2. PICK m :
        /\ \A k \in DOMAIN a :
             /\ m[k] \in DOMAIN cs \ {i} /\ SameCall(a[k], cs[m[k]])
             /\ a[k].live = TRUE <=>
                  cs[m[k]].live = TRUE /\ (cs[m[k]].what = "test" => Has(l, cs[m[k]].id))
        /\ \A j \in DOMAIN cs \ {i} : \E k \in DOMAIN a : m[k] = j
        /\ \A j, k \in DOMAIN a : m[j] = m[k] => j = k
  BY <1>1 DEF Left
<1>3. \A k \in DOMAIN a : /\ Waits(a[k], "save") <=> Waits(cs[m[k]], "save")
                          /\ Waits(a[k], "delete") <=> Waits(cs[m[k]], "delete")
                          /\ Waits(a[k], "test") <=>
                               Waits(cs[m[k]], "test") /\ Has(q.list, cs[m[k]].id)
  BY <1>0, <1>2 DEF Waits, SameCall
<1>4. /\ \A k \in DOMAIN a : m[k] \in DOMAIN cs \ {i} /\ a[k].id = cs[m[k]].id
      /\ \A j \in DOMAIN cs \ {i} : \E k \in DOMAIN a : m[k] = j
      /\ \A j, k \in DOMAIN a : m[j] = m[k] => j = k
  BY <1>2 DEF SameCall
<1>5. SaveMatches(q, a)
  <2>1. p.busy = TRUE <=> \E j \in DOMAIN cs : Waits(cs[j], "save") BY DEF SaveMatches
  <2>2. \A j, k \in DOMAIN cs : Waits(cs[j], "save") /\ Waits(cs[k], "save") => j = k
    BY DEF SaveMatches
  <2>3. \A j, k \in DOMAIN a : Waits(a[j], "save") /\ Waits(a[k], "save") => j = k
    BY <1>3, <1>4, <2>2
  <2>4. CASE Waits(cs[i], "save")
    <3>1. \A k \in DOMAIN a : ~Waits(a[k], "save") BY <1>3, <1>4, <2>2, <2>4
    <3>2. q.busy # TRUE BY <2>4 DEF Concludes
    <3> QED BY <2>3, <3>1, <3>2 DEF SaveMatches
  <2>5. CASE ~Waits(cs[i], "save")
    <3>1. (\E k \in DOMAIN a : Waits(a[k], "save")) <=> (\E j \in DOMAIN cs : Waits(cs[j], "save"))
      BY <1>3, <1>4, <2>5
    <3>2. q.busy = TRUE <=> p.busy = TRUE BY <2>5 DEF Concludes
    <3> QED BY <2>1, <2>3, <3>1, <3>2 DEF SaveMatches
  <2> QED BY <2>4, <2>5
<1>6. DeleteMatches(q, a)
  <2>1. CASE Waits(cs[i], "delete") BY <2>1 DEF Concludes, DeleteMatches
  <2>2. CASE ~Waits(cs[i], "delete")
    <3>1. q.deleting = p.deleting BY <2>2 DEF Concludes
    <3>2. ASSUME q.deleting # None
          PROVE  \E k \in DOMAIN a : Waits(a[k], "delete") /\ a[k].id = q.deleting
      <4>1. PICK j \in DOMAIN cs : Waits(cs[j], "delete") /\ cs[j].id = q.deleting
        BY <3>1, <3>2 DEF DeleteMatches
      <4>2. j # i BY <2>2, <4>1
      <4>3. PICK k \in DOMAIN a : m[k] = j BY <1>4, <4>2
      <4> QED BY <1>3, <1>4, <4>1, <4>3
    <3> QED BY <3>2 DEF DeleteMatches
  <2> QED BY <2>1, <2>2
<1>7. TestsMatch(q, a)
  <2>1. \A j, k \in DOMAIN cs :
          Waits(cs[j], "test") /\ Waits(cs[k], "test") /\ cs[j].id = cs[k].id => j = k
    BY DEF TestsMatch
  <2>2. \A j, k \in DOMAIN a :
          Waits(a[j], "test") /\ Waits(a[k], "test") /\ a[j].id = a[k].id => j = k
    BY <1>3, <1>4, <2>1
  <2>3. \A k \in DOMAIN a : Waits(a[k], "test") => Has(q.list, a[k].id) BY <1>3, <1>4
  <2>4. ASSUME NEW n \in SchemaNames
        PROVE  q.rows[n].testing = TRUE <=>
                 \E k \in DOMAIN a : Waits(a[k], "test") /\ a[k].id = n
    <3>1. p.rows[n].testing = TRUE <=> \E j \in DOMAIN cs : Waits(cs[j], "test") /\ cs[j].id = n
      BY DEF TestsMatch
    <3>2. q.rows[n].testing = TRUE <=> /\ p.rows[n].testing = TRUE /\ Has(q.list, n)
                                       /\ ~(Waits(cs[i], "test") /\ cs[i].id = n)
      BY DEF Concludes
    <3>3. ASSUME q.rows[n].testing = TRUE
          PROVE  \E k \in DOMAIN a : Waits(a[k], "test") /\ a[k].id = n
      <4>1. PICK j \in DOMAIN cs : Waits(cs[j], "test") /\ cs[j].id = n BY <3>1, <3>2, <3>3
      <4>2. j # i BY <3>2, <3>3, <4>1
      <4>3. PICK k \in DOMAIN a : m[k] = j BY <1>4, <4>2
      <4> QED BY <1>3, <1>4, <3>2, <3>3, <4>1, <4>3
    <3>4. ASSUME NEW k \in DOMAIN a, Waits(a[k], "test"), a[k].id = n
          PROVE  q.rows[n].testing = TRUE
      <4>1. /\ m[k] \in DOMAIN cs /\ m[k] # i /\ Waits(cs[m[k]], "test") /\ cs[m[k]].id = n
            /\ Has(q.list, n)
        BY <1>3, <1>4, <3>4
      <4>2. ~(Waits(cs[i], "test") /\ cs[i].id = n) BY <2>1, <4>1
      <4> QED BY <3>1, <3>2, <4>1, <4>2
    <3> QED BY <3>3, <3>4
  <2> QED BY <2>2, <2>3, <2>4 DEF TestsMatch
<1> QED BY <1>1, <1>5, <1>6, <1>7

\* SchemaPanel.tsx 298-320: a row that is no longer listed loses its state.
LEMMA KeptFacts ==
  ASSUME NEW p, PanelType(p), NEW q, q = Kept(p)
  PROVE  /\ PanelType(q) /\ q.busy = p.busy /\ q.deleting = p.deleting /\ q.list = p.list
         /\ \A n \in SchemaNames :
              q.rows[n].testing = TRUE <=> p.rows[n].testing = TRUE /\ Has(p.list, n)
<1>1. FreshRow \in RowState /\ FreshRow.testing = FALSE BY DEF FreshRow, RowState
<1>2. /\ DOMAIN q = PanelFields /\ q = [f \in PanelFields |-> q[f]] /\ q.busy = p.busy
      /\ q.list = p.list /\ q.deleting = p.deleting
      /\ q.rows = [n \in SchemaNames |-> IF Has(p.list, n) THEN p.rows[n] ELSE FreshRow]
  BY DEF Kept, PanelType, PanelFields
<1>3. p.rows \in [SchemaNames -> RowState] BY DEF PanelType
<1>4. q.rows \in [SchemaNames -> RowState] BY <1>1, <1>2, <1>3
<1>5. PanelType(q) BY <1>2, <1>4 DEF PanelType
<1> QED BY <1>1, <1>2, <1>5

\* SchemaPanel.tsx 180-183: a save drops no other row from the list.
LEMMA SavedFacts ==
  ASSUME NEW list, IsList(list), NEW row, NEW kind
  PROVE  /\ IsList(Saved(list, row, kind))
         /\ \A n : Has(list, n) => Has(Saved(list, row, kind), n)
         /\ Range(Saved(list, row, kind)) =
              {row} \cup {r \in Range(list) : kind = "webhooks" \/ r.id # row.id}
         /\ InjIds(list) /\ (kind = "webhooks" => ~Has(list, row.id))
              => InjIds(Saved(list, row, kind))
<1>1. PICK f : f = IF kind = "webhooks" THEN list ELSE Filtered(list, row.id) OBVIOUS
<1>2. IsList(f) /\ \A n : Has(list, n) /\ n # row.id => Has(f, n) BY <1>1, FilteredFacts
<1>3. PICK S : f \in Seq(S) BY <1>2 DEF IsList
<1>4. PICK s : s = <<row>> \o f OBVIOUS
<1>5. f \in Seq(S \cup {row}) /\ <<row>> \in Seq(S \cup {row}) BY <1>3
<1>6. s \in Seq(S \cup {row}) /\ Len(s) = Len(f) + 1 /\ Len(f) \in Nat BY <1>3, <1>4, <1>5
<1>7. s[1] = row /\ \A k \in DOMAIN f : s[k + 1] = f[k] /\ k + 1 \in DOMAIN s
  BY <1>3, <1>4, <1>6
<1>8. 1 \in DOMAIN s BY <1>6
<1>9. IsList(s) BY <1>6 DEF IsList
<1>10. ASSUME NEW n, Has(list, n) PROVE Has(s, n)
  <2>1. CASE n = row.id BY <1>7, <1>8, <2>1 DEF Has
  <2>2. CASE n # row.id
    <3>1. PICK k \in DOMAIN f : f[k].id = n BY <1>2, <1>10, <2>2 DEF Has
    <3> QED BY <1>7, <3>1 DEF Has
  <2> QED BY <2>1, <2>2
<1>11. Saved(list, row, kind) = s BY <1>1, <1>4 DEF Saved
<1>12. \A k \in DOMAIN s : k = 1 \/ \E j \in DOMAIN f : k = j + 1
  <2> SUFFICES ASSUME NEW k \in DOMAIN s, k # 1 PROVE \E j \in DOMAIN f : k = j + 1 OBVIOUS
  <2>1. k \in 2 .. Len(f) + 1 BY <1>6
  <2>2. k - 1 \in DOMAIN f /\ k = (k - 1) + 1 BY <1>3, <1>6, <2>1
  <2> QED BY <2>2
<1>13. Range(f) = {r \in Range(list) : kind = "webhooks" \/ r.id # row.id}
  <2>1. CASE kind = "webhooks" BY <1>1, <2>1
  <2>2. CASE kind # "webhooks" BY <1>1, <2>2, FilteredFacts
  <2> QED BY <2>1, <2>2
<1>14. Range(s) = {row} \cup Range(f)
  <2>1. ASSUME NEW r \in Range(s) PROVE r = row \/ r \in Range(f)
    <3>1. PICK k \in DOMAIN s : s[k] = r BY DEF Range
    <3> QED BY <1>7, <1>12, <3>1 DEF Range
  <2>2. row \in Range(s) BY <1>7, <1>8 DEF Range
  <2>3. ASSUME NEW r \in Range(f) PROVE r \in Range(s)
    <3>1. PICK k \in DOMAIN f : f[k] = r BY DEF Range
    <3> QED BY <1>7, <3>1 DEF Range
  <2> QED BY <2>1, <2>2, <2>3
<1>15. ASSUME InjIds(list), kind = "webhooks" => ~Has(list, row.id) PROVE InjIds(s)
  <2>1. InjIds(f) BY <1>1, <1>15, FilteredFacts
  <2>2. \A k \in DOMAIN f : f[k].id # row.id
    <3>1. CASE kind = "webhooks" BY <1>1, <1>15, <3>1 DEF Has
    <3>2. CASE kind # "webhooks" BY <1>13, <3>2 DEF Range
    <3> QED BY <3>1, <3>2
  <2>3. \A k \in DOMAIN f : k \in Nat BY <1>3
  <2> QED BY <1>7, <1>12, <2>1, <2>2, <2>3 DEF InjIds
<1> QED BY <1>9, <1>10, <1>11, <1>13, <1>14, <1>15

\* WebhookPanel.tsx 26-37 and 50-91, SchemaPanel.tsx 59-84, 149-160 and 177-221:
\* what the handlers do when they go on.
LEMMA AnswerConcludes ==
  ASSUME NEW p, PanelType(p), NEW c, CallType(c), c.live = TRUE, NEW q,
         \A n \in SchemaNames : p.rows[n].testing = TRUE => Has(p.list, n),
         q = CASE c.what = "load"   -> AfterLoad(p, c)
               [] c.what = "save"   -> AfterSave(p, c)
               [] c.what = "delete" -> AfterDelete(p, c)
               [] c.what = "test"   -> AfterTest(p, c)
  PROVE  Concludes(p, c, q)
<1>1. /\ IsList(p.list) /\ p.rows \in [SchemaNames -> RowState]
      /\ \A what : Waits(c, what) <=> c.what = what
  BY DEF PanelType, Waits
<1>2. ASSUME NEW r, DOMAIN r = PanelFields, r = [f \in PanelFields |-> r[f]],
             IsList(r.list), r.busy \in BOOLEAN, r.rows = p.rows
      PROVE  PanelType(r)
  BY <1>1, <1>2 DEF PanelType
<1>3. CASE c.what = "load"
  <2>1. CASE c.at = "ok"
    <3>1. PICK r : r = [p EXCEPT !.list = c.got] OBVIOUS
    <3>2. /\ DOMAIN r = PanelFields /\ r = [f \in PanelFields |-> r[f]] /\ r.busy = p.busy
          /\ r.list = c.got /\ r.deleting = p.deleting /\ r.rows = p.rows
      BY <3>1 DEF PanelType, PanelFields
    <3>3. PanelType(r) BY <1>2, <3>2 DEF PanelType, CallType
    <3>4. q = Kept(r) BY <1>3, <2>1, <3>1 DEF AfterLoad
    <3>5. /\ PanelType(q) /\ q.busy = r.busy /\ q.deleting = r.deleting /\ q.list = r.list
          /\ \A n \in SchemaNames :
               q.rows[n].testing = TRUE <=> r.rows[n].testing = TRUE /\ Has(r.list, n)
      BY <3>3, <3>4, KeptFacts
    <3> QED BY <1>1, <1>3, <3>2, <3>5 DEF Concludes
  <2>2. CASE c.at # "ok"
    <3>1. q = p BY <1>3, <2>2 DEF AfterLoad
    <3> QED BY <1>1, <1>3, <3>1 DEF Concludes
  <2> QED BY <2>1, <2>2
<1>4. CASE c.what = "save"
  <2>1. /\ DOMAIN q = PanelFields /\ q = [f \in PanelFields |-> q[f]] /\ q.busy = FALSE
        /\ q.deleting = p.deleting /\ q.rows = p.rows
        /\ q.list = IF c.at = "ok" THEN Saved(p.list, [id |-> c.id, mode |-> c.mode], c.kind)
                    ELSE p.list
    <3>1. q = AfterSave(p, c) BY <1>4
    <3> QED BY <3>1 DEF AfterSave, PanelType, PanelFields
  <2>2. PICK row, k : row = [id |-> c.id, mode |-> c.mode] /\ k = c.kind OBVIOUS
  <2>3. IsList(q.list) /\ \A n : Has(p.list, n) => Has(q.list, n)
    <3>1. CASE c.at = "ok"
      <4>1. q.list = Saved(p.list, row, k) BY <2>1, <2>2, <3>1
      <4> QED BY <1>1, <4>1, SavedFacts
    <3>2. CASE c.at # "ok" BY <1>1, <2>1, <3>2
    <3> QED BY <3>1, <3>2
  <2>4. PanelType(q)
    <3>1. q.busy \in BOOLEAN /\ q.rows \in [SchemaNames -> RowState] BY <1>1, <2>1
    <3> QED BY <2>1, <2>3, <3>1 DEF PanelType
  <2> QED BY <1>1, <1>4, <2>1, <2>3, <2>4 DEF Concludes
<1>5. CASE c.what = "delete"
  <2>1. q = AfterDelete(p, c) BY <1>5
  <2>2. CASE c.at = "ok"
    <3>1. PICK l : l = Filtered(p.list, c.id) OBVIOUS
    <3>2. PICK r : r = [p EXCEPT !.deleting = None, !.list = l] OBVIOUS
    <3>3. /\ DOMAIN r = PanelFields /\ r = [f \in PanelFields |-> r[f]] /\ r.busy = p.busy
          /\ r.list = l /\ r.deleting = None /\ r.rows = p.rows
      BY <3>2 DEF PanelType, PanelFields
    <3>4. IsList(l) BY <1>1, <3>1, FilteredFacts
    <3>5. PanelType(r) BY <1>2, <3>3, <3>4 DEF PanelType
    <3>6. q = Kept(r) BY <2>1, <2>2, <3>1, <3>2 DEF AfterDelete
    <3>7. /\ PanelType(q) /\ q.busy = r.busy /\ q.deleting = r.deleting /\ q.list = r.list
          /\ \A n \in SchemaNames :
               q.rows[n].testing = TRUE <=> r.rows[n].testing = TRUE /\ Has(r.list, n)
      BY <3>5, <3>6, KeptFacts
    <3> QED BY <1>1, <1>5, <3>3, <3>7 DEF Concludes
  <2>3. CASE c.at # "ok"
    <3>1. /\ DOMAIN q = PanelFields /\ q = [f \in PanelFields |-> q[f]] /\ q.busy = p.busy
          /\ q.list = p.list /\ q.deleting = None /\ q.rows = p.rows
      BY <2>1, <2>3 DEF AfterDelete, PanelType, PanelFields
    <3>2. PanelType(q) BY <1>1, <1>2, <3>1 DEF PanelType
    <3> QED BY <1>1, <1>5, <3>1, <3>2 DEF Concludes
  <2> QED BY <2>2, <2>3
<1>6. CASE c.what = "test"
  <2>1. q = AfterTest(p, c) /\ c.id \in SchemaNames BY <1>6 DEF CallType
  <2>2. PICK t : t = [testing |-> FALSE, result |-> c.at, timers |-> p.rows[c.id].timers + 1]
    OBVIOUS
  <2>3. t \in RowState /\ t.testing = FALSE
    <3>1. p.rows[c.id].timers + 1 \in Nat BY <1>1, <2>1 DEF RowState
    <3> QED BY <2>2, <3>1 DEF RowState, CallType
  <2>4. /\ DOMAIN q = PanelFields /\ q = [f \in PanelFields |-> q[f]] /\ q.busy = p.busy
        /\ q.list = p.list /\ q.deleting = p.deleting /\ q.rows = [p.rows EXCEPT ![c.id] = t]
    BY <2>1, <2>2 DEF AfterTest, PanelType, PanelFields
  <2>5. /\ q.rows \in [SchemaNames -> RowState] /\ q.rows[c.id].testing = FALSE
        /\ \A n \in SchemaNames \ {c.id} : q.rows[n] = p.rows[n]
    BY <1>1, <2>1, <2>3, <2>4
  <2>6. PanelType(q) BY <2>4, <2>5 DEF PanelType
  <2>7. \A n \in SchemaNames : q.rows[n].testing = TRUE <=>
          p.rows[n].testing = TRUE /\ Has(q.list, n) /\ ~(c.id = n)
    BY <2>4, <2>5
  <2> QED BY <1>1, <1>6, <2>4, <2>6, <2>7 DEF Concludes
<1> QED BY <1>3, <1>4, <1>5, <1>6 DEF CallType

LEMMA AnswerKeeps ==
  ASSUME PanelInv, NEW i \in DOMAIN calls, Answer(i)
  PROVE  PanelInv'
<1>1. PICK s, c, p : s = calls /\ c = s[i] /\ p = panel OBVIOUS
<1>2. /\ CallsType(s) /\ i \in DOMAIN s /\ CallType(c) /\ PanelType(p)
      /\ SaveMatches(p, s) /\ DeleteMatches(p, s) /\ TestsMatch(p, s)
  BY <1>1 DEF PanelInv, CallsType
<1>3. \A n \in SchemaNames : p.rows[n].testing = TRUE => Has(p.list, n)
  BY <1>2 DEF TestsMatch
<1>4. PICK q : q = panel' OBVIOUS
<1>5. Concludes(p, c, q)
  <2>1. CASE c.live = TRUE
    <3>1. q = CASE c.what = "load"   -> AfterLoad(p, c)
                [] c.what = "save"   -> AfterSave(p, c)
                [] c.what = "delete" -> AfterDelete(p, c)
                [] c.what = "test"   -> AfterTest(p, c)
      BY <1>1, <1>4, <2>1 DEF Answer
    <3> QED BY <1>2, <1>3, <2>1, <3>1, AnswerConcludes
  <2>2. CASE c.live # TRUE
    <3>1. c.live = FALSE BY <1>2, <2>2 DEF CallType
    <3>2. q = p BY <1>1, <1>4, <3>1 DEF Answer
    <3> QED BY <1>2, <1>3, <3>1, <3>2 DEF Concludes, Waits
  <2> QED BY <2>1, <2>2
<1>6. PICK a : a = StillLive(RemoveAt(s, i), q.list) OBVIOUS
<1>7. calls' = a /\ server' = server BY <1>1, <1>4, <1>6 DEF Answer
<1>8. Concludes(p, s[i], q) BY <1>1, <1>5
<1>9. CallsType(a) /\ SaveMatches(q, a) /\ DeleteMatches(q, a) /\ TestsMatch(q, a)
  BY <1>2, <1>6, <1>8, ConcludesKeeps
<1>10. ServerType' BY <1>7 DEF PanelInv, ServerType
<1> QED BY <1>4, <1>5, <1>7, <1>9, <1>10 DEF PanelInv, Concludes

LEMMA PanelStep == PanelInv /\ [Next]_vars => PanelInv'
<1> SUFFICES ASSUME PanelInv, [Next]_vars PROVE PanelInv' OBVIOUS
<1>1. ASSUME UNCHANGED panelVars PROVE PanelInv'
  BY <1>1 DEF panelVars, PanelInv, ServerType
<1>2. CASE LeaveTab BY <1>2, MountKeeps DEF LeaveTab
<1>3. CASE EnterTab BY <1>1, <1>3 DEF EnterTab
<1>4. CASE ClosePanel BY <1>4, MountKeeps DEF ClosePanel
<1>5. CASE \E kind \in {"webhooks", "schemas"} : OpenPanel(kind)
  BY <1>5, MountKeeps DEF OpenPanel
<1>6. CASE \E kind \in Kinds : Send(kind) BY <1>1, <1>6 DEF Send
<1>7. CASE UsePanel BY <1>7, HandlersKeep DEF UsePanel
<1>8. CASE Finish BY <1>1, <1>8 DEF Finish
<1>9. CASE SenderTimer BY <1>1, <1>9 DEF SenderTimer
<1>10. CASE LockTimer BY <1>1, <1>10 DEF LockTimer
<1>11. CASE Api BY <1>11, ServeKeeps DEF Api
<1>12. CASE PanelAnswer BY <1>12, AnswerKeeps DEF PanelAnswer
<1>13. CASE PanelTimer BY <1>13, PanelTimerKeeps DEF PanelTimer
<1>14. CASE UNCHANGED vars BY <1>1, <1>14 DEF vars
<1> QED BY <1>2, <1>3, <1>4, <1>5, <1>6, <1>7, <1>8, <1>9, <1>10, <1>11, <1>12, <1>13, <1>14
        DEF Next

\* EventSender.tsx 76-205, WebhookPanel.tsx 39-91, SchemaPanel.tsx 49-84 and
\* 162-221: in every behaviour the send, save and test buttons are disabled
\* exactly while a request of theirs is under way and a delete button only while
\* one is, whatever is mounted, unmounted, answered or lost meanwhile.
THEOREM ButtonsAreTrue == Spec => []BusyFlagsAreTrue
<1>1. ASSUME SenderInv, PanelInv PROVE BusyFlagsAreTrue
  <2>1. sender.sending = (\E i \in DOMAIN sends : sends[i].live)
    <3>1. sender.sending \in BOOLEAN BY <1>1 DEF SenderInv, SenderType, SenderState
    <3>2. sender.sending = TRUE <=> \E i \in DOMAIN sends : sends[i].live
      BY <1>1 DEF SenderInv, OneLiveSend
    <3> QED BY <3>1, <3>2
  <2>2. pipelining => sends # <<>> BY <1>1 DEF SenderInv, PipeIsSending
  <2>3. \A i \in DOMAIN calls : calls[i].live \in BOOLEAN
    BY <1>1 DEF PanelInv, CallsType, CallType
  <2>4. panel.busy = (\E i \in DOMAIN calls : calls[i].live /\ calls[i].what = "save")
    <3>1. panel.busy \in BOOLEAN BY <1>1 DEF PanelInv, PanelType
    <3>2. panel.busy = TRUE <=> \E i \in DOMAIN calls : Waits(calls[i], "save")
      BY <1>1 DEF PanelInv, SaveMatches
    <3>3. (\E i \in DOMAIN calls : Waits(calls[i], "save")) <=>
            \E i \in DOMAIN calls : calls[i].live /\ calls[i].what = "save"
      BY <2>3 DEF Waits
    <3> QED BY <3>1, <3>2, <3>3
  <2>5. panel.deleting # None =>
          \E i \in DOMAIN calls : calls[i].live /\ calls[i].what = "delete"
                                  /\ calls[i].id = panel.deleting
    BY <1>1 DEF PanelInv, DeleteMatches, Waits
  <2>6. ASSUME NEW n \in SchemaNames
        PROVE  panel.rows[n].testing =
                 (\E i \in DOMAIN calls : calls[i].live /\ calls[i].what = "test"
                                          /\ calls[i].id = n)
    <3>1. panel.rows[n].testing \in BOOLEAN BY <1>1 DEF PanelInv, PanelType, RowState
    <3>2. panel.rows[n].testing = TRUE <=>
            \E i \in DOMAIN calls : Waits(calls[i], "test") /\ calls[i].id = n
      BY <1>1 DEF PanelInv, TestsMatch
    <3>3. (\E i \in DOMAIN calls : Waits(calls[i], "test") /\ calls[i].id = n) <=>
            \E i \in DOMAIN calls : calls[i].live /\ calls[i].what = "test" /\ calls[i].id = n
      BY <2>3 DEF Waits
    <3> QED BY <3>1, <3>2, <3>3
  <2> QED BY <2>1, <2>2, <2>4, <2>5, <2>6 DEF BusyFlagsAreTrue
<1>2. Spec => []SenderInv BY SenderStarts, SenderStep, PTL DEF Spec
<1>3. Spec => []PanelInv BY PanelsStart, PanelStep, PTL DEF Spec
<1> QED BY <1>1, <1>2, <1>3, PTL

-----------------------------------------------------------------------------
\* A row of a kind, when n webhooks have been created.
RowOf(r, kind, n) == r.id \in Nat /\ (kind = "webhooks" => r.id <= n)

\* What the panel lists.
ListOk(kind, l, n) == /\ kind \in {"closed", "webhooks", "schemas"}
                      /\ kind = "closed" => l = <<>>
                      /\ \A i \in DOMAIN l : RowOf(l[i], kind, n)
                      /\ kind = "schemas" => InjIds(l)

\* The rows of the API: an id is that of one row.
ServerOk(sv, n) ==
  \A kind \in {"webhooks", "schemas"} : /\ \A r \in sv[kind] : RowOf(r, kind, n)
                                        /\ \A r, q \in sv[kind] : r.id = q.id => r = q

\* A call, when a panel of the kind is mounted.
CallOk(c, kind, n) == /\ c.kind \in {"webhooks", "schemas"}
                      /\ c.live = TRUE => c.kind = kind
                      /\ RowOf(c, c.kind, n)
                      /\ InjIds(c.got) /\ \A k \in DOMAIN c.got : RowOf(c.got[k], c.kind, n)

ListsOk(kind, l, cs, sv, n) == /\ n \in Nat /\ ListOk(kind, l, n) /\ ServerOk(sv, n)
                               /\ \A i \in DOMAIN cs : CallOk(cs[i], kind, n)

\* The API has changed a row for this call, and the panel does not know it yet.
Acted(c, kind) == c.kind = kind /\ c.at = "ok" /\ c.what \in {"save", "delete"}

RowOfCall(c) == [id |-> c.id, mode |-> c.mode]

\* A row that the panel lists, or will list when it knows.
WillList(r, kind, l, cs) ==
  \/ r \in Range(l) /\ \A i \in DOMAIN cs : Acted(cs[i], kind) => cs[i].id # r.id
  \/ \E i \in DOMAIN cs : Acted(cs[i], kind) /\ cs[i].what = "save" /\ r = RowOfCall(cs[i])

\* The handlers of an earlier panel are through, or it was of the other kind.
AllLive(kind, cs) ==
  \A i \in DOMAIN cs : cs[i].kind = kind /\ cs[i].what # "test" => cs[i].live = TRUE

\* Nothing is asked for until the list is loaded.
LoadAlone(kind, l, cs, sv) ==
  \A i \in DOMAIN cs : cs[i].kind = kind /\ cs[i].what = "load" =>
    /\ \A j \in DOMAIN cs : cs[j].kind = kind => j = i
    /\ l = <<>> /\ cs[i].at \in {"asked", "ok"}
    /\ cs[i].at = "ok" => Range(cs[i].got) = sv[kind]

\* No row is saved and deleted at once, and a new webhook is not listed yet.
Apart(kind, l, cs) ==
  \A i \in DOMAIN cs : cs[i].kind = kind /\ cs[i].what = "save" =>
    /\ kind = "schemas" \/ cs[i].at = "ok" =>
         \A j \in DOMAIN cs : cs[j].kind = kind /\ cs[j].what = "delete" => cs[i].id # cs[j].id
    /\ kind = "webhooks" /\ cs[i].at = "ok" => ~Has(l, cs[i].id)

\* The API has what the panel lists or will list.
Accounts(kind, l, cs, sv) ==
  (\A i \in DOMAIN cs : cs[i].kind = kind => cs[i].what # "load") =>
    \A r : r \in sv[kind] <=> WillList(r, kind, l, cs)

InStep(kind, l, cs, sv) == /\ AllLive(kind, cs) /\ InjIds(l) /\ LoadAlone(kind, l, cs, sv)
                           /\ Apart(kind, l, cs) /\ Accounts(kind, l, cs, sv)

\* The list against the API.
ListInv == /\ ListsOk(panel.kind, panel.list, calls, server, created)
           /\ clean = TRUE /\ panel.kind # "closed" =>
                InStep(panel.kind, panel.list, calls, server)

-----------------------------------------------------------------------------
\* internal/webhooks/store.go, internal/schemas/store.go: the list that
\* the API answers with has every row once, in the order of the ids.
LEMMA ListingIsServer ==
  ASSUME NEW kind, IsFiniteSet(server[kind]), \A r \in server[kind] : r.id \in Nat,
         \A r, q \in server[kind] : r.id = q.id => r = q
  PROVE  InjIds(Listing(kind)) /\ Range(Listing(kind)) = server[kind]
<1> DEFINE S == server[kind]
           Smaller(r) == {q \in S : Before(kind, q, r)}
           Rank(r) == Cardinality(Smaller(r))
           Row(i) == CHOOSE r \in S : Rank(r) = i - 1
<1>1. PICK n \in Nat : n = Cardinality(S) BY FS_CardinalityType
<1>15. PICK f : f = Listing(kind) OBVIOUS
<1>2. f = [i \in 1 .. n |-> Row(i)] BY <1>1, <1>15, Zenon DEF Listing
<1>16. IsFiniteSet(S) /\ (\A r \in S : r.id \in Nat) /\ \A r, q \in S : r.id = q.id => r = q
  OBVIOUS
<1> HIDE DEF S
<1> USE <1>16
<1>3. \A r \in S : ~Before(kind, r, r) BY DEF Before
<1>4. \A a, b \in S : a # b => Before(kind, a, b) \/ Before(kind, b, a) BY DEF Before
<1>5. \A a, b, q \in S : Before(kind, q, a) /\ Before(kind, a, b) => Before(kind, q, b)
  BY DEF Before
<1>6. \A r \in S : Smaller(r) \in SUBSET S /\ IsFiniteSet(Smaller(r)) /\ Rank(r) \in Nat
  <2> SUFFICES ASSUME NEW r \in S
               PROVE  Smaller(r) \in SUBSET S /\ IsFiniteSet(Smaller(r)) /\ Rank(r) \in Nat
    OBVIOUS
  <2>1. Smaller(r) \in SUBSET S OBVIOUS
  <2> HIDE DEF Smaller
  <2>2. IsFiniteSet(Smaller(r)) BY <2>1, FS_Subset
  <2> QED BY <2>1, <2>2, FS_CardinalityType
<1>7. ASSUME NEW a \in S, NEW b \in S, Before(kind, a, b) PROVE Rank(a) < Rank(b)
  <2>1. Smaller(a) \in SUBSET Smaller(b) /\ a \in Smaller(b) /\ ~(a \in Smaller(a))
    BY <1>3, <1>5, <1>7
  <2>2. PICK A, B : A = Smaller(a) /\ B = Smaller(b) OBVIOUS
  <2>3. IsFiniteSet(B) /\ A \in SUBSET B /\ A # B BY <1>6, <2>1, <2>2
  <2>4. Cardinality(A) <= Cardinality(B) /\ Cardinality(A) # Cardinality(B)
    BY <2>3, FS_Subset
  <2>5. Cardinality(A) \in Nat /\ Cardinality(B) \in Nat BY <1>6, <2>2
  <2> QED BY <2>2, <2>4, <2>5
<1>8. \A r \in S : Rank(r) \in 0 .. n - 1
  <2> SUFFICES ASSUME NEW r \in S PROVE Rank(r) \in 0 .. n - 1 OBVIOUS
  <2>1. PICK A : A = Smaller(r) OBVIOUS
  <2>2. A \in SUBSET S /\ A # S BY <1>3, <2>1
  <2>3. Cardinality(A) <= Cardinality(S) /\ Cardinality(A) # Cardinality(S) BY <2>2, FS_Subset
  <2>4. Cardinality(A) \in Nat BY <1>6, <2>1
  <2> QED BY <1>1, <2>1, <2>3, <2>4
<1> HIDE DEF Smaller, Rank
<1>9. \A a, b \in S : Rank(a) = Rank(b) => a = b BY <1>4, <1>6, <1>7
<1>10. \A k \in 0 .. n - 1 : \E r \in S : Rank(r) = k
  <2>1. PICK T : T = 0 .. n - 1 OBVIOUS
  <2>2. IsFiniteSet(T) /\ Cardinality(T) = n
    <3>1. IsFiniteSet(0 .. n - 1) /\ Cardinality(0 .. n - 1) = IF 0 > n - 1 THEN 0 ELSE n - 1 - 0 + 1
      BY FS_Interval
    <3> QED BY <1>1, <2>1, <3>1
  <2>3. PICK g : g = [r \in S |-> Rank(r)] OBVIOUS
  <2>4. g \in [S -> T] BY <1>8, <2>1, <2>3
  <2>5. g \in Injection(S, T)
    <3>1. \A a, b \in S : g[a] = g[b] => a = b BY <1>9, <2>3
    <3> QED BY <2>4, <3>1 DEF Injection, IsInjective
  <2>6. g \in Surjection(S, T) BY <1>1, <2>2, <2>5, FS_Injection
  <2>7. \A k \in T : \E r \in S : g[r] = k BY <2>6 DEF Surjection
  <2> QED BY <2>1, <2>3, <2>7
<1>11. \A i \in 1 .. n : f[i] \in S /\ Rank(f[i]) = i - 1
  <2> SUFFICES ASSUME NEW i \in 1 .. n PROVE f[i] \in S /\ Rank(f[i]) = i - 1 OBVIOUS
  <2>1. i - 1 \in 0 .. n - 1 BY <1>1
  <2>2. \E r \in S : Rank(r) = i - 1 BY <1>10, <2>1
  <2>3. Row(i) \in S /\ Rank(Row(i)) = i - 1 BY <2>2, Zenon
  <2>4. f[i] = Row(i) BY <1>2
  <2> QED BY <2>3, <2>4
<1> HIDE DEF Row
<1>12. DOMAIN f = 1 .. n BY <1>2
<1>13. InjIds(f)
  <2>1. ASSUME NEW i \in 1 .. n, NEW j \in 1 .. n, f[i].id = f[j].id PROVE i = j
    <3>1. f[i] = f[j] BY <1>11, <2>1
    <3>2. i - 1 = j - 1 BY <1>11, <3>1
    <3> QED BY <3>2
  <2> QED BY <1>12, <2>1 DEF InjIds
<1>14. Range(f) = S
  <2>1. \A r \in Range(f) : r \in S BY <1>11, <1>12 DEF Range
  <2>2. ASSUME NEW r \in S PROVE r \in Range(f)
    <3>1. PICK k \in 0 .. n - 1 : k = Rank(r) BY <1>8
    <3>2. k + 1 \in 1 .. n /\ (k + 1) - 1 = k BY <1>1
    <3>3. f[k + 1] \in S /\ Rank(f[k + 1]) = k BY <1>11, <3>2
    <3>4. f[k + 1] = r BY <1>9, <3>1, <3>3
    <3> QED BY <1>12, <3>2, <3>4 DEF Range
  <2> QED BY <2>1, <2>2
<1> QED BY <1>13, <1>14, <1>15 DEF S

\* The list when the handler of a call has gone on.
NextList(l, c) == IF c.live = TRUE /\ c.at = "ok"
                  THEN CASE c.what = "load"   -> c.got
                         [] c.what = "save"   -> Saved(l, RowOfCall(c), c.kind)
                         [] c.what = "delete" -> Filtered(l, c.id)
                         [] c.what = "test"   -> l
                  ELSE l

LEMMA NextListCases ==
  ASSUME NEW l, NEW c, CallType(c)
  PROVE  \/ c.live = TRUE /\ c.at = "ok" /\ c.what = "load" /\ NextList(l, c) = c.got
         \/ /\ c.live = TRUE /\ c.at = "ok" /\ c.what = "save"
            /\ NextList(l, c) = Saved(l, RowOfCall(c), c.kind)
         \/ c.live = TRUE /\ c.at = "ok" /\ c.what = "delete" /\ NextList(l, c) = Filtered(l, c.id)
         \/ (c.live # TRUE \/ c.at # "ok" \/ c.what = "test") /\ NextList(l, c) = l
BY DEF NextList, CallType

\* An element of a list, by its position or in its range.
LEMMA RangeFacts ==
  ASSUME NEW l
  PROVE  /\ \A i \in DOMAIN l : l[i] \in Range(l)
         /\ \A r \in Range(l) : \E i \in DOMAIN l : l[i] = r
         /\ \A n : Has(l, n) <=> \E r \in Range(l) : r.id = n
BY DEF Range, Has

LEMMA NextListOk ==
  ASSUME NEW kind, NEW l, NEW n, ListOk(kind, l, n), IsList(l), NEW c, CallType(c),
         CallOk(c, kind, n), NEW q, q = NextList(l, c)
  PROVE  ListOk(kind, q, n)
<1>1. kind \in {"closed", "webhooks", "schemas"} BY DEF ListOk
<1>2. CASE c.live = TRUE /\ c.at = "ok" /\ c.what = "load" /\ q = c.got
  BY <1>1, <1>2 DEF ListOk, CallOk
<1>3. CASE /\ c.live = TRUE /\ c.at = "ok" /\ c.what = "save"
           /\ q = Saved(l, RowOfCall(c), c.kind)
  <2>1. PICK row, k : row = RowOfCall(c) /\ k = c.kind OBVIOUS
  <2>2. q = Saved(l, row, k) BY <1>3, <2>1
  <2>3. /\ Range(q) = {row} \cup {r \in Range(l) : k = "webhooks" \/ r.id # row.id}
        /\ InjIds(l) /\ (k = "webhooks" => ~Has(l, row.id)) => InjIds(q)
    BY <2>2, SavedFacts
  <2>4. row.id = c.id /\ k = kind /\ kind # "closed" BY <1>3, <2>1 DEF RowOfCall, CallOk
  <2>5. RowOf(row, kind, n) BY <1>3, <2>1, <2>4 DEF CallOk, RowOf
  <2>6. \A r \in Range(l) : RowOf(r, kind, n) BY RangeFacts DEF ListOk
  <2>7. \A r \in Range(q) : RowOf(r, kind, n) BY <2>3, <2>5, <2>6
  <2>8. \A i \in DOMAIN q : RowOf(q[i], kind, n) BY <2>7, RangeFacts
  <2>9. kind = "schemas" => InjIds(q) BY <2>3, <2>4 DEF ListOk
  <2> QED BY <1>1, <2>4, <2>8, <2>9 DEF ListOk
<1>4. CASE c.live = TRUE /\ c.at = "ok" /\ c.what = "delete" /\ q = Filtered(l, c.id)
  <2>1. PICK id : id = c.id OBVIOUS
  <2>2. Range(q) = {r \in Range(l) : r.id # id} /\ (InjIds(l) => InjIds(q))
    BY <1>4, <2>1, FilteredFacts
  <2>3. \A r \in Range(l) : RowOf(r, kind, n) BY RangeFacts DEF ListOk
  <2>4. \A i \in DOMAIN q : RowOf(q[i], kind, n) BY <2>2, <2>3, RangeFacts
  <2>5. kind # "closed" BY <1>4 DEF CallOk
  <2> QED BY <1>1, <2>2, <2>4, <2>5 DEF ListOk
<1>5. CASE q = l BY <1>5
<1> QED BY <1>2, <1>3, <1>4, <1>5, NextListCases

\* The calls that are left, one by one.
LEMMA LeftOk ==
  ASSUME NEW kind, NEW n, NEW cs, \A i \in DOMAIN cs : CallOk(cs[i], kind, n),
         NEW i \in DOMAIN cs, NEW l, NEW a, Left(cs, i, l, a)
  PROVE  \A k \in DOMAIN a : CallOk(a[k], kind, n)
<1> SUFFICES ASSUME NEW k \in DOMAIN a PROVE CallOk(a[k], kind, n) OBVIOUS
<1>1. PICK j \in DOMAIN cs : SameCall(a[k], cs[j]) /\ (a[k].live = TRUE => cs[j].live = TRUE)
  BY DEF Left
<1>2. CallOk(cs[j], kind, n) OBVIOUS
<1> QED BY <1>1, <1>2 DEF SameCall, CallOk, RowOf

\* WebhookPanel.tsx 26-91, SchemaPanel.tsx 149-221: when a handler goes on, the
\* list gets the change that the API made for it, and stays in step.
LEMMA AnsweredInStep ==
  ASSUME NEW kind, kind # "closed", NEW l, IsList(l), NEW cs, CallsType(cs), NEW sv, NEW n,
         ListsOk(kind, l, cs, sv, n), InStep(kind, l, cs, sv),
         \A i, j \in DOMAIN cs : Waits(cs[i], "save") /\ Waits(cs[j], "save") => i = j,
         NEW i \in DOMAIN cs, cs[i].at # "asked", NEW q, q = NextList(l, cs[i]),
         NEW a, Left(cs, i, q, a)
  PROVE  InStep(kind, q, a, sv)
<1>1. PICK m :
        /\ \A k \in DOMAIN a :
             /\ m[k] \in DOMAIN cs \ {i} /\ SameCall(a[k], cs[m[k]])
             /\ a[k].live = TRUE <=>
                  cs[m[k]].live = TRUE /\ (cs[m[k]].what = "test" => Has(q, cs[m[k]].id))
        /\ \A j \in DOMAIN cs \ {i} : \E k \in DOMAIN a : m[k] = j
        /\ \A j, k \in DOMAIN a : m[j] = m[k] => j = k
  BY DEF Left
<1>2. \A k \in DOMAIN a :
        /\ m[k] \in DOMAIN cs /\ m[k] # i
        /\ a[k].kind = cs[m[k]].kind /\ a[k].what = cs[m[k]].what /\ a[k].id = cs[m[k]].id
        /\ a[k].mode = cs[m[k]].mode /\ a[k].at = cs[m[k]].at /\ a[k].got = cs[m[k]].got
        /\ a[k].what # "test" => (a[k].live = TRUE <=> cs[m[k]].live = TRUE)
        /\ RowOfCall(a[k]) = RowOfCall(cs[m[k]])
        /\ Acted(a[k], kind) <=> Acted(cs[m[k]], kind)
  BY <1>1 DEF SameCall, RowOfCall, Acted
<1>3. \A j \in DOMAIN cs : j # i => \E k \in DOMAIN a : m[k] = j BY <1>1
<1>4. PICK c : c = cs[i] OBVIOUS
<1>5. CallType(c) /\ CallOk(c, kind, n) /\ q = NextList(l, c) /\ c.at # "asked"
  BY <1>4 DEF CallsType, ListsOk
<1>6. c.kind = kind /\ c.what # "test" => c.live = TRUE BY <1>4 DEF InStep, AllLive
<1>7. c.live = TRUE => c.kind = kind BY <1>5 DEF CallOk
<1>8. AllLive(kind, a) BY <1>2 DEF InStep, AllLive
<1>9. LoadAlone(kind, q, a, sv)
  <2> SUFFICES ASSUME NEW k \in DOMAIN a, a[k].kind = kind, a[k].what = "load"
               PROVE  /\ \A j \in DOMAIN a : a[j].kind = kind => j = k
                      /\ q = <<>> /\ a[k].at \in {"asked", "ok"}
                      /\ a[k].at = "ok" => Range(a[k].got) = sv[kind]
    BY DEF LoadAlone
  <2>1. /\ \A j \in DOMAIN cs : cs[j].kind = kind => j = m[k]
        /\ l = <<>> /\ cs[m[k]].at \in {"asked", "ok"}
        /\ cs[m[k]].at = "ok" => Range(cs[m[k]].got) = sv[kind]
    BY <1>2 DEF InStep, LoadAlone
  <2>2. c.live # TRUE BY <1>2, <1>4, <1>7, <2>1
  <2>3. q = l BY <1>5, <2>2 DEF NextList
  <2> QED BY <1>1, <1>2, <2>1, <2>3
<1>10. \A j \in DOMAIN cs : /\ cs[j].kind = kind /\ cs[j].what = "save" => Waits(cs[j], "save")
  BY DEF InStep, AllLive, Waits
<1>11. CASE c.live = TRUE /\ c.at = "ok" /\ c.what = "load" /\ q = c.got
  <2>1. /\ \A j \in DOMAIN cs : cs[j].kind = kind => j = i
        /\ Range(c.got) = sv[kind]
    BY <1>4, <1>7, <1>11 DEF InStep, LoadAlone
  <2>2. \A k \in DOMAIN a : a[k].kind # kind BY <1>2, <2>1
  <2>3. InjIds(q) BY <1>5, <1>11 DEF CallOk
  <2>4. Apart(kind, q, a) BY <2>2 DEF Apart
  <2>5. \A r : r \in sv[kind] <=> WillList(r, kind, q, a)
    BY <1>11, <2>1, <2>2 DEF WillList, Acted
  <2> QED BY <1>8, <1>9, <2>3, <2>4, <2>5 DEF InStep, Accounts
<1>12. CASE /\ c.live = TRUE /\ c.at = "ok" /\ c.what = "save"
            /\ q = Saved(l, RowOfCall(c), c.kind)
  <2>1. PICK row : row = RowOfCall(c) OBVIOUS
  <2>2. c.kind = kind /\ q = Saved(l, row, kind) /\ row.id = c.id
    BY <1>7, <1>12, <2>1 DEF RowOfCall
  <2>3. /\ Range(q) = {row} \cup {r \in Range(l) : kind = "webhooks" \/ r.id # row.id}
        /\ InjIds(l) /\ (kind = "webhooks" => ~Has(l, row.id)) => InjIds(q)
    BY <2>2, SavedFacts
  <2>4. kind \in {"webhooks", "schemas"} BY DEF ListsOk, ListOk
  <2>5. /\ kind = "webhooks" => ~Has(l, row.id)
        /\ \A j \in DOMAIN cs : cs[j].kind = kind /\ cs[j].what = "delete" => row.id # cs[j].id
    BY <1>4, <1>12, <2>2, <2>4 DEF InStep, Apart
  <2>6. InjIds(q) BY <2>3, <2>5 DEF InStep
  <2>7. \A k \in DOMAIN a : a[k].kind = kind => a[k].what # "save"
    BY <1>2, <1>4, <1>10, <1>12, <2>2
  <2>8. Apart(kind, q, a) BY <2>7 DEF Apart
  <2>9. \A j \in DOMAIN cs : cs[j].kind = kind => cs[j].what # "load"
    BY <1>4, <1>12, <2>2 DEF InStep, LoadAlone
  <2>10. ASSUME NEW r PROVE r \in sv[kind] <=> WillList(r, kind, q, a)
    <3>1. r \in sv[kind] <=> WillList(r, kind, l, cs) BY <2>9 DEF InStep, Accounts
    <3>2. Acted(cs[i], kind) BY <1>4, <1>12, <2>2 DEF Acted
    <3>3. \A j \in DOMAIN cs : Acted(cs[j], kind) /\ cs[j].what = "save" => j = i
      BY <1>4, <1>10, <1>12, <2>2 DEF Acted
    <3>4. WillList(r, kind, l, cs) <=>
            \/ r \in Range(l) /\ \A j \in DOMAIN cs : Acted(cs[j], kind) => cs[j].id # r.id
            \/ r = row
      BY <1>4, <1>12, <2>1, <3>2, <3>3 DEF WillList
    <3>5. WillList(r, kind, q, a) <=>
            r \in Range(q) /\ \A k \in DOMAIN a : Acted(a[k], kind) => a[k].id # r.id
      BY <2>7 DEF WillList, Acted
    <3>6. (\A k \in DOMAIN a : Acted(a[k], kind) => a[k].id # r.id) <=>
          \A j \in DOMAIN cs : j # i /\ Acted(cs[j], kind) => cs[j].id # r.id
      BY <1>2, <1>3
    <3>7. \A j \in DOMAIN cs : j # i /\ Acted(cs[j], kind) => cs[j].id # row.id
      BY <2>5, <3>3 DEF Acted
    <3>8. r \in Range(l) => (kind = "webhooks" => r.id # row.id) BY <2>5, RangeFacts
    <3>9. cs[i].id = row.id BY <1>4, <2>2
    <3> QED BY <2>3, <3>1, <3>2, <3>4, <3>5, <3>6, <3>7, <3>8, <3>9
  <2> QED BY <1>8, <1>9, <2>6, <2>8, <2>10 DEF InStep, Accounts
<1>13. CASE c.live = TRUE /\ c.at = "ok" /\ c.what = "delete" /\ q = Filtered(l, c.id)
  <2>1. PICK id : id = c.id OBVIOUS
  <2>2. c.kind = kind BY <1>7, <1>13
  <2>3. Range(q) = {r \in Range(l) : r.id # id} /\ (InjIds(l) => InjIds(q))
    BY <1>13, <2>1, FilteredFacts
  <2>4. InjIds(q) BY <2>3 DEF InStep
  <2>5. \A x : Has(q, x) => Has(l, x) BY <2>3, RangeFacts
  <2>6. Apart(kind, q, a) BY <1>2, <2>5 DEF InStep, Apart
  <2>7. \A j \in DOMAIN cs : cs[j].kind = kind => cs[j].what # "load"
    BY <1>4, <1>13, <2>2 DEF InStep, LoadAlone
  <2>8. ASSUME NEW r PROVE r \in sv[kind] <=> WillList(r, kind, q, a)
    <3>1. r \in sv[kind] <=> WillList(r, kind, l, cs) BY <2>7 DEF InStep, Accounts
    <3>2. Acted(cs[i], kind) BY <1>4, <1>13, <2>2 DEF Acted
    <3>3. (\A j \in DOMAIN cs : Acted(cs[j], kind) => cs[j].id # r.id) <=>
            /\ r.id # id
            /\ \A k \in DOMAIN a : Acted(a[k], kind) => a[k].id # r.id
      BY <1>2, <1>3, <1>4, <2>1, <3>2
    <3>4. (\E j \in DOMAIN cs : Acted(cs[j], kind) /\ cs[j].what = "save" /\ r = RowOfCall(cs[j]))
          <=> \E k \in DOMAIN a : Acted(a[k], kind) /\ a[k].what = "save" /\ r = RowOfCall(a[k])
      BY <1>2, <1>3, <1>4, <1>13
    <3> QED BY <2>3, <3>1, <3>3, <3>4 DEF WillList
  <2> QED BY <1>8, <1>9, <2>4, <2>6, <2>8 DEF InStep, Accounts
<1>14. CASE (c.live # TRUE \/ c.at # "ok" \/ c.what = "test") /\ q = l
  <2>1. ~Acted(cs[i], kind) BY <1>4, <1>6, <1>14 DEF Acted
  <2>2. c.kind = kind => c.what # "load"
    <3> SUFFICES ASSUME c.kind = kind, c.what = "load" PROVE FALSE OBVIOUS
    <3>1. c.at \in {"asked", "ok"} BY <1>4 DEF InStep, LoadAlone
    <3> QED BY <1>5, <1>6, <1>14, <3>1
  <2>3. Apart(kind, q, a) BY <1>2, <1>14 DEF InStep, Apart
  <2>4. ASSUME \A k \in DOMAIN a : a[k].kind = kind => a[k].what # "load",
               NEW r
        PROVE  r \in sv[kind] <=> WillList(r, kind, q, a)
    <3>1. \A j \in DOMAIN cs : cs[j].kind = kind => cs[j].what # "load"
      BY <1>2, <1>3, <1>4, <2>2, <2>4
    <3>2. r \in sv[kind] <=> WillList(r, kind, l, cs) BY <3>1 DEF InStep, Accounts
    <3>3. (\A j \in DOMAIN cs : Acted(cs[j], kind) => cs[j].id # r.id) <=>
          \A k \in DOMAIN a : Acted(a[k], kind) => a[k].id # r.id
      BY <1>2, <1>3, <2>1
    <3>4. (\E j \in DOMAIN cs : Acted(cs[j], kind) /\ cs[j].what = "save" /\ r = RowOfCall(cs[j]))
          <=> \E k \in DOMAIN a : Acted(a[k], kind) /\ a[k].what = "save" /\ r = RowOfCall(a[k])
      BY <1>2, <1>3, <2>1
    <3> QED BY <1>14, <3>2, <3>3, <3>4 DEF WillList
  <2> QED BY <1>8, <1>9, <1>14, <2>3, <2>4 DEF InStep, Accounts
<1> QED BY <1>5, <1>11, <1>12, <1>13, <1>14, NextListCases

\* WebhookPanel.tsx 26-91, SchemaPanel.tsx 149-221: what the handlers make of the list.
LEMMA AnswerList ==
  ASSUME NEW p, PanelType(p), NEW c, CallType(c), c.live = TRUE, NEW q,
         q = CASE c.what = "load"   -> AfterLoad(p, c)
               [] c.what = "save"   -> AfterSave(p, c)
               [] c.what = "delete" -> AfterDelete(p, c)
               [] c.what = "test"   -> AfterTest(p, c)
  PROVE  q.kind = p.kind /\ q.list = NextList(p.list, c)
<1>1. CASE c.what = "load"
  <2>1. q = AfterLoad(p, c) BY <1>1
  <2> QED BY <1>1, <2>1 DEF AfterLoad, Kept, PanelType, PanelFields, NextList
<1>2. CASE c.what = "save"
  <2>1. q = AfterSave(p, c) BY <1>2
  <2>2. PICK s : s = Saved(p.list, [id |-> c.id, mode |-> c.mode], c.kind) OBVIOUS
  <2>3. c.at = "ok" => NextList(p.list, c) = s BY <1>2, <2>2 DEF NextList, RowOfCall
  <2>4. c.at # "ok" => NextList(p.list, c) = p.list BY DEF NextList
  <2>5. q.kind = p.kind /\ q.list = IF c.at = "ok" THEN s ELSE p.list
    BY <2>1, <2>2 DEF AfterSave, PanelType, PanelFields
  <2> QED BY <2>3, <2>4, <2>5
<1>3. CASE c.what = "delete"
  <2>1. q = AfterDelete(p, c) BY <1>3
  <2>2. PICK s : s = Filtered(p.list, c.id) OBVIOUS
  <2>3. c.at = "ok" => NextList(p.list, c) = s BY <1>3, <2>2 DEF NextList
  <2>4. c.at # "ok" => NextList(p.list, c) = p.list BY DEF NextList
  <2>5. q.kind = p.kind /\ q.list = IF c.at = "ok" THEN s ELSE p.list
    BY <2>1, <2>2 DEF AfterDelete, Kept, PanelType, PanelFields
  <2> QED BY <2>3, <2>4, <2>5
<1>4. CASE c.what = "test"
  <2>1. q = AfterTest(p, c) BY <1>4
  <2>2. NextList(p.list, c) = p.list BY <1>4 DEF NextList
  <2> QED BY <2>1, <2>2 DEF AfterTest, PanelType, PanelFields
<1> QED BY <1>1, <1>2, <1>3, <1>4 DEF CallType

LEMMA AnswerLists ==
  ASSUME PanelInv, ListInv, NEW i \in DOMAIN calls, Answer(i)
  PROVE  ListInv'
<1>1. PICK s, c, p, sv, n : s = calls /\ c = s[i] /\ p = panel /\ sv = server /\ n = created
  OBVIOUS
<1>2. /\ CallsType(s) /\ i \in DOMAIN s /\ CallType(c) /\ PanelType(p) /\ SaveMatches(p, s)
      /\ IsList(p.list)
  BY <1>1 DEF PanelInv, CallsType, PanelType
<1>3. ListsOk(p.kind, p.list, s, sv, n) BY <1>1 DEF ListInv
<1>4. PICK q : q = panel' OBVIOUS
<1>5. q.kind = p.kind /\ q.list = NextList(p.list, c)
  <2>1. CASE c.live = TRUE
    <3>1. q = CASE c.what = "load"   -> AfterLoad(p, c)
                [] c.what = "save"   -> AfterSave(p, c)
                [] c.what = "delete" -> AfterDelete(p, c)
                [] c.what = "test"   -> AfterTest(p, c)
      BY <1>1, <1>4, <2>1 DEF Answer
    <3> QED BY <1>2, <2>1, <3>1, AnswerList
  <2>2. CASE c.live # TRUE
    <3>1. c.live = FALSE BY <1>2, <2>2 DEF CallType
    <3>2. q = p BY <1>1, <1>4, <3>1 DEF Answer
    <3> QED BY <2>2, <3>2 DEF NextList
  <2> QED BY <2>1, <2>2
<1>6. PICK l, t, kind : l = p.list /\ t = q.list /\ kind = p.kind OBVIOUS
<1>7. PICK a : a = StillLive(RemoveAt(s, i), t) OBVIOUS
<1>8. calls' = a /\ server' = sv /\ created' = n /\ clean' = clean
  BY <1>1, <1>4, <1>6, <1>7 DEF Answer
<1>9. Left(s, i, t, a) BY <1>2, <1>7, LeftCalls
<1>10. /\ ListsOk(kind, l, s, sv, n) /\ ListOk(kind, l, n) /\ CallOk(c, kind, n) /\ IsList(l)
       /\ t = NextList(l, c) /\ \A k \in DOMAIN s : CallOk(s[k], kind, n)
  BY <1>1, <1>2, <1>3, <1>5, <1>6 DEF ListsOk
<1>11. ListOk(kind, t, n) BY <1>2, <1>10, NextListOk
<1>12. \A k \in DOMAIN a : CallOk(a[k], kind, n) BY <1>2, <1>9, <1>10, LeftOk
<1>13. ListsOk(kind, t, a, sv, n) BY <1>10, <1>11, <1>12 DEF ListsOk
<1>14. ASSUME clean = TRUE, kind # "closed" PROVE InStep(kind, t, a, sv)
  <2>1. InStep(kind, l, s, sv) BY <1>1, <1>6, <1>14 DEF ListInv
  <2>2. \A j, k \in DOMAIN s : Waits(s[j], "save") /\ Waits(s[k], "save") => j = k
    BY <1>2 DEF SaveMatches
  <2>3. s[i].at # "asked" BY <1>1 DEF Answer
  <2>4. t = NextList(l, s[i]) BY <1>1, <1>10
  <2> QED BY <1>2, <1>9, <1>10, <1>14, <2>1, <2>2, <2>3, <2>4, AnsweredInStep
<1> QED BY <1>4, <1>5, <1>6, <1>8, <1>13, <1>14 DEF ListInv

-----------------------------------------------------------------------------
\* More webhooks have been created.
LEMMA MoreCreated ==
  ASSUME NEW n \in Nat, NEW m \in Nat, n <= m
  PROVE  /\ \A r, kind : RowOf(r, kind, n) => RowOf(r, kind, m)
         /\ \A kind, l : ListOk(kind, l, n) => ListOk(kind, l, m)
         /\ \A c, kind : CallOk(c, kind, n) => CallOk(c, kind, m)
<1>1. \A r, kind : RowOf(r, kind, n) => RowOf(r, kind, m) BY DEF RowOf
<1>2. \A kind, l : ListOk(kind, l, n) => ListOk(kind, l, m) BY <1>1 DEF ListOk
<1>3. \A c, kind : CallOk(c, kind, n) => CallOk(c, kind, m) BY <1>1 DEF CallOk
<1> QED BY <1>1, <1>2, <1>3

\* The API has answered a call without a change of its rows: with a failure,
\* with its rows, or with the verdict on a test.
LEMMA RepliedInStep ==
  ASSUME NEW kind, NEW l, NEW cs, NEW sv, InStep(kind, l, cs, sv), NEW i \in DOMAIN cs, NEW a,
         DOMAIN a = DOMAIN cs, \A k \in DOMAIN cs \ {i} : a[k] = cs[k],
         a[i].kind = cs[i].kind, a[i].what = cs[i].what, a[i].live = cs[i].live,
         a[i].id = cs[i].id, cs[i].at = "asked",
         a[i].what \in {"save", "delete"} => a[i].at # "ok",
         cs[i].kind = kind /\ a[i].what = "load" =>
           a[i].at = "ok" /\ Range(a[i].got) = sv[kind]
  PROVE  InStep(kind, l, a, sv)
<1>1. ~Acted(cs[i], kind) /\ ~Acted(a[i], kind) BY DEF Acted
<1>2. \A k \in DOMAIN cs : a[k].kind = cs[k].kind /\ a[k].what = cs[k].what OBVIOUS
<1>3. AllLive(kind, a) BY <1>2 DEF InStep, AllLive
<1>4. LoadAlone(kind, l, a, sv) BY <1>2 DEF InStep, LoadAlone
<1>5. Apart(kind, l, a) BY <1>2 DEF InStep, Apart
<1>6. \A r : WillList(r, kind, l, cs) <=> WillList(r, kind, l, a) BY <1>1 DEF WillList
<1>7. Accounts(kind, l, a, sv) BY <1>2, <1>6 DEF InStep, Accounts
<1> QED BY <1>3, <1>4, <1>5, <1>7 DEF InStep

\* A call of the other kind concerns rows that are not listed.
LEMMA OtherKindInStep ==
  ASSUME NEW kind, NEW l, NEW cs, NEW sv, InStep(kind, l, cs, sv), NEW i \in DOMAIN cs, NEW a,
         DOMAIN a = DOMAIN cs, \A k \in DOMAIN cs \ {i} : a[k] = cs[k],
         a[i].kind = cs[i].kind, cs[i].kind # kind, NEW tv, tv[kind] = sv[kind]
  PROVE  InStep(kind, l, a, tv)
<1>1. ~Acted(cs[i], kind) /\ ~Acted(a[i], kind) BY DEF Acted
<1>2. AllLive(kind, a) BY DEF InStep, AllLive
<1>3. LoadAlone(kind, l, a, tv) BY DEF InStep, LoadAlone
<1>4. Apart(kind, l, a) BY DEF InStep, Apart
<1>5. \A r : WillList(r, kind, l, cs) <=> WillList(r, kind, l, a) BY <1>1 DEF WillList
<1>6. Accounts(kind, l, a, tv) BY <1>5 DEF InStep, Accounts
<1> QED BY <1>2, <1>3, <1>4, <1>6 DEF InStep

\* internal/webhooks/store.go CreateSubscription, internal/schemas/store.go Upsert.
LEMMA SavedInStep ==
  ASSUME NEW kind, NEW l, NEW cs, NEW sv, InStep(kind, l, cs, sv), NEW i \in DOMAIN cs, NEW a,
         DOMAIN a = DOMAIN cs, \A k \in DOMAIN cs \ {i} : a[k] = cs[k],
         a[i].kind = cs[i].kind, a[i].what = cs[i].what, a[i].live = cs[i].live,
         cs[i].kind = kind, cs[i].what = "save", cs[i].at = "asked", a[i].at = "ok",
         kind \in {"webhooks", "schemas"},
         \A j, k \in DOMAIN cs : Waits(cs[j], "save") /\ Waits(cs[k], "save") => j = k,
         kind = "schemas" => a[i].id = cs[i].id,
         kind = "webhooks" => /\ ~Has(l, a[i].id)
                              /\ \A j \in DOMAIN cs : cs[j].kind = kind /\ cs[j].what = "delete"
                                                        => cs[j].id # a[i].id,
         NEW tv, tv[kind] = With(sv[kind], RowOfCall(a[i]))
  PROVE  InStep(kind, l, a, tv)
<1>1. ~Acted(cs[i], kind) /\ Acted(a[i], kind) BY DEF Acted
<1>2. \A k \in DOMAIN cs : a[k].kind = cs[k].kind /\ a[k].what = cs[k].what OBVIOUS
<1>3. AllLive(kind, a) BY <1>2 DEF InStep, AllLive
<1>4. \A j \in DOMAIN cs : cs[j].kind = kind => cs[j].what # "load"
  BY DEF InStep, LoadAlone
<1>5. LoadAlone(kind, l, a, tv) BY <1>2, <1>4 DEF LoadAlone
<1>6. \A j \in DOMAIN cs : cs[j].kind = kind /\ cs[j].what = "save" => j = i
  BY DEF InStep, AllLive, Waits
<1>7. \A j \in DOMAIN cs : cs[j].kind = kind /\ cs[j].what = "delete" => cs[j].id # a[i].id
  BY DEF InStep, Apart
<1>8. Apart(kind, l, a) BY <1>2, <1>6, <1>7 DEF Apart
<1>9. PICK row : row = RowOfCall(a[i]) OBVIOUS
<1>10. row.id = a[i].id BY <1>9 DEF RowOfCall
<1>11. ASSUME NEW r PROVE r \in tv[kind] <=> WillList(r, kind, l, a)
  <2>1. r \in sv[kind] <=> WillList(r, kind, l, cs) BY <1>4 DEF InStep, Accounts
  <2>2. WillList(r, kind, l, cs) <=>
          r \in Range(l) /\ \A j \in DOMAIN cs : Acted(cs[j], kind) => cs[j].id # r.id
    BY <1>1, <1>6 DEF WillList, Acted
  <2>3. WillList(r, kind, l, a) <=>
          \/ r \in Range(l) /\ \A j \in DOMAIN a : Acted(a[j], kind) => a[j].id # r.id
          \/ r = row
    BY <1>1, <1>2, <1>6, <1>9 DEF WillList, Acted
  <2>4. (\A j \in DOMAIN a : Acted(a[j], kind) => a[j].id # r.id) <=>
          /\ row.id # r.id
          /\ \A j \in DOMAIN cs : Acted(cs[j], kind) => cs[j].id # r.id
    BY <1>1, <1>10
  <2>5. r \in tv[kind] <=> (r \in sv[kind] /\ r.id # row.id) \/ r = row BY <1>9 DEF With
  <2> QED BY <2>1, <2>2, <2>3, <2>4, <2>5
<1>12. Accounts(kind, l, a, tv) BY <1>11 DEF Accounts
<1> QED BY <1>3, <1>5, <1>8, <1>12 DEF InStep

\* internal/webhooks/store.go DeleteSubscription, internal/schemas/store.go Delete.
LEMMA DeletedInStep ==
  ASSUME NEW kind, NEW l, NEW cs, NEW sv, InStep(kind, l, cs, sv), NEW i \in DOMAIN cs, NEW a,
         DOMAIN a = DOMAIN cs, \A k \in DOMAIN cs \ {i} : a[k] = cs[k],
         a[i].kind = cs[i].kind, a[i].what = cs[i].what, a[i].live = cs[i].live,
         cs[i].kind = kind, cs[i].what = "delete", cs[i].at = "asked", a[i].id = cs[i].id,
         kind \in {"webhooks", "schemas"}, a[i].at \in {"ok", "failed"},
         NEW tv, tv[kind] = Without(sv[kind], cs[i].id),
         a[i].at = "failed" => tv[kind] = sv[kind]
  PROVE  InStep(kind, l, a, tv)
<1>1. ~Acted(cs[i], kind) /\ (Acted(a[i], kind) <=> a[i].at = "ok") BY DEF Acted
<1>2. \A k \in DOMAIN cs : /\ a[k].kind = cs[k].kind /\ a[k].what = cs[k].what
                           /\ a[k].id = cs[k].id
  OBVIOUS
<1>3. AllLive(kind, a) BY <1>2 DEF InStep, AllLive
<1>4. \A j \in DOMAIN cs : cs[j].kind = kind => cs[j].what # "load"
  BY DEF InStep, LoadAlone
<1>5. LoadAlone(kind, l, a, tv) BY <1>2, <1>4 DEF LoadAlone
<1>6. Apart(kind, l, a) BY <1>2 DEF InStep, Apart
<1>7. ASSUME NEW r PROVE r \in tv[kind] <=> WillList(r, kind, l, a)
  <2>1. r \in sv[kind] <=> WillList(r, kind, l, cs) BY <1>4 DEF InStep, Accounts
  <2>2. \A j \in DOMAIN cs : j # i => a[j] = cs[j] OBVIOUS
  <2>3. (\E j \in DOMAIN cs : Acted(cs[j], kind) /\ cs[j].what = "save" /\ r = RowOfCall(cs[j]))
        <=> \E j \in DOMAIN a : Acted(a[j], kind) /\ a[j].what = "save" /\ r = RowOfCall(a[j])
    BY <2>2
  <2>4. CASE a[i].at = "failed"
    <3>1. ~Acted(a[i], kind) BY <1>1, <2>4
    <3>2. (\A j \in DOMAIN cs : Acted(cs[j], kind) => cs[j].id # r.id) <=>
          \A j \in DOMAIN a : Acted(a[j], kind) => a[j].id # r.id
      BY <1>1, <2>2, <3>1
    <3> QED BY <2>1, <2>3, <2>4, <3>2 DEF WillList
  <2>5. CASE a[i].at = "ok"
    <3>1. Acted(a[i], kind) BY <1>1, <2>5
    <3>2. (\A j \in DOMAIN a : Acted(a[j], kind) => a[j].id # r.id) <=>
            /\ cs[i].id # r.id
            /\ \A j \in DOMAIN cs : Acted(cs[j], kind) => cs[j].id # r.id
      BY <1>1, <2>2, <3>1
    <3>3. ASSUME NEW j \in DOMAIN cs, Acted(cs[j], kind), cs[j].what = "save",
                 r = RowOfCall(cs[j])
          PROVE  r.id # cs[i].id
      <4>1. cs[j].id # cs[i].id BY <3>3 DEF Acted, InStep, Apart
      <4> QED BY <3>3, <4>1 DEF RowOfCall
    <3>4. r \in tv[kind] <=> r \in sv[kind] /\ r.id # cs[i].id BY DEF Without
    <3> QED BY <2>1, <2>3, <3>2, <3>3, <3>4 DEF WillList
  <2> QED BY <2>4, <2>5
<1>8. Accounts(kind, l, a, tv) BY <1>7 DEF Accounts
<1> QED BY <1>3, <1>5, <1>6, <1>8 DEF InStep

\* The rows that the API has after a change.
LEMMA ServerStays ==
  ASSUME NEW sv, NEW n \in Nat, NEW m \in Nat, n <= m, ServerOk(sv, n), NEW kind, NEW tv,
         \A k \in {"webhooks", "schemas"} : k # kind => tv[k] = sv[k],
         kind \in {"webhooks", "schemas"} =>
           \/ tv[kind] \subseteq sv[kind]
           \/ \E row : RowOf(row, kind, m) /\ tv[kind] = With(sv[kind], row)
  PROVE  ServerOk(tv, m)
<1> SUFFICES ASSUME NEW k \in {"webhooks", "schemas"}
             PROVE  /\ \A r \in tv[k] : RowOf(r, k, m)
                    /\ \A r, q \in tv[k] : r.id = q.id => r = q
  BY DEF ServerOk
<1>1. \A r \in sv[k] : RowOf(r, k, m) BY MoreCreated DEF ServerOk
<1>2. \A r, q \in sv[k] : r.id = q.id => r = q BY DEF ServerOk
<1>3. CASE tv[k] \subseteq sv[k] BY <1>1, <1>2, <1>3
<1>4. CASE k = kind /\ \E row : RowOf(row, kind, m) /\ tv[kind] = With(sv[kind], row)
  <2>1. PICK row : RowOf(row, k, m) /\ tv[k] = With(sv[k], row) BY <1>4
  <2>2. \A r : r \in tv[k] <=> (r \in sv[k] /\ r.id # row.id) \/ r = row BY <2>1 DEF With
  <2> QED BY <1>1, <1>2, <2>1, <2>2
<1> QED BY <1>3, <1>4

LEMMA ServeLists ==
  ASSUME PanelInv, ListInv, NEW i \in DOMAIN calls, Serve(i)
  PROVE  ListInv'
<1>1. PICK s, c, sv, n, kind, l :
        s = calls /\ c = s[i] /\ sv = server /\ n = created /\ kind = panel.kind /\ l = panel.list
  OBVIOUS
<1>2. /\ CallsType(s) /\ i \in DOMAIN s /\ CallType(c) /\ c.at = "asked"
      /\ DOMAIN sv = {"webhooks", "schemas"} /\ sv = [k \in DOMAIN sv |-> sv[k]]
      /\ \A k \in {"webhooks", "schemas"} : IsFiniteSet(sv[k])
  BY <1>1 DEF PanelInv, CallsType, ServerType, Serve
<1>3. /\ ListsOk(kind, l, s, sv, n) /\ n \in Nat /\ ListOk(kind, l, n) /\ ServerOk(sv, n)
      /\ (clean = TRUE /\ kind # "closed" => InStep(kind, l, s, sv))
      /\ \A k \in DOMAIN s : CallOk(s[k], kind, n)
  BY <1>1 DEF ListInv, ListsOk
<1>4. CallOk(c, kind, n) /\ c.kind \in {"webhooks", "schemas"}
  BY <1>1, <1>2, <1>3 DEF CallOk
<1>5. \A j, k \in DOMAIN s : Waits(s[j], "save") /\ Waits(s[k], "save") => j = k
  BY <1>1 DEF PanelInv, SaveMatches
<1>6. kind # "closed" => kind \in {"webhooks", "schemas"} BY <1>3 DEF ListOk
<1> DEFINE Steps(d, tv) ==
             clean' = TRUE /\ kind # "closed" =>
               \A a : DOMAIN a = DOMAIN s /\ a[i] = d /\ (\A k \in DOMAIN s \ {i} : a[k] = s[k])
                       => InStep(kind, l, a, tv)
<1>7. ASSUME NEW d, calls' = [s EXCEPT ![i] = d], panel' = panel, NEW m \in Nat, n <= m,
             created' = m, CallOk(d, kind, m), NEW tv, server' = tv, ServerOk(tv, m),
             Steps(d, tv)
      PROVE  ListInv'
  <2>1. PICK a : a = [s EXCEPT ![i] = d] OBVIOUS
  <2>2. DOMAIN a = DOMAIN s /\ a[i] = d /\ \A k \in DOMAIN s \ {i} : a[k] = s[k]
    BY <1>2, <2>1
  <2>3. ListOk(kind, l, m) /\ \A k \in DOMAIN s : CallOk(s[k], kind, m)
    BY <1>3, <1>7, MoreCreated
  <2>4. \A k \in DOMAIN a : CallOk(a[k], kind, m) BY <1>7, <2>2, <2>3
  <2>5. ListsOk(kind, l, a, tv, m) BY <1>7, <2>3, <2>4 DEF ListsOk
  <2>6. clean' = TRUE /\ kind # "closed" => InStep(kind, l, a, tv) BY <1>7, <2>2
  <2>7. calls' = a BY <1>7, <2>1
  <2> QED BY <1>1, <1>7, <2>5, <2>6, <2>7 DEF ListInv
<1>9. ASSUME NEW at, NEW d, d = [c EXCEPT !.at = at]
      PROVE  /\ d.kind = c.kind /\ d.what = c.what /\ d.live = c.live /\ d.id = c.id
             /\ d.mode = c.mode /\ d.at = at /\ d.got = c.got
  BY <1>2, <1>9 DEF CallType, CallFields
<1>10. ASSUME NEW at, c.what \in {"save", "delete"} => at # "ok",
              calls' = Answered(i, at), panel' = panel, server' = server, created' = created,
              clean' = TRUE => clean = TRUE /\ c.what # "load"
       PROVE  ListInv'
  <2>1. PICK d : d = [c EXCEPT !.at = at] OBVIOUS
  <2>2. /\ d.kind = c.kind /\ d.what = c.what /\ d.live = c.live /\ d.id = c.id
        /\ d.mode = c.mode /\ d.at = at /\ d.got = c.got
    BY <1>9, <2>1
  <2>3. calls' = [s EXCEPT ![i] = d] BY <1>1, <1>10, <2>1 DEF Answered
  <2>4. CallOk(d, kind, n) BY <1>4, <2>2 DEF CallOk, RowOf
  <2>5. ASSUME clean' = TRUE, kind # "closed", NEW a, DOMAIN a = DOMAIN s, a[i] = d,
               \A k \in DOMAIN s \ {i} : a[k] = s[k]
        PROVE  InStep(kind, l, a, sv)
    <3>1. InStep(kind, l, s, sv) BY <1>3, <1>10, <2>5
    <3>2. a[i].what # "load" BY <1>10, <2>2, <2>5
    <3>3. a[i].what \in {"save", "delete"} => a[i].at # "ok" BY <1>10, <2>2, <2>5
    <3>4. /\ a[i].kind = s[i].kind /\ a[i].what = s[i].what /\ a[i].live = s[i].live
          /\ a[i].id = s[i].id /\ s[i].at = "asked"
      BY <1>1, <1>2, <2>2, <2>5
    <3> QED BY <1>2, <2>5, <3>1, <3>2, <3>3, <3>4, RepliedInStep
  <2>6. server' = sv /\ created' = n /\ n <= n BY <1>1, <1>3, <1>10
  <2>7. Steps(d, sv) BY <2>5
  <2> HIDE DEF Steps
  <2> QED BY <1>3, <1>7, <1>10, <2>3, <2>4, <2>6, <2>7
<1>11. CASE Refuse(i)
  <2>1. clean' = TRUE => clean = TRUE /\ c.what # "load" BY <1>1, <1>11 DEF Refuse
  <2> QED BY <1>10, <1>11, <2>1 DEF Refuse
<1>12. CASE ServeTest(i)
  <2>1. c.what = "test" BY <1>1, <1>12 DEF ServeTest
  <2> QED BY <1>10, <1>12, <2>1 DEF ServeTest
<1>13. CASE ServeLoad(i)
  <2>1. PICK k, g : k = c.kind /\ g = Listing(k) OBVIOUS
  <2>2. c.what = "load" BY <1>1, <1>13 DEF ServeLoad
  <2>4. InjIds(g) /\ Range(g) = sv[k]
    <3>1. /\ IsFiniteSet(server[k]) /\ \A r \in server[k] : r.id \in Nat
          /\ \A r, q \in server[k] : r.id = q.id => r = q
      BY <1>1, <1>2, <1>3, <1>4, <2>1 DEF ServerOk, RowOf
    <3>2. InjIds(Listing(k)) /\ Range(Listing(k)) = server[k] BY <3>1, ListingIsServer
    <3> QED BY <1>1, <2>1, <3>2
  <2>5. PICK d : d = [c EXCEPT !.at = "ok", !.got = g] OBVIOUS
  <2>6. /\ calls' = [s EXCEPT ![i] = d] /\ server' = sv /\ panel' = panel /\ created' = n
        /\ clean' = clean
    BY <1>1, <1>13, <2>1, <2>5 DEF ServeLoad
  <2>7. /\ d.live = c.live /\ d.what = c.what /\ d.id = c.id /\ d.kind = c.kind /\ d.at = "ok"
        /\ d.got = g
    BY <1>2, <2>5 DEF CallType, CallFields
  <2>8. CallOk(d, kind, n)
    <3>1. \A r \in sv[k] : RowOf(r, k, n) BY <1>3, <1>4, <2>1 DEF ServerOk
    <3>2. \A j \in DOMAIN g : RowOf(g[j], k, n) BY <2>4, <3>1, RangeFacts
    <3> QED BY <1>4, <2>1, <2>4, <2>7, <3>2 DEF CallOk, RowOf
  <2>9. ASSUME clean' = TRUE, kind # "closed", NEW a, DOMAIN a = DOMAIN s, a[i] = d,
               \A j \in DOMAIN s \ {i} : a[j] = s[j]
        PROVE  InStep(kind, l, a, sv)
    <3>1. InStep(kind, l, s, sv) BY <1>3, <2>6, <2>9
    <3>2. /\ a[i].kind = s[i].kind /\ a[i].what = s[i].what /\ a[i].live = s[i].live
          /\ a[i].id = s[i].id /\ s[i].at = "asked" /\ a[i].what = "load" /\ a[i].at = "ok"
          /\ a[i].got = g
      BY <1>1, <1>2, <2>2, <2>7, <2>9
    <3>3. s[i].kind = kind => Range(a[i].got) = sv[kind] BY <1>1, <2>1, <2>4, <3>2
    <3> QED BY <1>2, <2>9, <3>1, <3>2, <3>3, RepliedInStep
  <2>10. Steps(d, sv) BY <2>9
  <2>11. n <= n BY <1>3
  <2> HIDE DEF Steps
  <2> QED BY <1>3, <1>7, <2>6, <2>8, <2>10, <2>11
<1>14. ASSUME NEW lost \in BOOLEAN, ServeDelete(i, lost) PROVE ListInv'
  <2>1. PICK k, id, S : k = c.kind /\ id = c.id /\ S = Without(sv[k], id) OBVIOUS
  <2>2. PICK tv : tv = [sv EXCEPT ![k] = S] OBVIOUS
  <2>3. PICK at : at = IF lost \/ (k = "webhooks" /\ S = sv[k]) THEN "failed" ELSE "ok" OBVIOUS
  <2>4. /\ server' = tv /\ panel' = panel /\ c.what = "delete" /\ calls' = Answered(i, at)
        /\ created' = n /\ (clean' = TRUE => clean = TRUE /\ lost = FALSE)
    BY <1>1, <1>14, <2>1, <2>2, <2>3 DEF ServeDelete
  <2>5. PICK d : d = [c EXCEPT !.at = at] OBVIOUS
  <2>6. /\ d.kind = c.kind /\ d.what = c.what /\ d.live = c.live /\ d.id = c.id
        /\ d.mode = c.mode /\ d.at = at /\ d.got = c.got
    BY <1>9, <2>5
  <2>7. calls' = [s EXCEPT ![i] = d] BY <1>1, <2>4, <2>5 DEF Answered
  <2>8. CallOk(d, kind, n) BY <1>4, <2>6 DEF CallOk, RowOf
  <2>9. tv[k] = S /\ \A j \in {"webhooks", "schemas"} : j # k => tv[j] = sv[j]
    BY <1>2, <1>4, <2>1, <2>2
  <2>10. ServerOk(tv, n)
    <3>1. tv[k] \subseteq sv[k] BY <2>1, <2>9 DEF Without
    <3> QED BY <1>3, <2>9, <3>1, ServerStays
  <2>11. ASSUME clean' = TRUE, kind # "closed", NEW a, DOMAIN a = DOMAIN s, a[i] = d,
                \A j \in DOMAIN s \ {i} : a[j] = s[j]
         PROVE  InStep(kind, l, a, tv)
    <3>1. InStep(kind, l, s, sv) /\ lost = FALSE BY <1>3, <2>4, <2>11
    <3>2. /\ a[i].kind = s[i].kind /\ a[i].what = s[i].what /\ a[i].live = s[i].live
          /\ a[i].id = s[i].id /\ s[i].at = "asked" /\ s[i].what = "delete" /\ a[i].at = at
          /\ s[i].kind = k /\ s[i].id = id
      BY <1>1, <1>2, <2>1, <2>4, <2>6, <2>11
    <3>3. CASE k # kind
      <4>1. tv[kind] = sv[kind] BY <1>6, <2>9, <2>11, <3>3
      <4> QED BY <1>2, <2>11, <3>1, <3>2, <3>3, <4>1, OtherKindInStep
    <3>4. CASE k = kind
      <4>1. at \in {"ok", "failed"} /\ (at = "failed" => tv[kind] = sv[kind])
        BY <2>3, <2>9, <3>1, <3>4
      <4>2. tv[kind] = Without(sv[kind], s[i].id) BY <2>1, <2>9, <3>2, <3>4
      <4> QED BY <1>2, <1>6, <2>11, <3>1, <3>2, <3>4, <4>1, <4>2, DeletedInStep
    <3> QED BY <3>3, <3>4
  <2>12. Steps(d, tv) BY <2>11
  <2>13. n <= n BY <1>3
  <2> HIDE DEF Steps
  <2> QED BY <1>3, <1>7, <2>4, <2>7, <2>8, <2>10, <2>12, <2>13
<1>15. ASSUME NEW lost \in BOOLEAN, ServeSave(i, lost) PROVE ListInv'
  <2>1. PICK k, id : k = c.kind /\ id = IF k = "webhooks" THEN n + 1 ELSE c.id OBVIOUS
  <2>2. PICK m \in Nat : m = IF k = "webhooks" THEN n + 1 ELSE n BY <1>3
  <2>3. PICK row, S, tv : /\ row = [id |-> id, mode |-> c.mode] /\ S = With(sv[k], row)
                          /\ tv = [sv EXCEPT ![k] = S]
    OBVIOUS
  <2>4. PICK at : at = IF lost THEN "failed" ELSE "ok" OBVIOUS
  <2>5. PICK d : d = [c EXCEPT !.at = at, !.id = id] OBVIOUS
  <2>6. /\ server' = tv /\ panel' = panel /\ c.what = "save" /\ calls' = [s EXCEPT ![i] = d]
        /\ created' = m /\ (clean' = TRUE => clean = TRUE /\ lost = FALSE)
    BY <1>1, <1>15, <2>1, <2>2, <2>3, <2>4, <2>5 DEF ServeSave
  <2>7. /\ d.kind = c.kind /\ d.what = c.what /\ d.live = c.live /\ d.id = id
        /\ d.mode = c.mode /\ d.at = at /\ d.got = c.got /\ RowOfCall(d) = row
    <3>1. /\ d.kind = c.kind /\ d.what = c.what /\ d.live = c.live /\ d.id = id
          /\ d.mode = c.mode /\ d.at = at /\ d.got = c.got
      BY <1>2, <2>5 DEF CallType, CallFields
    <3> QED BY <2>3, <3>1 DEF RowOfCall
  <2>8. n <= m /\ CallOk(c, kind, m) BY <1>3, <1>4, <2>2, MoreCreated
  <2>9. row.id = id /\ RowOf(row, k, m)
    <3>1. row.id = id BY <2>3
    <3>2. k # "webhooks" => id \in Nat BY <1>4, <2>1 DEF CallOk, RowOf
    <3>3. k = "webhooks" => id \in Nat /\ id <= m BY <1>3, <2>1, <2>2
    <3> QED BY <3>1, <3>2, <3>3 DEF RowOf
  <2>10. CallOk(d, kind, m)
    <3>1. RowOf(d, d.kind, m) BY <2>1, <2>7, <2>9 DEF RowOf
    <3> QED BY <2>7, <2>8, <3>1 DEF CallOk
  <2>11. tv[k] = S /\ \A j \in {"webhooks", "schemas"} : j # k => tv[j] = sv[j]
    BY <1>2, <1>4, <2>1, <2>3
  <2>12. ServerOk(tv, m)
    <3>1. RowOf(row, k, m) /\ tv[k] = With(sv[k], row) BY <2>3, <2>9, <2>11
    <3> QED BY <1>3, <2>8, <2>11, <3>1, ServerStays
  <2>13. ASSUME clean' = TRUE, kind # "closed", NEW a, DOMAIN a = DOMAIN s, a[i] = d,
                \A j \in DOMAIN s \ {i} : a[j] = s[j]
         PROVE  InStep(kind, l, a, tv)
    <3>1. InStep(kind, l, s, sv) /\ lost = FALSE BY <1>3, <2>6, <2>13
    <3>2. /\ a[i].kind = s[i].kind /\ a[i].what = s[i].what /\ a[i].live = s[i].live
          /\ s[i].at = "asked" /\ s[i].what = "save" /\ a[i].at = "ok"
          /\ s[i].kind = k /\ a[i].id = id /\ RowOfCall(a[i]) = row /\ s[i].id = c.id
      BY <1>1, <1>2, <2>1, <2>4, <2>6, <2>7, <2>13, <3>1
    <3>3. CASE k # kind
      <4>1. tv[kind] = sv[kind] BY <1>6, <2>11, <2>13, <3>3
      <4> QED BY <1>2, <2>13, <3>1, <3>2, <3>3, <4>1, OtherKindInStep
    <3>4. CASE k = kind
      <4>1. kind = "schemas" => a[i].id = s[i].id BY <2>1, <3>2, <3>4
      <4>2. ASSUME kind = "webhooks"
            PROVE  /\ ~Has(l, a[i].id)
                   /\ \A j \in DOMAIN s : s[j].kind = kind /\ s[j].what = "delete"
                                            => s[j].id # a[i].id
        <5>1. a[i].id = n + 1 BY <2>1, <3>2, <3>4, <4>2
        <5>2. \A j \in DOMAIN l : l[j].id \in Nat /\ l[j].id <= n
          BY <1>3, <4>2 DEF ListOk, RowOf
        <5>3. \A j \in DOMAIN s : s[j].kind = kind => s[j].id \in Nat /\ s[j].id <= n
          BY <1>3, <4>2 DEF CallOk, RowOf
        <5> QED BY <1>3, <5>1, <5>2, <5>3 DEF Has
      <4>3. tv[kind] = With(sv[kind], RowOfCall(a[i])) BY <2>3, <2>11, <3>2, <3>4
      <4> QED BY <1>2, <1>5, <1>6, <2>13, <3>1, <3>2, <3>4, <4>1, <4>2, <4>3, SavedInStep
    <3> QED BY <3>3, <3>4
  <2>14. Steps(d, tv) BY <2>13
  <2> HIDE DEF Steps
  <2> QED BY <1>7, <2>6, <2>8, <2>10, <2>12, <2>14
<1> QED BY <1>11, <1>12, <1>13, <1>14, <1>15 DEF Serve

-----------------------------------------------------------------------------
LEMMA ListsStart == Init => ListInv
<1> SUFFICES ASSUME Init PROVE ListInv OBVIOUS
<1>1. /\ server = [webhooks |-> {}, schemas |-> {}] /\ created = 0
      /\ panel = FreshPanel("closed") /\ calls = <<>>
  BY DEF Init, PanelsInit
<1>2. panel.kind = "closed" /\ panel.list = <<>> BY <1>1 DEF FreshPanel
<1>3. ListOk("closed", <<>>, 0) BY EmptyList DEF ListOk
<1>4. ServerOk(server, 0) BY <1>1 DEF ServerOk
<1> QED BY <1>1, <1>2, <1>3, <1>4, EmptyList DEF ListInv, ListsOk

\* EventSender.tsx 345-354: a panel that is mounted has an empty list, which is
\* in step if no call of an earlier panel of its kind is under way.
LEMMA MountLists ==
  ASSUME PanelInv, ListInv, (\E kind \in {"webhooks", "schemas"} : Mount(kind)) \/ Unmount
  PROVE  ListInv'
<1>1. PICK s, o, sv, n : s = calls /\ o = Orphans /\ sv = server /\ n = created OBVIOUS
<1>2. /\ CallsType(o) /\ DOMAIN o = DOMAIN s
      /\ \A i \in DOMAIN o : o[i].live = FALSE /\ SameCall(o[i], s[i])
  BY <1>1, OrphansFacts DEF PanelInv
<1>3. server' = sv /\ created' = n BY <1>1 DEF Mount, Unmount
<1>4. /\ n \in Nat /\ ServerOk(sv, n)
      /\ \A i \in DOMAIN s : CallOk(s[i], panel.kind, n)
  BY <1>1 DEF ListInv, ListsOk
<1>5. \A kind : \A i \in DOMAIN o : CallOk(o[i], kind, n)
  BY <1>2, <1>4 DEF CallOk, SameCall, RowOf
<1>6. \A kind \in {"closed", "webhooks", "schemas"} : ListOk(kind, <<>>, n)
  BY EmptyList DEF ListOk, InjIds
<1>7. CASE Unmount
  <2>1. panel'.kind = "closed" /\ panel'.list = <<>> /\ calls' = o
    BY <1>1, <1>7 DEF Unmount, FreshPanel
  <2> QED BY <1>3, <1>4, <1>5, <1>6, <2>1 DEF ListInv, ListsOk
<1>8. ASSUME NEW kind \in {"webhooks", "schemas"}, Mount(kind) PROVE ListInv'
  <2>1. PICK c : c = [Call("load", None, "warn") EXCEPT !.kind = kind] OBVIOUS
  <2>2. /\ DOMAIN c = CallFields /\ c = [f \in CallFields |-> c[f]]
        /\ c.what = "load" /\ c.kind = kind /\ c.live = TRUE /\ c.at = "asked" /\ c.got = <<>>
        /\ c.id = 0
    BY <2>1 DEF Call, CallFields, None
  <2>3. CallType(c) BY <2>2, EmptyList DEF CallType, Ats
  <2>4. CallOk(c, kind, n)
    <3>1. RowOf(c, kind, n) BY <1>4, <2>2 DEF RowOf
    <3>2. InjIds(<<>>) BY EmptyList DEF InjIds
    <3> QED BY <2>2, <3>1, <3>2, EmptyList DEF CallOk
  <2>5. PICK a, e : a = Append(o, c) /\ e = Len(o) + 1 OBVIOUS
  <2>6. /\ panel'.kind = kind /\ panel'.list = <<>> /\ calls' = a
        /\ (clean' = TRUE => \A i \in DOMAIN s : s[i].kind # kind)
    BY <1>1, <1>8, <2>1, <2>5 DEF Mount, FreshPanel
  <2>7. DOMAIN a = DOMAIN o \cup {e} /\ a[e] = c /\ \A i \in DOMAIN o : a[i] = o[i]
    BY <1>2, <2>3, <2>5, AppendedCall
  <2>8. ListsOk(kind, <<>>, a, sv, n) BY <1>4, <1>5, <1>6, <2>4, <2>7 DEF ListsOk
  <2>9. ASSUME clean' = TRUE PROVE InStep(kind, <<>>, a, sv)
    <3>1. \A i \in DOMAIN a : a[i].kind = kind => i = e BY <1>2, <2>6, <2>7, <2>9 DEF SameCall
    <3>2. a[e].live = TRUE /\ a[e].what = "load" /\ a[e].at = "asked" /\ a[e].kind = kind
      BY <2>2, <2>7
    <3>3. AllLive(kind, a) BY <3>1, <3>2 DEF AllLive
    <3>4. LoadAlone(kind, <<>>, a, sv) BY <3>1, <3>2 DEF LoadAlone
    <3>5. Apart(kind, <<>>, a) BY <3>1, <3>2 DEF Apart
    <3>6. Accounts(kind, <<>>, a, sv) BY <2>7, <3>2 DEF Accounts
    <3>7. InjIds(<<>>) BY EmptyList DEF InjIds
    <3> QED BY <3>3, <3>4, <3>5, <3>6, <3>7 DEF InStep
  <2> QED BY <1>3, <2>6, <2>8, <2>9 DEF ListInv
<1> QED BY <1>7, <1>8

\* What the buttons do: a call is issued, which keeps the list in step unless it
\* overlaps the load or the opposite change.
LEMMA IssueLists ==
  ASSUME PanelInv, ListInv, NEW c, CallType(c), c.kind = panel.kind, c.kind # "closed",
         c.live = TRUE, c.at = "asked", c.got = <<>>, c.what # "load",
         RowOf(c, c.kind, created), c.what \in {"delete", "test"} => Has(panel.list, c.id),
         Issue(c), panel'.kind = panel.kind, panel'.list = panel.list
  PROVE  ListInv'
<1>1. PICK s, a, e, sv, n, kind, l :
        /\ s = calls /\ a = Append(s, c) /\ e = Len(s) + 1 /\ sv = server /\ n = created
        /\ kind = panel.kind /\ l = panel.list
  OBVIOUS
<1>2. /\ DOMAIN a = DOMAIN s \cup {e} /\ ~(e \in DOMAIN s) /\ a[e] = c
      /\ \A i \in DOMAIN s : a[i] = s[i]
  BY <1>1, AppendedCall DEF PanelInv
<1>3. /\ calls' = a /\ server' = sv /\ created' = n
      /\ (clean' = TRUE => /\ clean = TRUE
                           /\ \A i \in DOMAIN s : s[i].kind = kind /\ c.what # "test" =>
                                /\ s[i].what # "load"
                                /\ s[i].id = c.id => s[i].what = c.what)
  BY <1>1 DEF Issue
<1>4. ListsOk(kind, l, s, sv, n) BY <1>1 DEF ListInv
<1>5. CallOk(c, kind, n)
  <2>1. InjIds(<<>>) BY EmptyList DEF InjIds
  <2>2. kind \in {"webhooks", "schemas"} BY <1>1, <1>4 DEF ListsOk, ListOk
  <2> QED BY <1>1, <2>1, <2>2, EmptyList DEF CallOk
<1>6. ListsOk(kind, l, a, sv, n) BY <1>2, <1>4, <1>5 DEF ListsOk
<1>7. ASSUME clean' = TRUE PROVE InStep(kind, l, a, sv)
  <2>1. InStep(kind, l, s, sv) BY <1>1, <1>3, <1>7 DEF ListInv
  <2>2. ~Acted(c, kind) BY DEF Acted
  <2>3. AllLive(kind, a) BY <1>2, <2>1 DEF InStep, AllLive
  <2>4. \A i \in DOMAIN s : s[i].kind = kind => s[i].what # "load"
    <3>1. CASE c.what = "test"
      <4>1. l # <<>> BY <1>1, <3>1, EmptyList DEF Has
      <4> QED BY <2>1, <4>1 DEF InStep, LoadAlone
    <3>2. CASE c.what # "test" BY <1>3, <1>7, <3>2
    <3> QED BY <3>1, <3>2
  <2>5. LoadAlone(kind, l, a, sv) BY <1>2, <2>4 DEF LoadAlone
  <2>6. Apart(kind, l, a)
    <3> SUFFICES ASSUME NEW i \in DOMAIN a, a[i].kind = kind, a[i].what = "save"
                 PROVE  /\ kind = "schemas" \/ a[i].at = "ok" =>
                             \A j \in DOMAIN a : a[j].kind = kind /\ a[j].what = "delete"
                                                   => a[i].id # a[j].id
                        /\ kind = "webhooks" /\ a[i].at = "ok" => ~Has(l, a[i].id)
      BY DEF Apart
    <3>1. CASE i = e
      <4>1. a[i].what = "save" /\ a[i].at = "asked" BY <1>2, <3>1
      <4>2. \A j \in DOMAIN s : s[j].kind = kind /\ s[j].what = "delete" => c.id # s[j].id
        BY <1>2, <1>3, <1>7, <3>1, <4>1
      <4> QED BY <1>2, <3>1, <4>1, <4>2
    <3>2. CASE i # e
      <4>1. i \in DOMAIN s /\ a[i] = s[i] BY <1>2, <3>2
      <4>2. /\ kind = "schemas" \/ s[i].at = "ok" =>
                 \A j \in DOMAIN s : s[j].kind = kind /\ s[j].what = "delete" => s[i].id # s[j].id
            /\ kind = "webhooks" /\ s[i].at = "ok" => ~Has(l, s[i].id)
        BY <2>1, <4>1 DEF InStep, Apart
      <4>3. c.what = "delete" => s[i].id # c.id BY <1>3, <1>7, <4>1
      <4> QED BY <1>2, <4>1, <4>2, <4>3
    <3> QED BY <3>1, <3>2
  <2>7. \A r : WillList(r, kind, l, s) <=> WillList(r, kind, l, a)
    BY <1>2, <2>2 DEF WillList
  <2>8. Accounts(kind, l, a, sv) BY <2>1, <2>4, <2>7 DEF InStep, Accounts
  <2> QED BY <2>1, <2>3, <2>5, <2>6, <2>8 DEF InStep
<1> QED BY <1>1, <1>3, <1>6, <1>7 DEF ListInv

\* A step that does not concern the list.
LEMMA UnlistedKeeps ==
  ASSUME ListInv, server' = server, created' = created, calls' = calls, clean' = clean,
         panel'.kind = panel.kind, panel'.list = panel.list
  PROVE  ListInv'
BY DEF ListInv

\* A test marks its row and leaves the list as it is.
LEMMA TestKeepsList ==
  ASSUME NEW n, HandleTestViolation(n)
  PROVE  /\ Has(panel.list, n) /\ Issue(Call("test", n, "warn"))
         /\ DOMAIN panel = PanelFields
               => panel'.kind = panel.kind /\ panel'.list = panel.list
<1>1. PICK p : p = panel OBVIOUS
<1>2. PICK q : q = [p EXCEPT !.rows[n].testing = TRUE, !.rows[n].result = "none"] OBVIOUS
<1>3. DOMAIN p = PanelFields => q.kind = p.kind /\ q.list = p.list BY <1>2 DEF PanelFields
<1>4. PICK c : c = Call("test", n, "warn") OBVIOUS
<1>5. panel' = q /\ Issue(c) BY <1>1, <1>2, <1>4 DEF HandleTestViolation
<1>6. Has(panel.list, n) BY DEF HandleTestViolation, MayTest
<1> QED BY <1>1, <1>3, <1>4, <1>5, <1>6

LEMMA HandlersList ==
  ASSUME PanelInv, ListInv,
         \/ HandleCreate \/ HandleRegisterInvalid
         \/ \E n \in SchemaNames, mode \in Modes : HandleRegister(n, mode)
         \/ \E id \in Ids : HandleDelete(id)
         \/ \E n \in SchemaNames : HandleTestViolation(n)
  PROVE  ListInv'
<1>1. PICK p : p = panel OBVIOUS
<1>2. /\ DOMAIN p = PanelFields /\ p = [f \in PanelFields |-> p[f]]
      /\ created \in Nat /\ ListOk(p.kind, p.list, created)
  BY <1>1 DEF PanelInv, PanelType, ListInv, ListsOk
<1>3. ASSUME NEW what \in {"save", "delete", "test"}, NEW id, NEW mode, p.kind # "closed",
             Issue(Call(what, id, mode)), what = "test" => id \in SchemaNames,
             id \in Nat, p.kind = "webhooks" => id <= created,
             what \in {"delete", "test"} => Has(p.list, id),
             panel'.kind = p.kind, panel'.list = p.list
      PROVE  ListInv'
  <2>1. PICK c : c = Call(what, id, mode) OBVIOUS
  <2>2. /\ DOMAIN c = CallFields /\ c = [f \in CallFields |-> c[f]] /\ c.live = TRUE
        /\ c.what = what /\ c.id = id /\ c.at = "asked" /\ c.got = <<>> /\ c.kind = p.kind
    BY <1>1, <2>1 DEF Call, CallFields
  <2>3. CallType(c) BY <1>3, <2>2, NewCall
  <2>4. RowOf(c, c.kind, created) BY <1>3, <2>2 DEF RowOf
  <2>5. Issue(c) BY <1>3, <2>1
  <2> QED BY <1>1, <1>3, <2>2, <2>3, <2>4, <2>5, IssueLists
<1>4. CASE HandleCreate
  <2>1. panel'.kind = p.kind /\ panel'.list = p.list /\ p.kind = "webhooks"
    BY <1>1, <1>2, <1>4 DEF HandleCreate, MayCreate, PanelFields
  <2>2. Issue(Call("save", 0, "warn")) BY <1>4 DEF HandleCreate, None
  <2> QED BY <1>2, <1>3, <2>1, <2>2
<1>5. ASSUME NEW n \in SchemaNames, NEW mode \in Modes, HandleRegister(n, mode) PROVE ListInv'
  <2>4. PICK q : q = [p EXCEPT !.busy = TRUE, !.error = FALSE] OBVIOUS
  <2>5. q.kind = p.kind /\ q.list = p.list BY <1>2, <2>4 DEF PanelFields
  <2>1. panel'.kind = p.kind /\ panel'.list = p.list /\ p.kind = "schemas"
    BY <1>1, <1>5, <2>4, <2>5 DEF HandleRegister, MayRegister
  <2>2. Issue(Call("save", n, mode)) BY <1>5 DEF HandleRegister
  <2>3. n \in Nat BY PanelsAssumption
  <2> QED BY <1>3, <2>1, <2>2, <2>3
<1>6. CASE HandleRegisterInvalid
  <2>1. panel'.kind = p.kind /\ panel'.list = p.list
    BY <1>1, <1>2, <1>6 DEF HandleRegisterInvalid, PanelFields
  <2> QED BY <1>1, <1>6, <2>1, UnlistedKeeps DEF HandleRegisterInvalid
<1>7. ASSUME NEW id, Has(p.list, id)
      PROVE  p.kind # "closed" /\ id \in Nat /\ (p.kind = "webhooks" => id <= created)
  <2>1. PICK i \in DOMAIN p.list : p.list[i].id = id BY <1>7 DEF Has
  <2>2. p.list # <<>> BY <2>1, EmptyList
  <2> QED BY <1>2, <2>1, <2>2 DEF ListOk, RowOf
<1>8. ASSUME NEW id \in Ids, HandleDelete(id) PROVE ListInv'
  <2>1. panel'.kind = p.kind /\ panel'.list = p.list /\ Has(p.list, id)
    BY <1>1, <1>2, <1>8 DEF HandleDelete, MayDelete, PanelFields
  <2>2. Issue(Call("delete", id, "warn")) BY <1>8 DEF HandleDelete
  <2> QED BY <1>3, <1>7, <2>1, <2>2
<1>9. ASSUME NEW n \in SchemaNames, HandleTestViolation(n) PROVE ListInv'
  <2>1. panel'.kind = p.kind /\ panel'.list = p.list /\ Has(p.list, n)
    BY <1>1, <1>2, <1>9, TestKeepsList
  <2>7. Issue(Call("test", n, "warn")) BY <1>9, TestKeepsList
  <2> QED BY <1>3, <1>7, <2>1, <2>7
<1> QED BY <1>4, <1>5, <1>6, <1>8, <1>9

LEMMA ListStep == PanelInv /\ ListInv /\ [Next]_vars => ListInv'
<1> SUFFICES ASSUME PanelInv, ListInv, [Next]_vars PROVE ListInv' OBVIOUS
<1>1. ASSUME UNCHANGED panelVars PROVE ListInv' BY <1>1, UnlistedKeeps DEF panelVars
<1>2. CASE LeaveTab BY <1>2, MountLists DEF LeaveTab
<1>3. CASE EnterTab BY <1>1, <1>3 DEF EnterTab
<1>4. CASE ClosePanel BY <1>4, MountLists DEF ClosePanel
<1>5. CASE \E kind \in {"webhooks", "schemas"} : OpenPanel(kind)
  BY <1>5, MountLists DEF OpenPanel
<1>6. CASE \E kind \in Kinds : Send(kind) BY <1>1, <1>6 DEF Send
<1>7. CASE UsePanel BY <1>7, HandlersList DEF UsePanel
<1>8. CASE Finish BY <1>1, <1>8 DEF Finish
<1>9. CASE SenderTimer BY <1>1, <1>9 DEF SenderTimer
<1>10. CASE LockTimer BY <1>1, <1>10 DEF LockTimer
<1>11. CASE Api BY <1>11, ServeLists DEF Api
<1>12. CASE PanelAnswer BY <1>12, AnswerLists DEF PanelAnswer
<1>13. CASE PanelTimer
  <2>1. PICK p : p = panel /\ DOMAIN p = PanelFields BY DEF PanelInv, PanelType
  <2>2. CASE ErrorTimer
    <3>1. PICK q : q = [p EXCEPT !.deleteError = FALSE, !.errorTimers = @ - 1] OBVIOUS
    <3>2. q.kind = p.kind /\ q.list = p.list BY <2>1, <3>1 DEF PanelFields
    <3>3. panel' = q /\ UNCHANGED <<server, created, calls, clean>>
      BY <2>1, <2>2, <3>1 DEF ErrorTimer
    <3> QED BY <2>1, <3>2, <3>3, UnlistedKeeps
  <2>3. ASSUME NEW n \in SchemaNames, RowTimer(n) PROVE ListInv'
    <3>1. PICK q : q = [p EXCEPT !.rows[n].result = "none", !.rows[n].timers = @ - 1] OBVIOUS
    <3>2. q.kind = p.kind /\ q.list = p.list BY <2>1, <3>1 DEF PanelFields
    <3>3. panel' = q /\ UNCHANGED <<server, created, calls, clean>>
      BY <2>1, <2>3, <3>1 DEF RowTimer
    <3> QED BY <2>1, <3>2, <3>3, UnlistedKeeps
  <2> QED BY <1>13, <2>2, <2>3 DEF PanelTimer
<1>14. CASE UNCHANGED vars BY <1>1, <1>14 DEF vars
<1> QED BY <1>2, <1>3, <1>4, <1>5, <1>6, <1>7, <1>8, <1>9, <1>10, <1>11, <1>12, <1>13, <1>14
        DEF Next

\* WebhookPanel.tsx 26-91, SchemaPanel.tsx 149-221: in every behaviour a schema is
\* listed once, and when no answer is outstanding the list is what the API has,
\* unless a change overlapped the load or the opposite change, the load failed,
\* or an answer was lost.
THEOREM ListsAreTrue == Spec => []ListIsServer
<1>1. ASSUME PanelInv, ListInv PROVE ListIsServer
  <2>1. PICK l, kind, ids : l = panel.list /\ kind = panel.kind
                            /\ ids = [i \in DOMAIN l |-> l[i].id]
    OBVIOUS
  <2>2. InjIds(l) => IsInjective(ids) BY <2>1 DEF InjIds, IsInjective
  <2>3. kind = "schemas" => InjIds(l) BY <1>1, <2>1 DEF ListInv, ListsOk, ListOk
  <2>4. ASSUME kind # "closed", clean, calls = <<>>
        PROVE  InjIds(l) /\ Range(l) = server[kind]
    <3>1. InStep(kind, l, <<>>, server) BY <1>1, <2>1, <2>4 DEF ListInv
    <3>2. \A r : r \in server[kind] <=> WillList(r, kind, l, <<>>)
      BY <3>1, EmptyList DEF InStep, Accounts
    <3>3. \A r : WillList(r, kind, l, <<>>) <=> r \in Range(l) BY EmptyList DEF WillList
    <3>4. Range(l) = server[kind] BY <3>2, <3>3
    <3> QED BY <3>1, <3>4 DEF InStep
  <2> QED BY <2>1, <2>2, <2>3, <2>4 DEF ListIsServer
<1>2. Spec => []PanelInv BY PanelsStart, PanelStep, PTL DEF Spec
<1>3. Spec => []ListInv
  <2>1. Spec => []PanelInv /\ [][Next]_vars /\ ListInv BY <1>2, ListsStart, PTL DEF Spec
  <2> QED BY <2>1, ListStep, PTL
<1> QED BY <1>1, <1>2, <1>3, PTL

=============================================================================
