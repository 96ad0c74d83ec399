-------------------------- MODULE AnalyticsProofs ---------------------------
(***************************************************************************)
(* Proofs about what the cards of the "Analytics" tab hold, for every      *)
(* number of cards, rows, polls and requests.                              *)
(***************************************************************************)
EXTENDS Analytics, FiniteSetTheorems, SequenceTheorems, WellFoundedInduction, TLAPS

Flight == [at : {"asked", "ok", "failed"}, ask : {{}}, got : Nat \cup {NoData}]

Resource == [data : Nat \cup {NoData}, status : {"idle", "ok", "error"}, flights : Seq(Flight)]

\* Polls that land bring rows that the table has and that the effect asked
\* for; while they do not overlap, not older ones than the card has.
\* (s: the resource, a: rows when its effect was started, o: polls overlapped,
\* v: rows of the table.)
Sound(s, a, o, v) ==
  /\ a <= v
  /\ s.data # NoData => s.data <= v
  /\ \A i \in DOMAIN s.flights : s.flights[i].at = "ok" =>
       s.flights[i].got \in Nat /\ a <= s.flights[i].got /\ s.flights[i].got <= v
  /\ o = FALSE =>
       /\ Len(s.flights) <= 1
       /\ \A i \in DOMAIN s.flights : s.flights[i].at = "ok" /\ s.data # NoData =>
            s.data <= s.flights[i].got

TypeInv == /\ table \in Seq(EventRows)
           /\ res \in [Resources -> Resource]
           /\ asked \in [Resources -> Nat]
           /\ overlapped \in [Resources -> BOOLEAN]

PollsAreSound == \A r \in Resources : Sound(res[r], asked[r], overlapped[r], Version)

\* One request at a time brings the rows of the user that is selected.
RequestIsSelected ==
  /\ requests \in Seq(Users)
  /\ loading => requests # <<>>
  /\ ~raced => \/ requests = <<>> /\ listed \in {NoUser, selected}
               \/ \E u \in Users : requests = <<u>> /\ selected = u /\ loading

AInv == TypeInv /\ PollsAreSound /\ RequestIsSelected

-----------------------------------------------------------------------------
\* RemoveAt of the sequence module.
LEMMA RemoveAtFacts ==
  ASSUME NEW S, NEW s \in Seq(S), NEW i \in DOMAIN s
  PROVE  /\ RemoveAt(s, i) \in Seq(S)
         /\ Len(RemoveAt(s, i)) = Len(s) - 1
         /\ \A k \in DOMAIN RemoveAt(s, i) : \E j \in DOMAIN s : RemoveAt(s, i)[k] = s[j]
<1>1. i \in 1 .. Len(s) /\ Len(s) \in Nat OBVIOUS
<1>2. PICK a : a = SubSeq(s, 1, i - 1) OBVIOUS
<1>3. PICK b : b = SubSeq(s, i + 1, Len(s)) OBVIOUS
<1>4. a \in Seq(S) /\ Len(a) = i - 1 /\ \A k \in 1 .. i - 1 : a[k] = s[k] BY <1>1, <1>2
<1>5. b \in Seq(S) /\ Len(b) = Len(s) - i /\ \A k \in 1 .. Len(s) - i : b[k] = s[k + i]
  BY <1>1, <1>3
<1>6. RemoveAt(s, i) = a \o b BY <1>2, <1>3 DEF RemoveAt
<1>7. a \o b \in Seq(S) /\ Len(a \o b) = Len(s) - 1 BY <1>1, <1>4, <1>5
<1>8. ASSUME NEW k \in DOMAIN (a \o b) PROVE \E j \in DOMAIN s : (a \o b)[k] = s[j]
  <2>1. k \in 1 .. Len(s) - 1 BY <1>7
  <2>2. CASE k <= i - 1
    <3>1. (a \o b)[k] = s[k] BY <1>1, <1>4, <1>5, <2>1, <2>2
    <3> QED BY <1>1, <2>1, <3>1
  <2>3. CASE k > i - 1
    <3>1. (a \o b)[k] = b[k - (i - 1)] BY <1>1, <1>4, <1>5, <2>1, <2>3
    <3>2. k - (i - 1) \in 1 .. Len(s) - i BY <1>1, <2>1, <2>3
    <3>3. PICK m \in 1 .. Len(s) - i : m = k - (i - 1) BY <3>2
    <3>4. b[m] = s[m + i] BY <1>5, <3>3
    <3>5. m + i = k + 1 BY <1>1, <2>1, <3>3
    <3>6. (a \o b)[k] = s[k + 1] BY <3>1, <3>3, <3>4, <3>5
    <3> QED BY <1>1, <2>1, <3>6
  <2> QED BY <1>1, <2>1, <2>2, <2>3
<1> QED BY <1>6, <1>7, <1>8

\* The fields of the records that the hook is made of.
LEMMA AskedFlight == Asked({}) \in Flight /\ Asked({}).at = "asked"
BY DEF Asked, Flight

LEMMA FreshResource == Fresh \in Resource /\ Fresh.data = NoData /\ Fresh.flights = <<>>
<1>1. <<>> \in Seq(Flight) OBVIOUS
<1> QED BY <1>1 DEF Fresh, Resource

\* usePolledResource.ts: the effect is started, with no poll but its own.
LEMMA StartedIsSound ==
  ASSUME NEW s \in Resource, NEW v \in Nat, s.data # NoData => s.data <= v
  PROVE  Started(s, {}) \in Resource /\ Sound(Started(s, {}), v, FALSE, v)
<1>1. PICK t : t = Started(s, {}) OBVIOUS
<1>2. PICK f \in Flight : f = Asked({}) /\ f.at = "asked" BY AskedFlight
<1>3. t.flights = <<f>> /\ t.data = s.data /\ t.status = s.status /\ <<f>> \in Seq(Flight)
  BY <1>1, <1>2 DEF Started, Resource
<1>4. t \in Resource BY <1>1, <1>2, <1>3 DEF Started, Resource
<1>5. Len(t.flights) = 1 /\ \A i \in DOMAIN t.flights : t.flights[i].at = "asked"
  BY <1>2, <1>3
<1>6. Sound(t, v, FALSE, v) BY <1>3, <1>5 DEF Sound
<1> QED BY <1>1, <1>4, <1>6

\* The interval fires.
LEMMA TickIsSound ==
  ASSUME NEW s \in Resource, NEW a \in Nat, NEW o \in BOOLEAN, NEW v \in Nat, Sound(s, a, o, v),
         NEW t, t = [s EXCEPT !.flights = Append(@, Asked({}))]
  PROVE  t \in Resource /\ Sound(t, a, o \/ s.flights # <<>>, v)
<1>1. PICK f \in Flight : f = Asked({}) /\ f.at = "asked" BY AskedFlight
<1>2. s.flights \in Seq(Flight) /\ Len(s.flights) \in Nat BY DEF Resource
<1>3. t.flights = Append(s.flights, f) /\ t.data = s.data BY <1>1 DEF Resource
<1>4. t \in Resource
  <2>1. Append(s.flights, f) \in Seq(Flight) BY <1>1, <1>2
  <2> QED BY <1>1, <1>3, <2>1 DEF Resource
<1>5. \A i \in DOMAIN t.flights : t.flights[i].at = "ok" =>
        i \in DOMAIN s.flights /\ t.flights[i] = s.flights[i]
  BY <1>1, <1>2, <1>3
<1>6. s.flights = <<>> => Len(t.flights) = 1 BY <1>2, <1>3
<1> QED BY <1>2, <1>3, <1>4, <1>5, <1>6 DEF Sound

\* The API answers a poll from the rows that it has.
LEMMA ServeIsSound ==
  ASSUME NEW s \in Resource, NEW a \in Nat, NEW o \in BOOLEAN, NEW v \in Nat, Sound(s, a, o, v),
         NEW i \in DOMAIN s.flights, NEW f \in Flight, f.at = "ok" => f.got = v,
         NEW t, t = [s EXCEPT !.flights[i] = f]
  PROVE  t \in Resource /\ Sound(t, a, o, v)
<1>1. s.flights \in Seq(Flight) /\ Len(s.flights) \in Nat BY DEF Resource
<1>2. t.flights = [s.flights EXCEPT ![i] = f] /\ t.data = s.data BY DEF Resource
<1>3. t.flights \in Seq(Flight) /\ Len(t.flights) = Len(s.flights)
      /\ DOMAIN t.flights = DOMAIN s.flights
  BY <1>1, <1>2
<1>4. t \in Resource BY <1>1, <1>2, <1>3 DEF Resource
<1>5. \A j \in DOMAIN t.flights : t.flights[j] = IF j = i THEN f ELSE s.flights[j]
  BY <1>1, <1>2
<1> QED BY <1>2, <1>3, <1>4, <1>5 DEF Sound

\* More rows do no harm.
LEMMA GrowingIsSound ==
  ASSUME NEW s \in Resource, NEW a \in Nat, NEW o \in BOOLEAN, NEW v \in Nat, NEW w \in Nat,
         v <= w, Sound(s, a, o, v)
  PROVE  Sound(s, a, o, w)
<1>1. s.data # NoData => s.data \in Nat BY DEF Resource
<1>2. s.data # NoData => s.data <= w BY <1>1 DEF Sound
<1>3. \A i \in DOMAIN s.flights : s.flights[i].at = "ok" =>
        s.flights[i].got \in Nat /\ a <= s.flights[i].got /\ s.flights[i].got <= w
  BY DEF Sound
<1>4. a <= w BY DEF Sound
<1> QED BY <1>2, <1>3, <1>4 DEF Sound

-----------------------------------------------------------------------------
\* The part of the invariant that is about one resource.
LEMMA ResourceFacts ==
  ASSUME TypeInv, PollsAreSound, NEW r \in Resources
  PROVE  /\ res[r] \in Resource /\ asked[r] \in Nat /\ overlapped[r] \in BOOLEAN /\ Version \in Nat
         /\ Sound(res[r], asked[r], overlapped[r], Version)
BY DEF TypeInv, PollsAreSound, Version

\* A step that concerns one resource and leaves the table alone.
LEMMA OneResource ==
  ASSUME TypeInv, PollsAreSound, NEW r \in Resources, NEW t \in Resource,
         NEW a \in Nat, NEW o \in BOOLEAN, UNCHANGED table,
         res' = [res EXCEPT ![r] = t], asked' = [asked EXCEPT ![r] = a],
         overlapped' = [overlapped EXCEPT ![r] = o], Sound(t, a, o, Version)
  PROVE  TypeInv' /\ PollsAreSound'
<1>1. TypeInv' BY DEF TypeInv
<1>2. Version' = Version BY DEF Version
<1>3. /\ res'[r] = t /\ asked'[r] = a /\ overlapped'[r] = o
      /\ \A q \in Resources \ {r} :
           res'[q] = res[q] /\ asked'[q] = asked[q] /\ overlapped'[q] = overlapped[q]
  BY DEF TypeInv
<1>4. \A q \in Resources : Sound(res'[q], asked'[q], overlapped'[q], Version)
  BY <1>3 DEF PollsAreSound
<1> QED BY <1>1, <1>2, <1>4 DEF PollsAreSound

\* usePolledResource.ts 27-63: what a step may do to what a card shows.
Forward == \A r \in Resources : res'[r].data # res[r].data /\ res'[r].data # NoData =>
             /\ res'[r].data >= asked[r]
             /\ res[r].data # NoData /\ ~overlapped[r] => res'[r].data > res[r].data

LEMMA SameData == ASSUME \A r \in Resources : res'[r].data = res[r].data PROVE Forward
BY DEF Forward

LEMMA TickStep ==
  ASSUME TypeInv, PollsAreSound, NEW r \in Resources, ChartTick(r)
  PROVE  TypeInv' /\ PollsAreSound' /\ Forward
<1>1. PICK s \in Resource : s = res[r] BY ResourceFacts
<1>2. PICK a \in Nat : a = asked[r] BY ResourceFacts
<1>3. PICK o \in BOOLEAN : o = overlapped[r] BY ResourceFacts
<1>4. PICK v \in Nat : v = Version BY ResourceFacts
<1>5. PICK t : t = [s EXCEPT !.flights = Append(@, Asked({}))] OBVIOUS
<1>6. Sound(s, a, o, v) BY <1>1, <1>2, <1>3, <1>4, ResourceFacts
<1>7. t \in Resource /\ Sound(t, a, o \/ s.flights # <<>>, v) BY <1>5, <1>6, TickIsSound
<1>8. PICK p \in BOOLEAN : p = (o \/ s.flights # <<>>) OBVIOUS
<1>9. /\ res' = [res EXCEPT ![r] = t] /\ overlapped' = [overlapped EXCEPT ![r] = p]
      /\ asked' = [asked EXCEPT ![r] = a] /\ UNCHANGED table
  BY <1>1, <1>2, <1>3, <1>5, <1>8 DEF ChartTick, Tick, TypeInv
<1>10. \A q \in Resources : res'[q].data = res[q].data
  BY <1>1, <1>5, <1>9 DEF TypeInv, Resource
<1> QED BY <1>4, <1>7, <1>8, <1>9, <1>10, OneResource, SameData

LEMMA RefreshStep ==
  ASSUME TypeInv, PollsAreSound, NEW r \in Resources, Refresh(r)
  PROVE  TypeInv' /\ PollsAreSound' /\ Forward
<1>1. PICK s \in Resource : s = res[r] BY ResourceFacts
<1>2. PICK v \in Nat : v = Version BY ResourceFacts
<1>3. s.data # NoData => s.data <= v BY <1>1, <1>2, ResourceFacts DEF Sound
<1>4. PICK t : t = Started(s, {}) OBVIOUS
<1>5. t \in Resource /\ Sound(t, v, FALSE, v) BY <1>3, <1>4, StartedIsSound
<1>6. /\ res' = [res EXCEPT ![r] = t] /\ overlapped' = [overlapped EXCEPT ![r] = FALSE]
      /\ asked' = [asked EXCEPT ![r] = v] /\ UNCHANGED table
  BY <1>1, <1>2, <1>4 DEF Refresh, Refetch
<1>7. t.data = s.data BY <1>4 DEF Started, Resource
<1>8. \A q \in Resources : res'[q].data = res[q].data BY <1>1, <1>6, <1>7 DEF TypeInv
<1> QED BY <1>2, <1>5, <1>6, <1>8, OneResource, SameData

LEMMA ServeStep ==
  ASSUME TypeInv, PollsAreSound, NEW r \in Resources, ChartServe(r)
  PROVE  TypeInv' /\ PollsAreSound' /\ Forward
<1>1. PICK s \in Resource : s = res[r] BY ResourceFacts
<1>2. PICK a \in Nat : a = asked[r] BY ResourceFacts
<1>3. PICK o \in BOOLEAN : o = overlapped[r] BY ResourceFacts
<1>4. PICK v \in Nat : v = Version BY ResourceFacts
<1>5. Sound(s, a, o, v) BY <1>1, <1>2, <1>3, <1>4, ResourceFacts
<1>6. PICK i \in DOMAIN s.flights : Serve(r, i, v) BY <1>1, <1>4 DEF ChartServe
<1>7. PICK f : f = [at |-> IF up THEN "ok" ELSE "failed", ask |-> {},
                    got |-> IF up THEN v ELSE NoData]
  OBVIOUS
<1>8. f \in Flight /\ (f.at = "ok" => f.got = v) BY <1>7 DEF Flight
<1>9. PICK t : t = [s EXCEPT !.flights[i] = f] OBVIOUS
<1>10. t \in Resource /\ Sound(t, a, o, v) BY <1>5, <1>8, <1>9, ServeIsSound
<1>11. res' = [res EXCEPT ![r] = t] BY <1>1, <1>6, <1>7, <1>9 DEF Serve
<1>12. /\ overlapped' = [overlapped EXCEPT ![r] = o]
       /\ asked' = [asked EXCEPT ![r] = a] /\ UNCHANGED table
  BY <1>2, <1>3 DEF ChartServe, pollHistory, TypeInv
<1>13. t.data = s.data BY <1>9 DEF Resource
<1>14. \A q \in Resources : res'[q].data = res[q].data BY <1>1, <1>11, <1>13 DEF TypeInv
<1> QED BY <1>4, <1>10, <1>11, <1>12, <1>14, OneResource, SameData

LEMMA LandStep ==
  ASSUME TypeInv, PollsAreSound, NEW r \in Resources, ChartLand(r)
  PROVE  TypeInv' /\ PollsAreSound' /\ Forward
<1>1. PICK s \in Resource : s = res[r] BY ResourceFacts
<1>2. PICK a \in Nat : a = asked[r] BY ResourceFacts
<1>3. PICK o \in BOOLEAN : o = overlapped[r] BY ResourceFacts
<1>4. PICK v \in Nat : v = Version BY ResourceFacts
<1>5. Sound(s, a, o, v) BY <1>1, <1>2, <1>3, <1>4, ResourceFacts
<1>6. PICK i \in DOMAIN s.flights : Land(r, i) BY <1>1 DEF ChartLand
<1>7. PICK t : t = Landed(r, s, i) OBVIOUS
<1>8. PICK p \in BOOLEAN : p = (o /\ Len(s.flights) > 1) OBVIOUS
<1>9. /\ t \in Resource /\ Sound(t, a, p, v)
      /\ t.data # s.data /\ t.data # NoData =>
           t.data >= a /\ (s.data # NoData /\ o = FALSE => t.data > s.data)
  <2>1. s.flights \in Seq(Flight) /\ Len(s.flights) \in Nat /\ s.flights[i] \in Flight
        /\ i \in 1 .. Len(s.flights)
    BY DEF Resource
  <2>2. PICK g : g = RemoveAt(s.flights, i) OBVIOUS
  <2>3. g \in Seq(Flight) /\ Len(g) = Len(s.flights) - 1
        /\ \A k \in DOMAIN g : \E j \in DOMAIN s.flights : g[k] = s.flights[j]
    BY <2>1, <2>2, RemoveAtFacts
  <2>4. PICK f \in Flight : f = s.flights[i] BY <2>1
  <2>5. t.flights = g /\ t.data = (IF f.at = "ok" /\ r \in ReadsData THEN f.got ELSE s.data)
        /\ t.status \in {"idle", "ok", "error"}
    BY <1>7, <2>2, <2>4 DEF Landed, Resource
  <2>6. t.data \in Nat \cup {NoData} BY <2>4, <2>5 DEF Resource, Flight
  <2>7. t \in Resource BY <1>7, <2>2, <2>3, <2>5, <2>6 DEF Landed, Resource
  <2>8. f.at = "ok" => f.got \in Nat /\ a <= f.got /\ f.got <= v BY <1>5, <2>4 DEF Sound
  <2>9. t.data # NoData => t.data <= v BY <1>5, <2>5, <2>8 DEF Sound
  <2>10. \A k \in DOMAIN g : g[k].at = "ok" => g[k].got \in Nat /\ a <= g[k].got /\ g[k].got <= v
    BY <1>5, <2>3 DEF Sound
  <2>11. p = FALSE => Len(g) = 0
    <3>1. PICK n \in Nat : n = Len(s.flights) BY <2>1
    <3>2. n >= 1 BY <2>1, <3>1
    <3>3. o = FALSE => n <= 1 BY <1>5, <3>1 DEF Sound
    <3>4. n <= 1 => n - 1 = 0 BY <3>2
    <3>5. ~(n > 1) => n <= 1 OBVIOUS
    <3>6. Len(g) = n - 1 BY <2>3, <3>1
    <3>7. p = FALSE => o = FALSE \/ ~(n > 1) BY <1>8, <3>1
    <3> QED BY <3>3, <3>4, <3>5, <3>6, <3>7
  <2>12. Len(g) = 0 => DOMAIN g = {} BY <2>3
  <2>13. Sound(t, a, p, v)
    BY <1>5, <2>5, <2>9, <2>10, <2>11, <2>12 DEF Sound
  <2>14. t.data # s.data /\ t.data # NoData =>
           t.data >= a /\ (s.data # NoData /\ o = FALSE => t.data > s.data)
    BY <1>5, <2>4, <2>5, <2>8 DEF Sound, Resource
  <2> QED BY <2>7, <2>13, <2>14
<1>10. res' = [res EXCEPT ![r] = t] BY <1>1, <1>6, <1>7 DEF Land
<1>11. /\ overlapped' = [overlapped EXCEPT ![r] = p]
       /\ asked' = [asked EXCEPT ![r] = a] /\ UNCHANGED table
  <2>1. overlapped' = [overlapped EXCEPT ![r] = (overlapped[r] /\ Len(res[r].flights) > 1)]
    BY DEF ChartLand
  <2>2. (overlapped[r] /\ Len(res[r].flights) > 1) = p BY <1>1, <1>3, <1>8
  <2>3. overlapped' = [overlapped EXCEPT ![r] = p] BY <2>1, <2>2
  <2>4. asked' = [asked EXCEPT ![r] = a] /\ UNCHANGED table BY <1>2 DEF ChartLand, TypeInv
  <2> QED BY <2>3, <2>4
<1>12. res'[r] = t /\ \A q \in Resources \ {r} : res'[q] = res[q] BY <1>10 DEF TypeInv
<1>13. Forward BY <1>1, <1>2, <1>3, <1>9, <1>12 DEF Forward
<1> QED BY <1>4, <1>9, <1>10, <1>11, <1>13, OneResource

LEMMA SwitchStep ==
  ASSUME TypeInv, PollsAreSound, Switch
  PROVE  TypeInv' /\ PollsAreSound' /\ Forward
<1>1. Version \in Nat /\ Version' = Version BY DEF TypeInv, Version, Switch
<1>2. PICK v \in Nat : v = Version BY <1>1
<1>3. PICK t : t = IF shown THEN Fresh ELSE Mounted({}) OBVIOUS
<1>4. Sound(Fresh, v, FALSE, v) BY FreshResource DEF Sound
<1>5. Started(Fresh, {}) \in Resource /\ Sound(Started(Fresh, {}), v, FALSE, v)
  BY FreshResource, StartedIsSound
<1>6. Started(Fresh, {}).data = NoData BY FreshResource DEF Started, Resource
<1>7. t \in Resource /\ Sound(t, v, FALSE, v) /\ t.data = NoData
  BY <1>3, <1>4, <1>5, <1>6, FreshResource DEF Mounted
<1>8. \A r \in Resources : res'[r] = t /\ asked'[r] = v /\ overlapped'[r] = FALSE
  BY <1>2, <1>3 DEF Switch
<1>9. TypeInv' BY <1>2, <1>3, <1>7 DEF Switch, TypeInv
<1> QED BY <1>1, <1>2, <1>7, <1>8, <1>9 DEF PollsAreSound, Forward

LEMMA IngestStep ==
  ASSUME TypeInv, PollsAreSound, NEW e \in EventRows, Ingest(e)
  PROVE  TypeInv' /\ PollsAreSound' /\ Forward
<1>1. Version \in Nat /\ Version' = Version + 1 BY DEF TypeInv, Version, Ingest
<1>2. UNCHANGED <<res, asked, overlapped>> BY DEF Ingest, pollingVars, pollHistory
<1>3. TypeInv' BY <1>2 DEF TypeInv, Ingest
<1>4. ASSUME NEW r \in Resources PROVE Sound(res[r], asked[r], overlapped[r], Version + 1)
  <2>1. PICK v \in Nat : v = Version BY <1>1
  <2>2. PICK s \in Resource : s = res[r] BY ResourceFacts
  <2>3. PICK a \in Nat : a = asked[r] BY ResourceFacts
  <2>4. PICK o \in BOOLEAN : o = overlapped[r] BY ResourceFacts
  <2>5. Sound(s, a, o, v) BY <2>1, <2>2, <2>3, <2>4, ResourceFacts
  <2>6. v + 1 \in Nat /\ v <= v + 1 OBVIOUS
  <2>7. Sound(s, a, o, v + 1) BY <2>5, <2>6, GrowingIsSound
  <2> QED BY <2>1, <2>2, <2>3, <2>4, <2>7
<1> QED BY <1>1, <1>2, <1>3, <1>4, SameData DEF PollsAreSound

-----------------------------------------------------------------------------
\* UserActivity.tsx 41-57: what a step does to the requests.
LEMMA SelectStep ==
  ASSUME RequestIsSelected, NEW u \in Users, HandleSelectUser(u)
  PROVE  RequestIsSelected'
<1>1. requests \in Seq(Users) BY DEF RequestIsSelected
<1>2. CASE selected = u
  <2>1. selected' = NoUser /\ listed' = NoUser /\ UNCHANGED <<loading, requests>>
        /\ raced' = (requests # <<>>)
    BY <1>2 DEF HandleSelectUser
  <2> QED BY <2>1 DEF RequestIsSelected
<1>3. CASE selected # u
  <2>1. selected' = u /\ loading' = TRUE /\ requests' = Append(requests, u)
        /\ raced' = (requests # <<>>)
    BY <1>3 DEF HandleSelectUser
  <2>2. requests' \in Seq(Users) /\ requests' # <<>> BY <1>1, <2>1
  <2>3. requests = <<>> => requests' = <<u>> BY <2>1
  <2> QED BY <2>1, <2>2, <2>3 DEF RequestIsSelected
<1> QED BY <1>2, <1>3

LEMMA AnswerStep == ASSUME RequestIsSelected, SelectAnswer PROVE RequestIsSelected'
<1>1. requests \in Seq(Users) BY DEF RequestIsSelected
<1>2. PICK i \in DOMAIN requests : /\ listed' = Listed(requests[i]) /\ loading' = FALSE
                                   /\ requests' = RemoveAt(requests, i)
                                   /\ UNCHANGED <<selected, raced>>
  BY DEF SelectAnswer
<1>3. requests' \in Seq(Users) /\ Len(requests') = Len(requests) - 1 BY <1>1, <1>2, RemoveAtFacts
<1>4. ASSUME ~raced PROVE requests' = <<>> /\ listed' \in {NoUser, selected}
  <2>1. requests # <<>> BY <1>1, <1>2
  <2>2. PICK u \in Users : requests = <<u>> /\ selected = u BY <1>4, <2>1 DEF RequestIsSelected
  <2>3. Len(requests') = 0 /\ requests[i] = u BY <1>2, <1>3, <2>2
  <2>4. requests' = <<>> BY <1>3, <2>3
  <2> QED BY <1>2, <2>2, <2>3, <2>4 DEF Listed
<1> QED BY <1>2, <1>3, <1>4 DEF RequestIsSelected

LEMMA OtherRequests == ASSUME RequestIsSelected, UNCHANGED activityVars PROVE RequestIsSelected'
BY DEF RequestIsSelected, activityVars

\* A step that leaves the polls and the table alone.
LEMMA OtherPolls ==
  ASSUME TypeInv, PollsAreSound, UNCHANGED <<table, res, pollHistory>>
  PROVE  TypeInv' /\ PollsAreSound' /\ Forward
<1>1. TypeInv' /\ Version' = Version BY DEF TypeInv, Version, pollHistory
<1> QED BY <1>1, SameData DEF PollsAreSound, pollHistory

LEMMA AInvStep == AInv /\ [Next]_vars => AInv' /\ Forward
<1> SUFFICES ASSUME AInv, [Next]_vars PROVE AInv' /\ Forward OBVIOUS
<1>0. TypeInv /\ PollsAreSound /\ RequestIsSelected BY DEF AInv
<1>1. ASSUME NEW e \in EventRows, Ingest(e) PROVE AInv' /\ Forward
  BY <1>0, <1>1, IngestStep, OtherRequests DEF AInv, Ingest
<1>2. CASE Switch
  <2>1. requests' = <<>> /\ loading' = FALSE /\ listed' = NoUser BY <1>2 DEF Switch
  <2>2. RequestIsSelected' BY <2>1 DEF RequestIsSelected
  <2> QED BY <1>0, <1>2, <2>2, SwitchStep DEF AInv
<1>3. ASSUME NEW r \in Resources, ChartTick(r) PROVE AInv' /\ Forward
  BY <1>0, <1>3, TickStep, OtherRequests DEF AInv, ChartTick
<1>4. ASSUME NEW r \in Resources, ChartServe(r) PROVE AInv' /\ Forward
  BY <1>0, <1>4, ServeStep, OtherRequests DEF AInv, ChartServe
<1>5. ASSUME NEW r \in Resources, ChartLand(r) PROVE AInv' /\ Forward
  BY <1>0, <1>5, LandStep, OtherRequests DEF AInv, ChartLand
<1>6. ASSUME NEW r \in Refreshable, Refresh(r) PROVE AInv' /\ Forward
  <2>1. r \in Resources BY AnalyticsAssumption
  <2> QED BY <1>0, <1>6, <2>1, RefreshStep, OtherRequests DEF AInv, Refresh
<1>7. ASSUME NEW u \in Users, HandleSelectUser(u) PROVE AInv' /\ Forward
  BY <1>0, <1>7, OtherPolls, SelectStep DEF AInv, HandleSelectUser, pollingVars
<1>8. CASE SelectAnswer
  BY <1>0, <1>8, OtherPolls, AnswerStep DEF AInv, SelectAnswer, pollingVars
<1>9. CASE ChartWeather
  BY <1>0, <1>9, OtherPolls, OtherRequests DEF AInv, ChartWeather, Weather
<1>10. CASE UNCHANGED vars
  BY <1>0, <1>10, OtherPolls, OtherRequests DEF AInv, vars, pollingVars
<1> QED BY <1>1, <1>2, <1>3, <1>4, <1>5, <1>6, <1>7, <1>8, <1>9, <1>10 DEF Next

LEMMA InitAInv == Init => AInv
<1> SUFFICES ASSUME Init PROVE AInv OBVIOUS
<1>1. <<>> \in Seq(EventRows) /\ <<>> \in Seq(Users) /\ Len(<<>>) = 0 OBVIOUS
<1>2. \A r \in Resources : res[r] = Fresh /\ asked[r] = 0 /\ overlapped[r] = FALSE
  BY DEF Init, PollingInit
<1>3. TypeInv BY <1>1, FreshResource DEF Init, PollingInit, TypeInv
<1>4. Version = 0 BY <1>1 DEF Init, Version
<1>5. Sound(Fresh, 0, FALSE, 0) BY FreshResource DEF Sound
<1>6. PollsAreSound BY <1>2, <1>4, <1>5 DEF PollsAreSound
<1>7. RequestIsSelected BY <1>1 DEF Init, RequestIsSelected
<1> QED BY <1>3, <1>6, <1>7 DEF AInv

\* usePolledResource.ts 27-63, UserActivity.tsx 41-57: what polls and requests
\* bring, however they are answered, fits what was asked.
THEOREM Invariance == Spec => []AInv
BY InitAInv, AInvStep, PTL DEF Spec

\* UserActivity.tsx 41-57: one request at a time never lists the rows of one
\* user under the name of another, and no request leaves "Loading..." behind.
THEOREM ListedIsRight == Spec => []ListedIsSelected
<1>1. AInv => ListedIsSelected
  BY DEF AInv, RequestIsSelected, ListedIsSelected, Listing
<1> QED BY <1>1, Invariance, PTL

\* usePolledResource.ts 27-63: a card never goes back behind the last refresh,
\* and goes back at all only when its polls have overlapped.
THEOREM CardsGoForward == Spec => ForwardUnlessOverlapped
<1>1. AInv /\ [Next]_vars => [Forward]_vars BY AInvStep
<1>2. ForwardUnlessOverlapped <=> [][Forward]_vars BY DEF ForwardUnlessOverlapped, Forward
<1> HIDE DEF Forward
<1> QED BY <1>1, <1>2, Invariance, PTL DEF Spec

-----------------------------------------------------------------------------
\* Induction, for sets of numbers.
LEMMA LeastNumber ==
  ASSUME NEW S \in SUBSET Nat, S # {}
  PROVE  \E n \in S : \A m \in S : n <= m
<1>1. PICK R : IsWellFoundedOn(R, Nat) /\ R = {ss \in Nat \X Nat : ss[1] < ss[2]}
  BY NatLessThanWellFounded DEF OpToRel
<1>2. PICK x \in S : \A y \in S : ~(<<y, x>> \in R) BY <1>1, WFMin
<1>3. x \in Nat OBVIOUS
<1>4. ASSUME NEW y \in S PROVE x <= y
  <2>1. y \in Nat /\ <<y, x>> \in Nat \X Nat OBVIOUS
  <2>2. ~(<<y, x>>[1] < <<y, x>>[2]) BY <1>1, <1>2, <2>1
  <2> QED BY <1>3, <2>1, <2>2
<1> QED BY <1>4

LEMMA CountUp ==
  ASSUME NEW a \in Nat, NEW b \in Nat, NEW S, a \in S,
         \A i \in a .. b - 1 : i \in S => i + 1 \in S
  PROVE  \A i \in a .. b : i \in S
<1> DEFINE Bad == {i \in a .. b : i \notin S}
<1>1. SUFFICES ASSUME Bad # {} PROVE FALSE OBVIOUS
<1>2. Bad \in SUBSET Nat OBVIOUS
<1>3. PICK n \in Bad : \A m \in Bad : n <= m
  <2> HIDE DEF Bad
  <2> QED BY <1>1, <1>2, LeastNumber
<1>4. n \in a .. b /\ n # a /\ n \notin S OBVIOUS
<1>5. n - 1 \in a .. b - 1 /\ n - 1 \notin Bad BY <1>3, <1>4
<1>6. n - 1 \in S BY <1>4, <1>5
<1>7. (n - 1) + 1 = n BY <1>4
<1> QED BY <1>4, <1>5, <1>6, <1>7

LEMMA MinFacts ==
  ASSUME NEW T \in SUBSET Nat, T # {}
  PROVE  Min(T) \in T /\ \A t \in T : Min(T) <= t
BY LeastNumber DEF Min

-----------------------------------------------------------------------------
\* internal/analytics/funnel.go 68-154: the funnel of any table.

\* The rows of a table, as far as the queries read them.
IsTable(l) == \A k \in DOMAIN l : l[k].user \in Users \cup {Anonymous} /\ l[k].at \in Nat \ {0}

\* When u did what step i asks for.
TimesOf(l, u, i) == {l[k].at : k \in {k \in Rows(l) : l[k].user = u /\ l[k].name = Steps[i]}}

First(T) == IF T = {} THEN 0 ELSE Min(T)

\* One step of the recursion of StepTimes, and the function it defines on D.
StepTime(l, u, i, ts) == IF ts = 0 THEN 0 ELSE First({t \in TimesOf(l, u, i) : Follows(t, ts)})

Taken(l, D, f) ==
  f = [i \in D |-> [u \in Users |-> IF i = 1 THEN First(TimesOf(l, u, 1))
                                    ELSE StepTime(l, u, i, f[i - 1][u])]]

LEMMA FirstFacts ==
  ASSUME NEW T \in SUBSET (Nat \ {0})
  PROVE  /\ First(T) \in Nat /\ (First(T) # 0 <=> T # {})
         /\ T # {} => First(T) \in T /\ \A t \in T : First(T) <= t
<1>1. T \in SUBSET Nat OBVIOUS
<1> QED BY <1>1, MinFacts DEF First

\* The recursion of StepTimes defines a function.
LEMMA TakenExists ==
  ASSUME NEW l, NEW n \in Nat
  PROVE  \E f : Taken(l, 1 .. n, f)
<1> DEFINE S == {m \in Nat : \E f : Taken(l, 1 .. m, f)}
<1>1. 0 \in S
  <2>1. PICK f : f = [i \in 1 .. 0 |-> 0] OBVIOUS
  <2>2. Taken(l, 1 .. 0, f) BY <2>1 DEF Taken
  <2> QED BY <2>2
<1>2. ASSUME NEW m \in 0 .. n - 1, m \in S PROVE m + 1 \in S
  <2>1. m \in Nat /\ m + 1 \in Nat OBVIOUS
  <2>2. PICK f : Taken(l, 1 .. m, f) BY <1>2
  <2>3. PICK b : b = m + 1 /\ b \in Nat \ {0} BY <2>1
  <2> DEFINE At(i, g) == [u \in Users |-> IF i = 1 THEN First(TimesOf(l, u, 1))
                                          ELSE StepTime(l, u, i, g[i - 1][u])]
  <2>4. PICK g : g = [i \in 1 .. b |-> IF i = b THEN At(b, f) ELSE f[i]] OBVIOUS
  <2>5. ASSUME NEW i \in 1 .. b PROVE g[i] = At(i, g)
    <3>1. CASE i = 1
      <4>1. At(i, g) = At(i, f) BY <3>1
      <4>2. m # 0 => f[1] = At(1, f) BY <2>1, <2>2 DEF Taken
      <4> QED BY <2>1, <2>3, <2>4, <3>1, <4>1, <4>2
    <3>2. CASE i # 1
      <4>1. i - 1 \in 1 .. b /\ i - 1 # b BY <2>3, <3>2
      <4>2. g[i - 1] = f[i - 1] BY <2>4, <4>1
      <4>3. At(i, g) = At(i, f) BY <4>2
      <4>4. i # b => i \in 1 .. m BY <2>1, <2>3
      <4>5. i # b => f[i] = At(i, f) BY <2>2, <4>4 DEF Taken
      <4> QED BY <2>4, <4>3, <4>5
    <3> QED BY <3>1, <3>2
  <2>6. Taken(l, 1 .. b, g) BY <2>4, <2>5 DEF Taken
  <2> QED BY <2>1, <2>3, <2>6
<1>3. n \in S
  <2> HIDE DEF S
  <2> QED BY <1>1, <1>2, CountUp
<1> QED BY <1>3

LEMMA StepTimesFacts ==
  ASSUME NEW l
  PROVE  \A u \in Users :
           /\ StepTimes(l)[1][u] = First(TimesOf(l, u, 1))
           /\ \A i \in 2 .. Len(Steps) :
                StepTimes(l)[i][u] = StepTime(l, u, i, StepTimes(l)[i - 1][u])
<1>1. PICK L \in Nat : L = Len(Steps) /\ L >= 2 /\ DOMAIN Steps = 1 .. L BY ChartsAssumption
<1>2. \E f : Taken(l, DOMAIN Steps, f) BY <1>1, TakenExists
<1>3. PICK f : f = CHOOSE g : Taken(l, DOMAIN Steps, g) OBVIOUS
<1>4. Taken(l, DOMAIN Steps, f) BY <1>2, <1>3
<1>5. StepTimes(l) = f BY <1>3 DEF StepTimes, Taken, TimesOf, First, StepTime
<1>6. ASSUME NEW i \in 1 .. L
      PROVE  f[i] = [u \in Users |-> IF i = 1 THEN First(TimesOf(l, u, 1))
                                     ELSE StepTime(l, u, i, f[i - 1][u])]
  BY <1>1, <1>4 DEF Taken
<1>7. ASSUME NEW u \in Users PROVE f[1][u] = First(TimesOf(l, u, 1))
  <2>1. 1 \in 1 .. L BY <1>1
  <2>2. PICK i : i = 1 /\ i \in 1 .. L BY <2>1
  <2>3. f[i][u] = First(TimesOf(l, u, 1)) BY <1>6, <2>2
  <2> QED BY <2>2, <2>3
<1>8. ASSUME NEW u \in Users, NEW i \in 2 .. L PROVE f[i][u] = StepTime(l, u, i, f[i - 1][u])
  <2>1. i \in 1 .. L /\ i # 1 BY <1>1
  <2> QED BY <1>6, <2>1
<1> QED BY <1>1, <1>5, <1>7, <1>8

\* What the times of a user's steps are.
LEMMA StepTimeFacts ==
  ASSUME NEW l, IsTable(l), NEW u \in Users
  PROVE  /\ \A i \in 1 .. Len(Steps) :
              /\ StepTimes(l)[i][u] \in Nat
              /\ StepTimes(l)[i][u] # 0 => StepTimes(l)[i][u] \in TimesOf(l, u, i)
         /\ \A t \in TimesOf(l, u, 1) : StepTimes(l)[1][u] # 0 /\ StepTimes(l)[1][u] <= t
         /\ \A i \in 1 .. Len(Steps) - 1 :
              /\ StepTimes(l)[i + 1][u] # 0 =>
                   StepTimes(l)[i][u] # 0 /\ Follows(StepTimes(l)[i + 1][u], StepTimes(l)[i][u])
              /\ StepTimes(l)[i][u] # 0 =>
                   \A t \in TimesOf(l, u, i + 1) : Follows(t, StepTimes(l)[i][u]) =>
                     StepTimes(l)[i + 1][u] # 0 /\ StepTimes(l)[i + 1][u] <= t
<1>1. PICK L \in Nat : L = Len(Steps) /\ L >= 2 BY ChartsAssumption
<1>2. \A i : TimesOf(l, u, i) \in SUBSET (Nat \ {0}) BY DEF IsTable, TimesOf, Rows
<1>3. PICK ts : ts = StepTimes(l) OBVIOUS
<1>4. /\ ts[1][u] = First(TimesOf(l, u, 1))
      /\ \A i \in 2 .. L : ts[i][u] = StepTime(l, u, i, ts[i - 1][u])
  BY <1>1, <1>3, StepTimesFacts
<1>5. /\ ts[1][u] \in Nat /\ (ts[1][u] # 0 => ts[1][u] \in TimesOf(l, u, 1))
      /\ \A t \in TimesOf(l, u, 1) : ts[1][u] # 0 /\ ts[1][u] <= t
  BY <1>2, <1>4, FirstFacts
<1>6. ASSUME NEW i \in 1 .. L - 1
      PROVE  /\ ts[i + 1][u] \in Nat /\ (ts[i + 1][u] # 0 => ts[i + 1][u] \in TimesOf(l, u, i + 1))
             /\ ts[i + 1][u] # 0 => ts[i][u] # 0 /\ Follows(ts[i + 1][u], ts[i][u])
             /\ ts[i][u] # 0 =>
                  \A t \in TimesOf(l, u, i + 1) : Follows(t, ts[i][u]) =>
                    ts[i + 1][u] # 0 /\ ts[i + 1][u] <= t
  <2>1. i + 1 \in 2 .. L /\ (i + 1) - 1 = i BY <1>1
  <2>2. PICK a : a = ts[i][u] OBVIOUS
  <2>3. PICK b : b = ts[i + 1][u] OBVIOUS
  <2>4. b = StepTime(l, u, i + 1, a) BY <1>4, <2>1, <2>2, <2>3
  <2>5. PICK T : T = {t \in TimesOf(l, u, i + 1) : Follows(t, a)} OBVIOUS
  <2>6. T \in SUBSET (Nat \ {0}) BY <1>2, <2>5
  <2>7. b = IF a = 0 THEN 0 ELSE First(T) BY <2>4, <2>5 DEF StepTime
  <2>8. /\ First(T) \in Nat /\ (First(T) # 0 <=> T # {})
        /\ T # {} => First(T) \in T /\ \A t \in T : First(T) <= t
    BY <2>6, FirstFacts
  <2>9. b \in Nat /\ (b # 0 => a # 0 /\ b \in TimesOf(l, u, i + 1) /\ Follows(b, a))
    BY <2>5, <2>7, <2>8
  <2>10. a # 0 => \A t \in TimesOf(l, u, i + 1) : Follows(t, a) => b # 0 /\ b <= t
    BY <2>5, <2>7, <2>8
  <2> QED BY <2>2, <2>3, <2>9, <2>10
<1>7. ASSUME NEW i \in 1 .. L
      PROVE  ts[i][u] \in Nat /\ (ts[i][u] # 0 => ts[i][u] \in TimesOf(l, u, i))
  <2>1. CASE i = 1 BY <1>5, <2>1
  <2>2. CASE i # 1
    <3>1. i - 1 \in 1 .. L - 1 /\ (i - 1) + 1 = i BY <1>1, <2>2
    <3> QED BY <1>6, <3>1
  <2> QED BY <2>1, <2>2
<1> QED BY <1>1, <1>3, <1>5, <1>6, <1>7

\* Whoever has a time for a step has taken the ones before it in order.
LEMMA TimedIsChained ==
  ASSUME NEW l, IsTable(l), NEW u \in Users, NEW n \in 1 .. Len(Steps), StepTimes(l)[n][u] # 0
  PROVE  Chain(l, u, n)
<1>1. PICK L \in Nat : L = Len(Steps) /\ L >= 2 BY ChartsAssumption
<1>2. PICK ts : ts = StepTimes(l) OBVIOUS
<1>3. n \in 1 .. L /\ ts[n][u] # 0 BY <1>1, <1>2
<1> DEFINE Way(path, m) ==
             /\ path \in [1 .. m -> DOMAIN l]
             /\ \A i \in 1 .. m : l[path[i]].user = u /\ l[path[i]].name = Steps[i]
             /\ \A i \in 1 .. m - 1 : /\ l[path[i]].at < l[path[i + 1]].at
                                      /\ l[path[i + 1]].at - l[path[i]].at <= Window
           S == {m \in Nat : ts[m][u] # 0 => \E path : Way(path, m) /\ l[path[m]].at = ts[m][u]}
<1>4. 1 \in S
  <2>1. ASSUME ts[1][u] # 0 PROVE \E path : Way(path, 1) /\ l[path[1]].at = ts[1][u]
    <3>1. ts[1][u] \in TimesOf(l, u, 1) BY <1>1, <1>2, <2>1, StepTimeFacts
    <3>2. PICK k \in DOMAIN l : l[k].at = ts[1][u] /\ l[k].user = u /\ l[k].name = Steps[1]
      BY <3>1 DEF TimesOf, Rows
    <3>3. PICK p : p = [i \in 1 .. 1 |-> k] OBVIOUS
    <3>4. p[1] = k /\ Way(p, 1) BY <3>2, <3>3
    <3> QED BY <3>2, <3>4
  <2> QED BY <2>1
<1>5. ASSUME NEW m \in 1 .. n - 1, m \in S PROVE m + 1 \in S
  <2>1. /\ m \in Nat /\ m + 1 \in Nat /\ m + 1 # 1 /\ m \in 1 .. L - 1 /\ m \in 1 .. L
        /\ m + 1 \in 1 .. L
    BY <1>1, <1>3
  <2>2. ASSUME ts[m + 1][u] # 0
        PROVE  \E path : Way(path, m + 1) /\ l[path[m + 1]].at = ts[m + 1][u]
    <3>1. PICK b : b = m + 1 OBVIOUS
    <3>2. /\ ts[m][u] \in Nat /\ ts[b][u] \in Nat /\ ts[b][u] \in TimesOf(l, u, b)
          /\ ts[m][u] # 0 /\ Follows(ts[b][u], ts[m][u])
      BY <1>1, <1>2, <2>1, <2>2, <3>1, StepTimeFacts
    <3>3. PICK k \in DOMAIN l : l[k].at = ts[b][u] /\ l[k].user = u /\ l[k].name = Steps[b]
      BY <3>2 DEF TimesOf, Rows
    <3>4. PICK p : Way(p, m) /\ l[p[m]].at = ts[m][u] BY <1>5, <3>2
    <3>5. PICK q : q = [i \in 1 .. b |-> IF i = b THEN k ELSE p[i]] OBVIOUS
    <3>6. /\ q \in [1 .. b -> DOMAIN l] /\ q[b] = k
          /\ \A i \in 1 .. m : q[i] = p[i] /\ i \in 1 .. b
      BY <2>1, <3>1, <3>3, <3>4, <3>5
    <3>7. \A i \in 1 .. b : l[q[i]].user = u /\ l[q[i]].name = Steps[i]
      <4>1. \A i \in 1 .. b : i = b \/ i \in 1 .. m BY <2>1, <3>1
      <4> QED BY <3>3, <3>4, <3>6, <4>1
    <3>8. ASSUME NEW i \in 1 .. b - 1
          PROVE  l[q[i]].at < l[q[i + 1]].at /\ l[q[i + 1]].at - l[q[i]].at <= Window
      <4>1. CASE i = m
        <5>1. q[i] = p[m] /\ q[i + 1] = k BY <2>1, <3>1, <3>6, <4>1
        <5>2. ts[m][u] < ts[b][u] /\ ts[b][u] - ts[m][u] <= Window
          <6>1. Window \in Nat BY ChartsAssumption
          <6>2. PICK x \in Nat : x = ts[m][u] BY <3>2
          <6>3. PICK y \in Nat : y = ts[b][u] BY <3>2
          <6>4. y > x /\ y <= x + Window BY <3>2, <6>2, <6>3 DEF Follows
          <6>5. x < y /\ y - x <= Window BY <6>1, <6>4
          <6> QED BY <6>2, <6>3, <6>5
        <5> QED BY <3>3, <3>4, <5>1, <5>2
      <4>2. CASE i # m
        <5>1. i \in 1 .. m - 1 /\ i \in 1 .. m /\ i + 1 \in 1 .. m BY <2>1, <3>1, <4>2
        <5> QED BY <3>4, <3>6, <5>1
      <4> QED BY <4>1, <4>2
    <3>9. Way(q, b) BY <3>6, <3>7, <3>8
    <3> QED BY <3>1, <3>3, <3>6, <3>9
  <2> QED BY <2>1, <2>2
<1>6. n \in S
  <2>1. n \in Nat /\ 1 \in Nat /\ n \in 1 .. n BY <1>3
  <2> HIDE DEF S
  <2> QED BY <1>4, <1>5, <2>1, CountUp
<1>7. PICK path : Way(path, n) BY <1>3, <1>6
<1> QED BY <1>7 DEF Chain

\* Whoever did everything within one window has a time for each step taken:
\* the first rows that count are not later than those of any path.
LEMMA ChainedIsTimed ==
  ASSUME NEW l, IsTable(l), NEW u \in Users, NEW n \in 1 .. Len(Steps), Chain(l, u, n),
         \A i, j \in DOMAIN l : l[i].user = u /\ l[j].user = u => l[i].at - l[j].at <= Window
  PROVE  StepTimes(l)[n][u] # 0
<1>1. PICK L \in Nat : L = Len(Steps) /\ L >= 2 BY ChartsAssumption
<1>2. PICK ts : ts = StepTimes(l) OBVIOUS
<1>3. n \in 1 .. L /\ Window \in Nat BY <1>1, ChartsAssumption
<1>4. PICK p \in [1 .. n -> DOMAIN l] :
        /\ \A i \in 1 .. n : l[p[i]].user = u /\ l[p[i]].name = Steps[i]
        /\ \A i \in 1 .. n - 1 : l[p[i]].at < l[p[i + 1]].at
  BY DEF Chain
<1>5. \A i \in 1 .. n : l[p[i]].at \in Nat /\ l[p[i]].at \in TimesOf(l, u, i)
  BY <1>4 DEF IsTable, TimesOf, Rows
<1> DEFINE S == {m \in Nat : ts[m][u] # 0 /\ ts[m][u] <= l[p[m]].at}
<1>6. 1 \in S
  <2>1. 1 \in 1 .. n BY <1>3
  <2> QED BY <1>2, <1>5, <2>1, StepTimeFacts
<1>7. ASSUME NEW m \in 1 .. n - 1, m \in S PROVE m + 1 \in S
  <2>1. /\ m \in Nat /\ m + 1 \in Nat /\ m \in 1 .. L - 1 /\ m \in 1 .. L
        /\ m \in 1 .. n /\ m + 1 \in 1 .. n
    BY <1>1, <1>3
  <2>2. ts[m][u] \in Nat /\ ts[m][u] # 0 /\ ts[m][u] \in TimesOf(l, u, m)
    BY <1>1, <1>2, <1>7, <2>1, StepTimeFacts
  <2>3. PICK k \in DOMAIN l : l[k].at = ts[m][u] /\ l[k].user = u BY <2>2 DEF TimesOf, Rows
  <2>4. PICK x \in Nat : x = ts[m][u] BY <2>2
  <2>5. PICK y \in Nat : y = l[p[m]].at BY <1>5, <2>1
  <2>6. PICK z \in Nat : z = l[p[m + 1]].at /\ z \in TimesOf(l, u, m + 1) BY <1>5, <2>1
  <2>7. x <= y /\ y < z BY <1>4, <1>7, <2>4, <2>5, <2>6
  <2>8. p[m + 1] \in DOMAIN l /\ l[p[m + 1]].user = u BY <1>4, <2>1
  <2>9. z - x <= Window BY <2>3, <2>4, <2>6, <2>8
  <2>10. z > x /\ z <= x + Window BY <1>3, <2>7, <2>9
  <2>11. Follows(z, x) BY <2>10 DEF Follows
  <2>12. ts[m + 1][u] # 0 /\ ts[m + 1][u] <= z
    BY <1>1, <1>2, <2>1, <2>2, <2>4, <2>6, <2>11, StepTimeFacts
  <2> QED BY <2>1, <2>6, <2>12
<1>8. n \in S
  <2>1. n \in Nat /\ 1 \in Nat /\ n \in 1 .. n BY <1>3
  <2> HIDE DEF S
  <2> QED BY <1>6, <1>7, <2>1, CountUp
<1> QED BY <1>2, <1>8

\* A share is at most the whole.
LEMMA PercentBound ==
  ASSUME NEW a \in Nat, NEW m \in Nat \ {0}, a <= m
  PROVE  (a * 100) \div m <= 100
<1>1. PICK q \in Int : q = (a * 100) \div m OBVIOUS
<1>2. m * q <= a * 100 BY <1>1
<1>3. a * 100 <= m * 100 OBVIOUS
<1>4. m * q <= m * 100 BY <1>2, <1>3
<1>5. ASSUME q > 100 PROVE FALSE
  <2>1. q >= 101 BY <1>5
  <2>2. m * q >= m * 101 BY <2>1
  <2> QED BY <1>4, <2>2
<1> QED BY <1>1, <1>5

\* Nobody reaches a step without the one before: the funnel never widens.
LEMMA FunnelNarrows ==
  ASSUME NEW l, IsTable(l), NEW i \in DOMAIN Steps
  PROVE  Funnel(l)[i].dropped >= 0 /\ WidthPct(Funnel(l), i) <= 100
<1>1. PICK L \in Nat : L = Len(Steps) /\ L >= 2 /\ DOMAIN Steps = 1 .. L BY ChartsAssumption
<1>2. PICK ts : ts = StepTimes(l) OBVIOUS
<1> DEFINE At(k) == {u \in Users : ts[k][u] # 0}
<1>3. \A k : At(k) \in SUBSET Users OBVIOUS
<1>4. \A k \in 1 .. L - 1 : At(k + 1) \subseteq At(k) BY <1>1, <1>2, StepTimeFacts
<1>5. PICK e : e = [k \in DOMAIN Steps |-> Cardinality(At(k))] OBVIOUS
<1>6. PICK f : f = Funnel(l) OBVIOUS
<1>7. \A k \in 1 .. L : /\ f[k].entered = e[k]
                         /\ f[k].dropped = IF k < L THEN e[k] - e[k + 1] ELSE 0
  <2>1. f = [k \in DOMAIN Steps |->
               [entered |-> e[k], dropped |-> IF k < Len(Steps) THEN e[k] - e[k + 1] ELSE 0]]
    BY <1>2, <1>5, <1>6 DEF Funnel
  <2> QED BY <1>1, <2>1
<1>8. \A k \in 1 .. L : e[k] = Cardinality(At(k)) BY <1>1, <1>5
<1> HIDE DEF At
<1>9. IsFiniteSet(Users) BY ChartsAssumption
<1>10. \A k : IsFiniteSet(At(k)) /\ Cardinality(At(k)) \in Nat
  BY <1>3, <1>9, FS_Subset, FS_CardinalityType
<1>11. \A k \in 1 .. L - 1 : Cardinality(At(k + 1)) <= Cardinality(At(k))
  BY <1>4, <1>10, FS_Subset
<1>12. \A k \in 1 .. L - 1 : e[k + 1] <= e[k] BY <1>1, <1>8, <1>11
<1>13. \A k \in 1 .. L : e[k] \in Nat BY <1>8, <1>10
<1>14. i \in 1 .. L BY <1>1
<1>15. f[i].dropped >= 0
  <2>1. CASE i < L
    <3>1. i \in 1 .. L - 1 /\ i + 1 \in 1 .. L BY <1>1, <1>14, <2>1
    <3>2. PICK x \in Nat : x = e[i] BY <1>13, <1>14
    <3>3. PICK y \in Nat : y = e[i + 1] BY <1>13, <3>1
    <3>4. f[i].dropped = x - y /\ y <= x BY <1>7, <1>12, <1>14, <2>1, <3>1, <3>2, <3>3
    <3> QED BY <3>4
  <2>2. CASE ~(i < L) BY <1>7, <1>14, <2>2
  <2> QED BY <2>1, <2>2
<1>16. e[i] <= e[1]
  <2> DEFINE S == {k \in Nat : e[k] <= e[1]}
  <2>1. 1 \in S BY <1>1, <1>13
  <2>2. ASSUME NEW k \in 1 .. L - 1, k \in S PROVE k + 1 \in S
    <3>1. k \in 1 .. L /\ k + 1 \in 1 .. L /\ 1 \in 1 .. L /\ k + 1 \in Nat BY <1>1
    <3>2. e[k + 1] <= e[k] /\ e[k] <= e[1] BY <1>12, <2>2
    <3>3. e[k + 1] \in Nat /\ e[k] \in Nat /\ e[1] \in Nat BY <1>13, <3>1
    <3> QED BY <3>1, <3>2, <3>3
  <2>3. i \in S
    <3>1. 1 \in Nat OBVIOUS
    <3> HIDE DEF S
    <3> QED BY <1>1, <1>14, <2>1, <2>2, <3>1, CountUp
  <2> QED BY <2>3
<1>17. WidthPct(f, i) <= 100
  <2>1. 1 \in 1 .. L BY <1>1
  <2>2. PICK a \in Nat : a = e[i] BY <1>13, <1>14
  <2>3. PICK m \in Nat : m = e[1] BY <1>13, <2>1
  <2>4. f[i].entered = a /\ f[1].entered = m BY <1>7, <1>14, <2>1, <2>2, <2>3
  <2>5. WidthPct(f, i) = IF m > 0 THEN (a * 100) \div m ELSE 0 BY <2>4 DEF WidthPct
  <2>6. m > 0 => (a * 100) \div m <= 100 BY <1>16, <2>2, <2>3, PercentBound
  <2> QED BY <2>5, <2>6
<1> QED BY <1>6, <1>15, <1>17

LEMMA FunnelOfTable == ASSUME NEW l, IsTable(l) PROVE FunnelOf(l)
<1>1. DOMAIN Steps = 1 .. Len(Steps) BY ChartsAssumption
<1>2. ASSUME NEW u \in Users, NEW i \in DOMAIN Steps
      PROVE  /\ StepTimes(l)[i][u] # 0 => Chain(l, u, i)
             /\ /\ Chain(l, u, i)
                /\ \A j, k \in DOMAIN l :
                     l[j].user = u /\ l[k].user = u => l[j].at - l[k].at <= Window
                => StepTimes(l)[i][u] # 0
  BY <1>1, TimedIsChained, ChainedIsTimed
<1> QED BY <1>2, FunnelNarrows DEF FunnelOf

LEMMA TablesAreTables ==
  /\ \A l \in Tables : IsTable(l)
  /\ AInv => IsTable(table)
<1>1. ASSUME NEW l \in Tables PROVE IsTable(l)
  <2>1. PICK n \in 0 .. SampleSize : l \in [1 .. n -> SampleRows] BY DEF Tables
  <2>2. \A k \in DOMAIN l : l[k] \in SampleRows BY <2>1
  <2> QED BY <2>2, ChartsAssumption DEF IsTable
<1>2. ASSUME AInv PROVE IsTable(table)
  <2>1. PICK l \in Seq(EventRows) : l = table BY <1>2 DEF AInv, TypeInv
  <2>2. \A k \in DOMAIN l : l[k] \in EventRows OBVIOUS
  <2>3. IsTable(l) BY <2>2, AnalyticsAssumption DEF IsTable
  <2> QED BY <2>1, <2>3
<1> QED BY <1>1, <1>2

\* internal/analytics/funnel.go 68-154: for every table, whoever is counted at
\* a step has taken those before it in order and in time, whoever has within
\* one window is counted, and no step has more users than the one before.
THEOREM FunnelsAreSound == Spec => []FunnelIsSound
<1>1. SampleFunnels BY TablesAreTables, FunnelOfTable DEF SampleFunnels
<1>2. ASSUME AInv PROVE FunnelIsSound
  <2>1. PICK l : l = table OBVIOUS
  <2>2. IsTable(l) BY <1>2, <2>1, TablesAreTables
  <2>3. FunnelOf(l) BY <2>2, FunnelOfTable
  <2> QED BY <1>1, <2>1, <2>3 DEF FunnelIsSound
<1> QED BY <1>2, Invariance, PTL

-----------------------------------------------------------------------------
\* internal/analytics/retention.go 43-137: the cohorts of any table.

\* The recursion of MapThenSumSet over the sizes of the cohorts.
Sums(l, it) ==
  it = [s \in SUBSET (DOMAIN Retention(l)) |->
          IF s = {} THEN 0
          ELSE Retention(l)[CHOOSE x \in s : TRUE].size + it[s \ {CHOOSE x \in s : TRUE}]]

LEMMA SumOfSizes ==
  ASSUME NEW l
  PROVE  MapThenSumSet(LAMBDA c : Retention(l)[c].size, DOMAIN Retention(l))
           = (CHOOSE it : Sums(l, it))[DOMAIN Retention(l)]
BY DEF MapThenSumSet, MapThenFoldSet, Sums

\* Who was first seen on day c, and on which days after that they came back.
CohortOf(l, c) == {u \in DOMAIN FirstSeen(l) : FirstSeen(l)[u] = c}

OffsetsOf(l, c) == {d - c : d \in {d \in UNION {ActiveDays(l, u) : u \in CohortOf(l, c)} :
                                     d >= c /\ d <= Today}}

LEMMA DayFacts ==
  /\ Today \in Nat /\ StartDate \in Int /\ StartDate <= Today
  /\ \A l, u : IsTable(l) => ActiveDays(l, u) \subseteq Nat
<1>1. DayLength \in Nat \ {0} /\ Now \in Nat /\ Cohorts \in Nat \ {0} BY ChartsAssumption
<1>2. \A at \in Nat : Day(at) \in Nat BY <1>1 DEF Day
<1>3. Today \in Nat BY <1>1, <1>2 DEF Today
<1>4. StartDate \in Int /\ StartDate <= Today BY <1>1, <1>3 DEF StartDate
<1>5. ASSUME NEW l, NEW u, IsTable(l) PROVE ActiveDays(l, u) \subseteq Nat
  BY <1>2, <1>5 DEF IsTable, ActiveDays, Rows
<1> QED BY <1>3, <1>4, <1>5

\* first_seen.
LEMMA SeenFacts ==
  ASSUME NEW l, IsTable(l)
  PROVE  /\ \A u : u \in DOMAIN FirstSeen(l) <=>
                     u \in Users /\ \E d \in ActiveDays(l, u) : d >= StartDate
         /\ \A u \in DOMAIN FirstSeen(l) :
              /\ FirstSeen(l)[u] \in Nat /\ FirstSeen(l)[u] \in ActiveDays(l, u)
              /\ FirstSeen(l)[u] >= StartDate
              /\ \A d \in ActiveDays(l, u) : d >= StartDate => FirstSeen(l)[u] <= d
<1>1. PICK since : since = [u \in Users |-> {d \in ActiveDays(l, u) : d >= StartDate}] OBVIOUS
<1>2. PICK seen : seen = FirstSeen(l) OBVIOUS
<1>3. /\ DOMAIN seen = {u \in Users : since[u] # {}}
      /\ \A u \in DOMAIN seen : seen[u] = Min(since[u])
  BY <1>1, <1>2 DEF FirstSeen
<1>4. \A u \in Users : since[u] = {d \in ActiveDays(l, u) : d >= StartDate} BY <1>1
<1>5. ASSUME NEW u \in DOMAIN seen
      PROVE  /\ seen[u] \in Nat /\ seen[u] \in ActiveDays(l, u) /\ seen[u] >= StartDate
             /\ \A d \in ActiveDays(l, u) : d >= StartDate => seen[u] <= d
  <2>1. PICK T : T = since[u] OBVIOUS
  <2>2. T # {} /\ T = {d \in ActiveDays(l, u) : d >= StartDate} /\ seen[u] = Min(T)
    BY <1>3, <1>4, <2>1
  <2>3. T \in SUBSET Nat BY <2>2, DayFacts
  <2>4. Min(T) \in T /\ \A t \in T : Min(T) <= t BY <2>2, <2>3, MinFacts
  <2> QED BY <2>2, <2>3, <2>4
<1>6. \A u : u \in DOMAIN seen <=> u \in Users /\ \E d \in ActiveDays(l, u) : d >= StartDate
  BY <1>3, <1>4
<1> QED BY <1>2, <1>5, <1>6

\* A cohort is in the answer unless it lies in the future.
LEMMA CohortFacts ==
  ASSUME NEW l, IsTable(l)
  PROVE  /\ \A c : c \in DOMAIN Retention(l) <=> CohortOf(l, c) # {} /\ c \in Nat /\ c <= Today
         /\ \A c \in DOMAIN Retention(l) :
              /\ Retention(l)[c].size = Cardinality(CohortOf(l, c))
              /\ DOMAIN Retention(l)[c].buckets = OffsetsOf(l, c)
              /\ \A o \in OffsetsOf(l, c) : Retention(l)[c].buckets[o]
                   = Cardinality({u \in CohortOf(l, c) : c + o \in ActiveDays(l, u)})
<1>1. PICK seen : seen = FirstSeen(l) OBVIOUS
<1>2. PICK rt : rt = Retention(l) OBVIOUS
<1>3. rt = [c \in {c \in Range(seen) : OffsetsOf(l, c) # {}} |->
              [size |-> Cardinality(CohortOf(l, c)),
               buckets |-> [o \in OffsetsOf(l, c) |->
                 Cardinality({u \in CohortOf(l, c) : c + o \in ActiveDays(l, u)})]]]
  BY <1>1, <1>2 DEF Retention, OffsetsOf, CohortOf
<1>4. \A c : c \in Range(seen) <=> CohortOf(l, c) # {} BY <1>1 DEF CohortOf, Range
<1>5. ASSUME NEW c, CohortOf(l, c) # {}
      PROVE  c \in Nat /\ (OffsetsOf(l, c) # {} <=> c <= Today)
  <2>1. PICK u : u \in CohortOf(l, c) BY <1>5
  <2>2. c \in Nat /\ c \in ActiveDays(l, u) BY <2>1, SeenFacts DEF CohortOf
  <2>3. ASSUME c <= Today PROVE OffsetsOf(l, c) # {}
    <3>1. c - c \in OffsetsOf(l, c) BY <2>1, <2>2, <2>3 DEF OffsetsOf
    <3> QED BY <3>1
  <2>4. ASSUME OffsetsOf(l, c) # {} PROVE c <= Today
    <3>1. PICK d : d \in UNION {ActiveDays(l, v) : v \in CohortOf(l, c)} /\ d >= c /\ d <= Today
      BY <2>4 DEF OffsetsOf
    <3>2. d \in Nat BY <3>1, DayFacts
    <3> QED BY <2>2, <3>1, <3>2, DayFacts
  <2> QED BY <2>2, <2>3, <2>4
<1>6. DOMAIN rt = {c \in Range(seen) : OffsetsOf(l, c) # {}} BY <1>3
<1>7. \A c : c \in DOMAIN rt <=> CohortOf(l, c) # {} /\ c \in Nat /\ c <= Today
  BY <1>4, <1>5, <1>6
<1>8. ASSUME NEW c \in DOMAIN rt
      PROVE  /\ rt[c].size = Cardinality(CohortOf(l, c))
             /\ DOMAIN rt[c].buckets = OffsetsOf(l, c)
             /\ \A o \in OffsetsOf(l, c) : rt[c].buckets[o]
                   = Cardinality({u \in CohortOf(l, c) : c + o \in ActiveDays(l, u)})
  <2>1. rt[c] = [size |-> Cardinality(CohortOf(l, c)),
                 buckets |-> [o \in OffsetsOf(l, c) |->
                   Cardinality({u \in CohortOf(l, c) : c + o \in ActiveDays(l, u)})]]
    BY <1>3, <1>6
  <2> QED BY <2>1
<1> QED BY <1>2, <1>7, <1>8

LEMMA OffsetFacts ==
  ASSUME NEW l, IsTable(l), NEW c \in DOMAIN Retention(l)
  PROVE  /\ 0 \in OffsetsOf(l, c) /\ OffsetsOf(l, c) \subseteq Nat
         /\ \A o \in OffsetsOf(l, c) : c + o <= Today
         /\ IsFiniteSet(CohortOf(l, c))
         /\ \A u \in CohortOf(l, c) : c \in ActiveDays(l, u)
<1>1. c \in Nat /\ c <= Today /\ CohortOf(l, c) # {} BY CohortFacts
<1>2. PICK u : u \in CohortOf(l, c) BY <1>1
<1>3. \A v \in CohortOf(l, c) : v \in Users /\ c \in ActiveDays(l, v) BY SeenFacts DEF CohortOf
<1>4. c - c \in OffsetsOf(l, c) BY <1>1, <1>2, <1>3 DEF OffsetsOf
<1>5. ASSUME NEW o \in OffsetsOf(l, c) PROVE o \in Nat /\ c + o <= Today
  <2>1. PICK d : d \in UNION {ActiveDays(l, v) : v \in CohortOf(l, c)} /\ d >= c /\ d <= Today
                 /\ o = d - c
    BY DEF OffsetsOf
  <2>2. d \in Nat BY <2>1, DayFacts
  <2> QED BY <1>1, <2>1, <2>2
<1>6. IsFiniteSet(CohortOf(l, c)) BY <1>3, FS_Subset, ChartsAssumption
<1> QED BY <1>1, <1>3, <1>4, <1>5, <1>6

LEMMA MaxFacts ==
  ASSUME NEW T \in SUBSET Nat, T # {}, NEW b \in Nat, \A t \in T : t <= b
  PROVE  Max(T) \in T /\ \A t \in T : t <= Max(T)
<1> DEFINE B == {n \in Nat : \A t \in T : t <= n}
<1>1. B \in SUBSET Nat /\ B # {} OBVIOUS
<1>2. PICK n \in B : \A m \in B : n <= m
  <2> HIDE DEF B
  <2> QED BY <1>1, LeastNumber
<1>3. n \in Nat /\ \A t \in T : t <= n OBVIOUS
<1>4. ASSUME n \notin T PROVE FALSE
  <2>1. \A t \in T : t \in Nat /\ t <= n /\ t # n BY <1>3, <1>4
  <2>2. \A t \in T : t <= n - 1 BY <1>3, <2>1
  <2>3. n - 1 \in Nat
    <3>1. PICK t \in T : TRUE OBVIOUS
    <3>2. t \in Nat /\ t <= n /\ t # n BY <2>1
    <3> QED BY <1>3, <3>2
  <2>4. n - 1 \in B BY <2>2, <2>3
  <2> QED BY <1>2, <1>3, <2>4
<1>5. \E x \in T : \A y \in T : x >= y BY <1>3, <1>4
<1> QED BY <1>5 DEF Max

\* The sum over cohorts counts their members.
LEMMA CountSplit ==
  ASSUME NEW seen, IsFiniteSet(DOMAIN seen), NEW s, NEW x \in s
  PROVE  Cardinality({u \in DOMAIN seen : seen[u] \in s})
           = Cardinality({u \in DOMAIN seen : seen[u] = x})
             + Cardinality({u \in DOMAIN seen : seen[u] \in s \ {x}})
<1>1. PICK A : A = {u \in DOMAIN seen : seen[u] = x} OBVIOUS
<1>2. PICK B : B = {u \in DOMAIN seen : seen[u] \in s \ {x}} OBVIOUS
<1>3. PICK C : C = {u \in DOMAIN seen : seen[u] \in s} OBVIOUS
<1>4. A \in SUBSET DOMAIN seen /\ B \in SUBSET DOMAIN seen BY <1>1, <1>2
<1>5. IsFiniteSet(A) /\ IsFiniteSet(B) BY <1>4, FS_Subset
<1>6. A \cap B = {} /\ A \cup B = C BY <1>1, <1>2, <1>3
<1>7. Cardinality(A \cup B) = Cardinality(A) + Cardinality(B) - Cardinality(A \cap B)
  BY <1>5, FS_Union
<1>8. Cardinality(A \cap B) = 0 BY <1>6, FS_EmptySet
<1>9. Cardinality(A) \in Nat /\ Cardinality(B) \in Nat BY <1>5, FS_CardinalityType
<1>10. Cardinality(C) = Cardinality(A) + Cardinality(B)
  <2>1. PICK a \in Nat : a = Cardinality(A) BY <1>9
  <2>2. PICK b \in Nat : b = Cardinality(B) BY <1>9
  <2>3. Cardinality(C) = a + b - 0 BY <1>6, <1>7, <1>8, <2>1, <2>2
  <2>4. a + b - 0 = a + b OBVIOUS
  <2> QED BY <2>1, <2>2, <2>3, <2>4
<1> QED BY <1>1, <1>2, <1>3, <1>10

Adds(it, size, D) ==
  /\ it[{}] = 0
  /\ \A s \in SUBSET D : s # {} => \E x \in s : it[s] = size[x] + it[s \ {x}]

Sizes(size, seen, D) == \A c \in D : size[c] = Cardinality({u \in DOMAIN seen : seen[u] = c})

LEMMA SumIsCount ==
  ASSUME NEW seen, IsFiniteSet(DOMAIN seen), NEW D, IsFiniteSet(D),
         NEW size, Sizes(size, seen, D), NEW it, Adds(it, size, D)
  PROVE  it[D] = Cardinality({u \in DOMAIN seen : seen[u] \in D})
<1> DEFINE Right(s) == it[s] = Cardinality({u \in DOMAIN seen : seen[u] \in s})
           S == {n \in Nat : \A s \in SUBSET D : Cardinality(s) = n => Right(s)}
<1>1. \A s \in SUBSET D : IsFiniteSet(s) /\ Cardinality(s) \in Nat BY FS_Subset, FS_CardinalityType
<1>2. 0 \in S
  <2>1. ASSUME NEW s \in SUBSET D, Cardinality(s) = 0 PROVE Right(s)
    <3>1. s = {} BY <1>1, <2>1, FS_EmptySet
    <3>2. {u \in DOMAIN seen : seen[u] \in {}} = {} OBVIOUS
    <3>3. it[{}] = 0 BY DEF Adds
    <3> QED BY <3>1, <3>2, <3>3, FS_EmptySet
  <2> QED BY <2>1
<1>3. PICK N \in Nat : N = Cardinality(D) BY <1>1
<1>4. ASSUME NEW n \in 0 .. N - 1, n \in S PROVE n + 1 \in S
  <2>1. ASSUME NEW s \in SUBSET D, Cardinality(s) = n + 1 PROVE Right(s)
    <3>0. n + 1 \in Nat /\ n + 1 # 0 /\ (n + 1) - 1 = n OBVIOUS
    <3>1. s # {} BY <2>1, <3>0, FS_EmptySet
    <3>2. PICK x \in s : it[s] = size[x] + it[s \ {x}] BY <3>1 DEF Adds
    <3>3. Cardinality(s \ {x}) = n
      <4>1. Cardinality(s \ {x}) = Cardinality(s) - 1 BY <1>1, FS_RemoveElement
      <4> QED BY <2>1, <3>0, <4>1
    <3>4. s \ {x} \in SUBSET D OBVIOUS
    <3>5. Right(s \ {x}) BY <1>4, <3>3, <3>4
    <3>6. size[x] = Cardinality({u \in DOMAIN seen : seen[u] = x}) BY DEF Sizes
    <3> QED BY <3>2, <3>5, <3>6, CountSplit
  <2> QED BY <2>1
<1>5. N \in S
  <2>1. 0 \in Nat /\ N \in 0 .. N OBVIOUS
  <2> HIDE DEF S
  <2> QED BY <1>2, <1>4, <2>1, CountUp
<1> QED BY <1>3, <1>5

LEMMA CohortsAreComplete ==
  ASSUME NEW l, IsTable(l)
  PROVE  MapThenSumSet(LAMBDA c : Retention(l)[c].size, DOMAIN Retention(l))
           = Cardinality({u \in Users :
                            \E d \in ActiveDays(l, u) : StartDate <= d /\ d <= Today})
<1>1. PICK seen : seen = FirstSeen(l) OBVIOUS
<1>2. PICK rt : rt = Retention(l) OBVIOUS
<1>3. PICK D : D = DOMAIN rt OBVIOUS
<1>4. IsFiniteSet(DOMAIN seen)
  <2>1. DOMAIN seen \in SUBSET Users BY <1>1, SeenFacts
  <2> QED BY <2>1, FS_Subset, ChartsAssumption
<1>5. IsFiniteSet(D)
  <2>1. D \in SUBSET Nat /\ \A c \in D : c <= Today BY <1>2, <1>3, CohortFacts
  <2> QED BY <2>1, DayFacts, FS_BoundedSetOfNaturals
<1>6. PICK size : size = [c \in D |-> rt[c].size] OBVIOUS
<1>7. \A c \in D : size[c] = Cardinality({u \in DOMAIN seen : seen[u] = c})
  <2>1. ASSUME NEW c \in D PROVE size[c] = Cardinality({u \in DOMAIN seen : seen[u] = c})
    <3>1. CohortOf(l, c) = {u \in DOMAIN seen : seen[u] = c} BY <1>1 DEF CohortOf
    <3>2. size[c] = Cardinality(CohortOf(l, c)) BY <1>2, <1>3, <1>6, CohortFacts
    <3> QED BY <3>1, <3>2
  <2> QED BY <2>1
<1> DEFINE Count(s) == Cardinality({u \in DOMAIN seen : seen[u] \in s})
<1>8. \E it : Sums(l, it)
  <2>1. PICK it : it = [s \in SUBSET D |-> Count(s)] OBVIOUS
  <2>2. ASSUME NEW s \in SUBSET D
        PROVE  it[s] = IF s = {} THEN 0
                       ELSE rt[CHOOSE x \in s : TRUE].size + it[s \ {CHOOSE x \in s : TRUE}]
    <3>1. CASE s = {}
      <4>1. {u \in DOMAIN seen : seen[u] \in {}} = {} OBVIOUS
      <4> QED BY <2>1, <3>1, <4>1, FS_EmptySet
    <3>2. CASE s # {}
      <4>1. PICK x \in s : x = CHOOSE y \in s : TRUE BY <3>2
      <4>2. s \ {x} \in SUBSET D OBVIOUS
      <4>3. it[s \ {x}] = Count(s \ {x}) /\ it[s] = Count(s) BY <2>1, <4>2
      <4>4. rt[x].size = Cardinality({u \in DOMAIN seen : seen[u] = x}) BY <1>6, <1>7
      <4>5. it[s] = rt[x].size + it[s \ {x}] BY <1>4, <4>3, <4>4, CountSplit
      <4> QED BY <3>2, <4>1, <4>5
    <3> QED BY <3>1, <3>2
  <2>3. ASSUME NEW s \in SUBSET (DOMAIN Retention(l))
        PROVE  it[s] = IF s = {} THEN 0
                       ELSE Retention(l)[CHOOSE x \in s : TRUE].size
                            + it[s \ {CHOOSE x \in s : TRUE}]
    BY <1>2, <1>3, <2>2
  <2>4. it = [s \in SUBSET (DOMAIN Retention(l)) |-> Count(s)] BY <1>2, <1>3, <2>1
  <2>5. it = [s \in SUBSET (DOMAIN Retention(l)) |-> IF s = {} THEN 0
                ELSE Retention(l)[CHOOSE x \in s : TRUE].size
                     + it[s \ {CHOOSE x \in s : TRUE}]]
    <3> HIDE DEF Count
    <3> QED BY <2>3, <2>4
  <2> QED BY <2>5 DEF Sums
<1>9. PICK it : it = CHOOSE k : Sums(l, k) OBVIOUS
<1>10. Sums(l, it) BY <1>8, <1>9
<1>11. it[{}] = 0 /\ \A s \in SUBSET D : s # {} => \E x \in s : it[s] = size[x] + it[s \ {x}]
  <2>1. \A s \in SUBSET D : it[s] = IF s = {} THEN 0
          ELSE rt[CHOOSE x \in s : TRUE].size + it[s \ {CHOOSE x \in s : TRUE}]
    BY <1>2, <1>3, <1>10 DEF Sums
  <2>2. ASSUME NEW s \in SUBSET D, s # {} PROVE \E x \in s : it[s] = size[x] + it[s \ {x}]
    <3>1. PICK x \in s : x = CHOOSE y \in s : TRUE BY <2>2
    <3>2. it[s] = rt[x].size + it[s \ {x}] BY <2>1, <2>2, <3>1
    <3> QED BY <1>6, <3>2
  <2>3. {} \in SUBSET D OBVIOUS
  <2> QED BY <2>1, <2>2, <2>3
<1>12. it[D] = Cardinality({u \in DOMAIN seen : seen[u] \in D})
  <2>1. Sizes(size, seen, D) BY <1>7 DEF Sizes
  <2>2. Adds(it, size, D) BY <1>11 DEF Adds
  <2> QED BY <1>4, <1>5, <2>1, <2>2, SumIsCount
<1>13. PICK A : A = {u \in Users : \E d \in ActiveDays(l, u) : StartDate <= d /\ d <= Today}
  OBVIOUS
<1>14. ASSUME NEW u PROVE u \in A <=> u \in DOMAIN seen /\ seen[u] \in D
  <2>1. ASSUME u \in A PROVE u \in DOMAIN seen /\ seen[u] \in D
    <3>1. PICK d \in ActiveDays(l, u) : StartDate <= d /\ d <= Today BY <1>13, <2>1
    <3>2. u \in Users /\ d \in Nat /\ d >= StartDate BY <1>13, <2>1, <3>1, DayFacts
    <3>3. u \in DOMAIN seen /\ seen[u] \in Nat /\ seen[u] <= d BY <1>1, <3>1, <3>2, SeenFacts
    <3>4. seen[u] <= Today BY <3>1, <3>2, <3>3, DayFacts
    <3>5. CohortOf(l, seen[u]) # {} BY <1>1, <3>3 DEF CohortOf
    <3> QED BY <1>2, <1>3, <3>3, <3>4, <3>5, CohortFacts
  <2>2. ASSUME u \in DOMAIN seen, seen[u] \in D PROVE u \in A
    <3>1. /\ u \in Users /\ seen[u] \in Nat /\ seen[u] \in ActiveDays(l, u)
          /\ seen[u] >= StartDate
      BY <1>1, <2>2, SeenFacts
    <3>2. seen[u] <= Today BY <1>2, <1>3, <2>2, CohortFacts
    <3>3. StartDate <= seen[u] BY <3>1, DayFacts
    <3> QED BY <1>13, <3>1, <3>2, <3>3
  <2> QED BY <2>1, <2>2
<1>15. A = {u \in DOMAIN seen : seen[u] \in D} BY <1>14
<1>16. MapThenSumSet(LAMBDA c : Retention(l)[c].size, DOMAIN Retention(l)) = it[D]
  <2>1. PICK m : m = MapThenSumSet(LAMBDA c : Retention(l)[c].size, DOMAIN Retention(l)) OBVIOUS
  <2>2. m = (CHOOSE k : Sums(l, k))[DOMAIN Retention(l)] BY <2>1, SumOfSizes
  <2>3. m = it[D] BY <1>2, <1>3, <1>9, <2>2
  <2> QED BY <2>1, <2>3
<1> QED BY <1>12, <1>13, <1>15, <1>16

\* RetentionGrid.tsx 42-45, 131-140: every count of the answer has its cell.
LEMMA CellFacts ==
  ASSUME NEW l, IsTable(l), NEW c \in DOMAIN Retention(l), NEW o \in OffsetsOf(l, c)
  PROVE  <<c, o>> \in Grid(Retention(l))
<1>1. PICK rt : rt = Retention(l) OBVIOUS
<1>2. PICK T : T = {0} \cup UNION {DOMAIN rt[k].buckets : k \in DOMAIN rt} OBVIOUS
<1>3. ASSUME NEW t \in T PROVE t \in Nat /\ t <= Today
  <2>1. CASE t = 0 BY <2>1, DayFacts
  <2>2. CASE t # 0
    <3>1. PICK k \in DOMAIN rt : t \in DOMAIN rt[k].buckets BY <1>2, <2>2
    <3>2. t \in OffsetsOf(l, k) /\ k \in Nat BY <1>1, <3>1, CohortFacts
    <3>3. t \in Nat /\ k + t <= Today BY <1>1, <3>1, <3>2, OffsetFacts
    <3> QED BY <3>2, <3>3, DayFacts
  <2> QED BY <2>1, <2>2
<1>4. T \in SUBSET Nat /\ T # {} BY <1>2, <1>3
<1>5. Max(T) \in Nat /\ \A t \in T : t <= Max(T) BY <1>3, <1>4, MaxFacts, DayFacts
<1>6. o \in DOMAIN rt[c].buckets /\ o \in Nat /\ o \in T
  BY <1>1, <1>2, CohortFacts, OffsetFacts
<1>7. Columns(rt) = 0 .. Max(T) BY <1>2 DEF Columns
<1>8. o \in Columns(rt) BY <1>5, <1>6, <1>7
<1>9. <<c, o>> \in Grid(rt) BY <1>1, <1>6, <1>8 DEF Grid
<1> QED BY <1>1, <1>9

LEMMA RetentionOfTable == ASSUME NEW l, IsTable(l) PROVE RetentionOf(l)
<1>1. ASSUME NEW c \in DOMAIN Retention(l)
      PROVE  /\ Retention(l)[c].buckets[0] = Retention(l)[c].size
             /\ \A o \in DOMAIN Retention(l)[c].buckets :
                  /\ Retention(l)[c].buckets[o] <= Retention(l)[c].size
                  /\ <<c, o>> \in Grid(Retention(l)) /\ c + o <= Today
  <2>1. PICK rt : rt = Retention(l) OBVIOUS
  <2>2. PICK M : M = CohortOf(l, c) OBVIOUS
  <2>3. c \in Nat /\ IsFiniteSet(M) /\ rt[c].size = Cardinality(M)
    BY <2>1, <2>2, CohortFacts, OffsetFacts
  <2>4. ASSUME NEW o \in OffsetsOf(l, c)
        PROVE  rt[c].buckets[o] = Cardinality({u \in M : c + o \in ActiveDays(l, u)})
    BY <2>1, <2>2, CohortFacts
  <2>5. rt[c].buckets[0] = rt[c].size
    <3>1. 0 \in OffsetsOf(l, c) /\ \A u \in M : c + 0 \in ActiveDays(l, u)
      BY <2>2, <2>3, OffsetFacts
    <3>2. {u \in M : c + 0 \in ActiveDays(l, u)} = M BY <3>1
    <3> QED BY <2>3, <2>4, <3>1, <3>2
  <2>6. ASSUME NEW o \in OffsetsOf(l, c) PROVE rt[c].buckets[o] <= rt[c].size
    <3>1. PICK A : A = {u \in M : c + o \in ActiveDays(l, u)} OBVIOUS
    <3>2. A \in SUBSET M BY <3>1
    <3> QED BY <2>3, <2>4, <3>1, <3>2, FS_Subset
  <2>7. DOMAIN rt[c].buckets = OffsetsOf(l, c) BY <2>1, CohortFacts
  <2>8. \A o \in OffsetsOf(l, c) : <<c, o>> \in Grid(rt) /\ c + o <= Today
    BY <2>1, CellFacts, OffsetFacts
  <2> QED BY <2>1, <2>5, <2>6, <2>7, <2>8
<1> QED BY <1>1, CohortsAreComplete DEF RetentionOf

\* internal/analytics/retention.go 43-137, RetentionGrid.tsx 42-45, 131-140:
\* for every table, the cohorts hold each user who was active since the start
\* date once, are complete on their first day, are never exceeded, and each
\* of their counts has a cell that is not after today.
THEOREM RetentionsAreComplete == Spec => []RetentionIsComplete
<1>1. SampleRetentions BY TablesAreTables, RetentionOfTable DEF SampleRetentions
<1>2. ASSUME AInv PROVE RetentionIsComplete
  <2>1. PICK l : l = table OBVIOUS
  <2>2. IsTable(l) BY <1>2, <2>1, TablesAreTables
  <2>3. RetentionOf(l) BY <2>2, RetentionOfTable
  <2> QED BY <1>1, <2>1, <2>3 DEF RetentionIsComplete
<1> QED BY <1>2, Invariance, PTL

-----------------------------------------------------------------------------
\* EventDistribution.tsx 25-40, UserActivity.tsx 29-39, ActivityTimeline.tsx
\* 27-53: the views of any list of rows.

\* R puts the elements of S in one order.
Orders(R, S) ==
  /\ \A x \in S : <<x, x>> \notin R
  /\ \A x, y \in S : x # y => <<x, y>> \in R \/ <<y, x>> \in R
  /\ \A x, y, z \in S : <<x, y>> \in R /\ <<y, z>> \in R => <<x, z>> \in R

\* Sorting leaves nothing out, repeats nothing and puts all in order: the
\* numbers of elements before each are those below the number of all.
LEMMA SortedFacts ==
  ASSUME NEW S, IsFiniteSet(S), NEW R, Orders(R, S)
  PROVE  /\ Cardinality(S) \in Nat /\ Sorted(S, R) \in [1 .. Cardinality(S) -> S]
         /\ \A x \in S : \E k \in 1 .. Cardinality(S) : Sorted(S, R)[k] = x
         /\ \A i, j \in 1 .. Cardinality(S) :
              i < j => <<Sorted(S, R)[i], Sorted(S, R)[j]>> \in R
<1>1. PICK N \in Nat : N = Cardinality(S) BY FS_CardinalityType
<1> DEFINE Below(x) == {y \in S : <<y, x>> \in R}
<1>2. \A x \in S : Below(x) \in SUBSET (S \ {x}) BY DEF Orders
<1>3. ASSUME NEW x \in S PROVE IsFiniteSet(Below(x)) /\ Cardinality(Below(x)) \in 0 .. N - 1
  <2>1. PICK T : T = S \ {x} OBVIOUS
  <2>2. IsFiniteSet(T) /\ Cardinality(T) = N - 1 BY <1>1, <2>1, FS_RemoveElement
  <2>3. PICK B : B = Below(x) OBVIOUS
  <2>4. B \in SUBSET T BY <1>2, <2>1, <2>3
  <2>5. IsFiniteSet(B) /\ Cardinality(B) <= N - 1 BY <2>2, <2>4, FS_Subset
  <2>6. Cardinality(B) \in Nat BY <2>5, FS_CardinalityType
  <2>7. Cardinality(B) \in 0 .. N - 1 BY <1>1, <2>5, <2>6
  <2> QED BY <2>3, <2>5, <2>7
<1>4. PICK rank : rank = [x \in S |-> Cardinality(Below(x))] OBVIOUS
<1>5. \A x \in S : rank[x] = Cardinality(Below(x)) /\ rank[x] \in 0 .. N - 1 BY <1>3, <1>4
<1>14. ASSUME NEW x \in S PROVE rank[x] \in Nat /\ rank[x] <= N - 1
  <2>1. PICK r \in 0 .. N - 1 : r = rank[x] BY <1>5
  <2> QED BY <2>1
<1>6. ASSUME NEW x \in S, NEW y \in S, <<x, y>> \in R PROVE rank[x] < rank[y]
  <2>1. PICK A : A = Below(x) OBVIOUS
  <2>2. PICK B : B = Below(y) OBVIOUS
  <2>3. A \in SUBSET B BY <1>6, <2>1, <2>2 DEF Orders
  <2>4. x \in B /\ x \notin A BY <1>6, <2>1, <2>2 DEF Orders
  <2>5. IsFiniteSet(B) BY <1>3, <2>2
  <2>6. Cardinality(A) <= Cardinality(B) /\ Cardinality(A) # Cardinality(B)
    BY <2>3, <2>4, <2>5, FS_Subset
  <2>7. rank[x] = Cardinality(A) /\ rank[y] = Cardinality(B) BY <1>5, <2>1, <2>2
  <2>8. rank[x] \in Nat /\ rank[y] \in Nat BY <1>14
  <2> QED BY <2>6, <2>7, <2>8
<1>7. \A x, y \in S : rank[x] = rank[y] => x = y
  <2>1. \A x \in S : rank[x] \in Nat BY <1>14
  <2>2. SUFFICES ASSUME NEW x \in S, NEW y \in S, rank[x] = rank[y], x # y PROVE FALSE OBVIOUS
  <2>3. rank[x] < rank[y] \/ rank[y] < rank[x] BY <1>6, <2>2 DEF Orders
  <2> QED BY <2>1, <2>2, <2>3
<1>8. \A k \in 0 .. N - 1 : \E x \in S : rank[x] = k
  <2>1. PICK T : T = 0 .. N - 1 OBVIOUS
  <2>2. IsFiniteSet(T) /\ Cardinality(T) = N
    <3>1. 0 \in Int /\ N - 1 \in Int /\ (0 > N - 1 <=> N = 0) /\ (N - 1) - 0 + 1 = N OBVIOUS
    <3> QED BY <2>1, <3>1, FS_Interval
  <2>3. rank \in [S -> T] BY <1>4, <1>5, <2>1
  <2>4. rank \in Injection(S, T) BY <1>7, <2>3 DEF Injection, IsInjective
  <2>5. rank \in Surjection(S, T) BY <1>1, <2>2, <2>4, FS_Injection
  <2> QED BY <2>1, <2>5 DEF Surjection
<1>9. PICK s : s = Sorted(S, R) OBVIOUS
<1>10. ASSUME NEW k \in 1 .. N PROVE s[k] \in S /\ rank[s[k]] = k - 1
  <2>1. k - 1 \in 0 .. N - 1 BY <1>1
  <2>2. PICK x \in S : rank[x] = k - 1 BY <1>8, <2>1
  <2>3. Cardinality(Below(x)) = k - 1 BY <1>5, <2>2
  <2>4. PICK z : z = CHOOSE y \in S : Cardinality(Below(y)) = k - 1 OBVIOUS
  <2>5. z \in S /\ Cardinality(Below(z)) = k - 1 BY <2>3, <2>4
  <2>6. s[k] = z BY <1>1, <1>9, <2>4 DEF Sorted
  <2> QED BY <1>5, <2>5, <2>6
<1>11. s \in [1 .. N -> S]
  <2> DEFINE At(k) == CHOOSE x \in S : Cardinality(Below(x)) = k - 1
  <2>1. PICK f : f = [k \in 1 .. N |-> At(k)] OBVIOUS
  <2>2. s = f BY <1>1, <1>9, <2>1 DEF Sorted
  <2> HIDE DEF At
  <2>3. DOMAIN f = 1 .. N /\ f = [k \in DOMAIN f |-> f[k]] BY <2>1
  <2> QED BY <1>10, <2>2, <2>3
<1>12. ASSUME NEW x \in S PROVE \E k \in 1 .. N : s[k] = x
  <2>1. PICK r \in Nat : r = rank[x] /\ r <= N - 1 BY <1>14
  <2>3. PICK k : k = r + 1 OBVIOUS
  <2>2. k \in 1 .. N /\ k - 1 = rank[x] BY <1>1, <2>1, <2>3
  <2> QED BY <1>7, <1>10, <2>2
<1>13. ASSUME NEW i \in 1 .. N, NEW j \in 1 .. N, i < j PROVE <<s[i], s[j]>> \in R
  <2>1. s[i] \in S /\ s[j] \in S /\ rank[s[i]] = i - 1 /\ rank[s[j]] = j - 1 BY <1>10
  <2>2. s[i] # s[j] BY <1>13, <2>1
  <2>3. ASSUME <<s[j], s[i]>> \in R PROVE FALSE
    <3>1. rank[s[j]] < rank[s[i]] BY <1>6, <2>1, <2>3
    <3> QED BY <1>13, <2>1, <3>1
  <2> QED BY <2>1, <2>2, <2>3 DEF Orders
<1> QED BY <1>1, <1>9, <1>11, <1>12, <1>13

LEMMA MinTwo ==
  ASSUME NEW a \in Nat, NEW b \in Nat
  PROVE  /\ Min({a, b}) \in Nat /\ Min({a, b}) \in {a, b}
         /\ Min({a, b}) <= a /\ Min({a, b}) <= b
<1>1. {a, b} \in SUBSET Nat /\ {a, b} # {} OBVIOUS
<1>2. Min({a, b}) \in {a, b} /\ \A t \in {a, b} : Min({a, b}) <= t BY <1>1, MinFacts
<1> QED BY <1>2

IsRows(l) == IsTable(l) /\ l \in Seq(Range(l))

\* The list of a table has rows of it.
LEMMA ListedRows ==
  ASSUME NEW l, IsRows(l)
  PROVE  IsRows(ListRows(l, 0, SampleLimit))
<1>1. PICK n \in Nat : DOMAIN l = 1 .. n BY DEF IsRows
<1> DEFINE S == {i \in Rows(l) : l[i].at >= 0}
           R == {p \in S \X S : \/ l[p[1]].at > l[p[2]].at
                                \/ l[p[1]].at = l[p[2]].at /\ p[1] > p[2]}
<1>2. PICK cut : /\ cut = SubSeq(Sorted(S, R), 1, Min({SampleLimit, Cardinality(S)}))
                 /\ ListRows(l, 0, SampleLimit) = [k \in DOMAIN cut |-> l[cut[k]]]
  BY DEF ListRows
<1>4. S \in SUBSET (1 .. n) /\ \A i \in S : i \in Nat /\ l[i].at \in Nat
  BY <1>1 DEF Rows, IsRows, IsTable
<1>5. IsFiniteSet(S)
  <2>1. IsFiniteSet(1 .. n) BY FS_Interval
  <2> QED BY <1>4, <2>1, FS_Subset
<1>6. ASSUME NEW x \in S, NEW y \in S
      PROVE  <<x, y>> \in R <=> l[x].at > l[y].at \/ (l[x].at = l[y].at /\ x > y)
  OBVIOUS
<1> HIDE DEF S, R
<1>7. Orders(R, S)
  <2>1. \A x \in S : <<x, x>> \notin R BY <1>4, <1>6
  <2>2. ASSUME NEW x \in S, NEW y \in S, x # y PROVE <<x, y>> \in R \/ <<y, x>> \in R
    <3>1. x \in Nat /\ y \in Nat /\ l[x].at \in Nat /\ l[y].at \in Nat BY <1>4
    <3>2. x > y \/ y > x BY <2>2, <3>1
    <3>3. l[x].at > l[y].at \/ l[y].at > l[x].at \/ l[x].at = l[y].at BY <3>1
    <3> QED BY <1>6, <3>2, <3>3
  <2>3. ASSUME NEW x \in S, NEW y \in S, NEW z \in S, <<x, y>> \in R, <<y, z>> \in R
        PROVE  <<x, z>> \in R
    <3>1. /\ l[x].at > l[y].at \/ (l[x].at = l[y].at /\ x > y)
          /\ l[y].at > l[z].at \/ (l[y].at = l[z].at /\ y > z)
      BY <1>6, <2>3
    <3>2. l[x].at > l[z].at \/ (l[x].at = l[z].at /\ x > z) BY <1>4, <3>1
    <3> QED BY <1>6, <3>2
  <2> QED BY <2>1, <2>2, <2>3 DEF Orders
<1>8. PICK ids : ids = Sorted(S, R) OBVIOUS
<1>9. PICK N \in Nat : N = Cardinality(S) /\ ids \in [1 .. N -> S] BY <1>5, <1>7, <1>8, SortedFacts
<1>10. PICK m \in Nat : m = Min({SampleLimit, N}) /\ m <= N BY MinTwo, ChartsAssumption
<1>11. PICK rows : rows = ListRows(l, 0, SampleLimit) OBVIOUS
<1>12. cut \in Seq(S) /\ DOMAIN cut = 1 .. m
  <2>1. \A i \in 1 .. m : ids[i] \in S BY <1>9, <1>10
  <2>2. 1 \in Int /\ m \in Int /\ m - 1 + 1 = m /\ (1 <= m \/ m = 0) OBVIOUS
  <2>3. cut = SubSeq(ids, 1, m) BY <1>2, <1>8, <1>9, <1>10
  <2>4. cut \in Seq(S) /\ Len(cut) = m BY <2>1, <2>2, <2>3, SubSeqProperties
  <2> QED BY <2>4
<1>13. rows = [k \in 1 .. m |-> l[cut[k]]] BY <1>2, <1>11, <1>12
<1>14. ASSUME NEW k \in 1 .. m PROVE cut[k] \in DOMAIN l
  <2>1. cut[k] \in S BY <1>12
  <2> QED BY <1>1, <1>4, <2>1
<1>15. IsTable(rows) BY <1>13, <1>14 DEF IsRows, IsTable
<1>16. rows \in Seq(Range(rows)) BY <1>13 DEF Range
<1> QED BY <1>11, <1>15, <1>16 DEF IsRows

-----------------------------------------------------------------------------
\* How often k is among keys.
Count(keys, k) == Cardinality({i \in DOMAIN keys : keys[i] = k})

LEMMA CountFacts ==
  ASSUME NEW n \in Nat, NEW keys, DOMAIN keys = 1 .. n
  PROVE  /\ IsFiniteSet(DOMAIN keys) /\ Cardinality(DOMAIN keys) = n
         /\ \A k : IsFiniteSet({i \in DOMAIN keys : keys[i] = k}) /\ Count(keys, k) \in Nat
         /\ IsFiniteSet(Range(keys))
         /\ \A k \in Range(keys) : Tally(keys)[k] = Count(keys, k)
<1>1. IsFiniteSet(1 .. n) /\ Cardinality(1 .. n) = n
  <2>1. 1 \in Int /\ n \in Int /\ (1 > n <=> n = 0) /\ n - 1 + 1 = n OBVIOUS
  <2> QED BY <2>1, FS_Interval
<1>2. ASSUME NEW k PROVE IsFiniteSet({i \in DOMAIN keys : keys[i] = k}) /\ Count(keys, k) \in Nat
  <2>1. PICK T : T = {i \in DOMAIN keys : keys[i] = k} OBVIOUS
  <2>2. T \in SUBSET (1 .. n) BY <2>1
  <2>3. IsFiniteSet(T) /\ Cardinality(T) \in Nat BY <1>1, <2>2, FS_Subset, FS_CardinalityType
  <2> QED BY <2>1, <2>3 DEF Count
<1>3. IsFiniteSet(Range(keys))
  <2>1. PICK f : f = [i \in 1 .. n |-> keys[i]] OBVIOUS
  <2>2. f \in Surjection(1 .. n, Range(keys)) BY <2>1 DEF Surjection, Range
  <2> QED BY <1>1, <2>2, FS_Surjection
<1>4. \A k \in Range(keys) : Tally(keys)[k] = Count(keys, k) BY DEF Tally, Count
<1> QED BY <1>1, <1>2, <1>3, <1>4

\* The keys in K are ranked by their counts, each once.
LEMMA RankedFacts ==
  ASSUME NEW n \in Nat, NEW keys, DOMAIN keys = 1 .. n, NEW K \in SUBSET Range(keys)
  PROVE  /\ IsFiniteSet(K) /\ Cardinality(K) \in Nat
         /\ Ranked(keys, K) \in [1 .. Cardinality(K) -> K]
         /\ \A x \in K : \E i \in 1 .. Cardinality(K) : Ranked(keys, K)[i] = x
         /\ \A i, j \in 1 .. Cardinality(K) : i < j =>
              /\ Ranked(keys, K)[i] # Ranked(keys, K)[j]
              /\ Count(keys, Ranked(keys, K)[i]) >= Count(keys, Ranked(keys, K)[j])
<1> DEFINE First0(k) == Min({i \in DOMAIN keys : keys[i] = k})
<1>1. ASSUME NEW k \in K
      PROVE  First0(k) \in Nat /\ keys[First0(k)] = k
  <2>1. PICK T : T = {i \in DOMAIN keys : keys[i] = k} OBVIOUS
  <2>2. T \in SUBSET Nat /\ T # {} BY <2>1 DEF Range
  <2>3. Min(T) \in T BY <2>2, MinFacts
  <2> QED BY <2>1, <2>2, <2>3
<1>2. PICK R : R = {p \in K \X K : \/ Tally(keys)[p[1]] > Tally(keys)[p[2]]
                                  \/ /\ Tally(keys)[p[1]] = Tally(keys)[p[2]]
                                     /\ First0(p[1]) < First0(p[2])} OBVIOUS
<1>3. Ranked(keys, K) = Sorted(K, R) BY <1>2 DEF Ranked
<1>4. PICK c : c = [k \in K |-> Count(keys, k)] OBVIOUS
<1>5. PICK f : f = [k \in K |-> First0(k)] OBVIOUS
<1>6. \A k \in K : c[k] = Count(keys, k) /\ c[k] \in Nat /\ c[k] = Tally(keys)[k]
  BY <1>4, CountFacts
<1>7. \A k \in K : f[k] = First0(k) /\ f[k] \in Nat /\ keys[f[k]] = k BY <1>1, <1>5
<1>8. ASSUME NEW x \in K, NEW y \in K
      PROVE  <<x, y>> \in R <=> c[x] > c[y] \/ (c[x] = c[y] /\ f[x] < f[y])
  <2> HIDE DEF First0
  <2>1. <<x, y>> \in R <=> \/ Tally(keys)[x] > Tally(keys)[y]
                           \/ Tally(keys)[x] = Tally(keys)[y] /\ First0(x) < First0(y)
    BY <1>2
  <2> QED BY <1>6, <1>7, <2>1
<1> HIDE DEF First0
<1>9. Orders(R, K)
  <2>1. \A x \in K : c[x] \in Nat /\ f[x] \in Nat /\ keys[f[x]] = x BY <1>6, <1>7
  <2>2. \A x \in K : <<x, x>> \notin R BY <1>8, <2>1
  <2>3. ASSUME NEW x \in K, NEW y \in K, x # y PROVE <<x, y>> \in R \/ <<y, x>> \in R
    <3>1. f[x] # f[y] BY <2>1, <2>3
    <3>2. c[x] \in Nat /\ c[y] \in Nat /\ f[x] \in Nat /\ f[y] \in Nat BY <2>1
    <3>3. f[x] < f[y] \/ f[y] < f[x] BY <3>1, <3>2
    <3>4. c[x] > c[y] \/ c[y] > c[x] \/ c[x] = c[y] BY <3>2
    <3> QED BY <1>8, <3>3, <3>4
  <2>4. ASSUME NEW x \in K, NEW y \in K, NEW z \in K, <<x, y>> \in R, <<y, z>> \in R
        PROVE  <<x, z>> \in R
    <3>1. /\ c[x] > c[y] \/ (c[x] = c[y] /\ f[x] < f[y])
          /\ c[y] > c[z] \/ (c[y] = c[z] /\ f[y] < f[z])
      BY <1>8, <2>4
    <3>2. c[x] > c[z] \/ (c[x] = c[z] /\ f[x] < f[z]) BY <2>1, <3>1
    <3> QED BY <1>8, <3>2
  <2> QED BY <2>2, <2>3, <2>4 DEF Orders
<1>10. IsFiniteSet(K) BY CountFacts, FS_Subset
<1>11. PICK s : s = Ranked(keys, K) OBVIOUS
<1>12. PICK N \in Nat : N = Cardinality(K) BY <1>10, FS_CardinalityType
<1>13. /\ s \in [1 .. N -> K] /\ \A x \in K : \E k \in 1 .. N : s[k] = x
       /\ \A i, j \in 1 .. N : i < j => <<s[i], s[j]>> \in R
  BY <1>3, <1>9, <1>10, <1>11, <1>12, SortedFacts
<1>14. ASSUME NEW i \in 1 .. N, NEW j \in 1 .. N, i < j
       PROVE  s[i] # s[j] /\ Count(keys, s[i]) >= Count(keys, s[j])
  <2>1. s[i] \in K /\ s[j] \in K /\ <<s[i], s[j]>> \in R BY <1>13, <1>14
  <2>2. s[i] # s[j] BY <1>9, <2>1 DEF Orders
  <2>3. c[s[i]] \in Nat /\ c[s[j]] \in Nat /\ c[s[i]] = Count(keys, s[i])
        /\ c[s[j]] = Count(keys, s[j])
    BY <1>6, <2>1
  <2>4. c[s[i]] >= c[s[j]] BY <1>8, <2>1, <2>3
  <2> QED BY <2>2, <2>3, <2>4
<1> QED BY <1>10, <1>11, <1>12, <1>13, <1>14

-----------------------------------------------------------------------------
\* ActivityTimeline.tsx 27-53.
LEMMA DivFacts ==
  ASSUME NEW x \in Nat, NEW b \in Nat \ {0}, NEW j \in Nat
  PROVE  /\ x \div b \in Nat
         /\ x \div b >= j <=> j * b <= x
         /\ x \div b = j <=> j * b <= x /\ x < (j + 1) * b
<1>1. PICK q \in Int : q = x \div b OBVIOUS
<1>2. b * q <= x /\ x < b * (q + 1) BY <1>1
<1>3. q \in Nat
  <2>1. SUFFICES ASSUME q + 1 <= 0 PROVE FALSE OBVIOUS
  <2>2. b * (q + 1) <= 0 BY <2>1
  <2> QED BY <1>2, <2>2
<1>4. \A i, k \in Nat : i <= k => i * b <= k * b OBVIOUS
<1>5. b * q = q * b /\ b * (q + 1) = (q + 1) * b OBVIOUS
<1>6. q * b \in Nat /\ (q + 1) * b \in Nat /\ j * b \in Nat /\ (j + 1) * b \in Nat BY <1>3
<1>7. q >= j => j * b <= x
  <2>1. ASSUME q >= j PROVE j * b <= q * b BY <1>3, <1>4, <2>1
  <2> QED BY <1>2, <1>5, <1>6, <2>1
<1>8. j > q => x < j * b
  <2>1. ASSUME j > q PROVE (q + 1) * b <= j * b BY <1>3, <1>4, <2>1
  <2> QED BY <1>2, <1>5, <1>6, <2>1
<1>9. q > j => (j + 1) * b <= x
  <2>1. ASSUME q > j PROVE (j + 1) * b <= q * b BY <1>3, <1>4, <2>1
  <2> QED BY <1>2, <1>5, <1>6, <2>1
<1>10. q = j => x < (j + 1) * b BY <1>2, <1>5
<1> QED BY <1>1, <1>3, <1>6, <1>7, <1>8, <1>9, <1>10

LEMMA StartFacts ==
  /\ StartOf(1) \in Nat
  /\ \A i \in Nat : StartOf(i + 1) = StartOf(1) + i * BucketSize
<1>1. PICK n \in Nat : n = BucketCount BY ChartsAssumption
<1>2. PICK b \in Nat : b = BucketSize BY ChartsAssumption
<1>3. PICK t \in Nat : t = Now BY ChartsAssumption
<1>4. n * b <= t BY <1>1, <1>2, <1>3, ChartsAssumption
<1>5. n - 1 + 1 = n /\ n * b \in Nat OBVIOUS
<1>6. StartOf(1) = t - n * b BY <1>1, <1>2, <1>3, <1>5 DEF StartOf
<1>7. ASSUME NEW i \in Nat PROVE StartOf(i + 1) = StartOf(1) + i * b
  <2>1. n - (i + 1) + 1 = n - i OBVIOUS
  <2>2. StartOf(i + 1) = t - (n - i) * b BY <1>1, <1>2, <1>3, <2>1 DEF StartOf
  <2>3. (n - i) * b = n * b - i * b OBVIOUS
  <2>4. i * b \in Nat OBVIOUS
  <2> QED BY <1>5, <1>6, <2>2, <2>3, <2>4
<1>8. StartOf(1) \in Nat BY <1>4, <1>5, <1>6
<1> QED BY <1>2, <1>7, <1>8

\* A row is in the bucket that has started last when it came.
LEMMA IndexFacts ==
  ASSUME NEW at \in Nat, NEW i \in 1 .. BucketCount
  PROVE  at >= StartOf(1) /\ Index(at) = i
           <=> StartOf(i) <= at /\ (i = BucketCount \/ at < StartOf(i + 1))
<1>1. PICK n \in Nat \ {0} : n = BucketCount BY ChartsAssumption
<1>2. PICK b \in Nat \ {0} : b = BucketSize BY ChartsAssumption
<1>3. PICK s \in Nat : s = StartOf(1) BY StartFacts
<1>4. PICK j \in Nat : i = j + 1 /\ j = i - 1 BY <1>1
<1>5. StartOf(i) = s + j * b /\ StartOf(i + 1) = s + (j + 1) * b
  <2>1. j + 1 \in Nat /\ i + 1 = (j + 1) + 1 BY <1>4
  <2> QED BY <1>2, <1>3, <1>4, <2>1, StartFacts
<1>6. j * b \in Nat /\ (j + 1) * b \in Nat OBVIOUS
<1>7. CASE at < s
  <2>1. ~(at >= StartOf(1)) BY <1>3, <1>7
  <2>2. ~(s + j * b <= at) BY <1>6, <1>7
  <2> QED BY <1>5, <2>1, <2>2
<1>8. CASE at >= s
  <2>1. PICK x \in Nat : x = at - s BY <1>8
  <2>2. PICK q \in Nat : q = x \div b BY DivFacts
  <2>3. q >= j <=> j * b <= x BY <2>2, DivFacts
  <2>4. q = j <=> j * b <= x /\ x < (j + 1) * b BY <2>2, DivFacts
  <2>5. Index(at) = Min({n, q + 1}) BY <1>1, <1>2, <1>3, <2>1, <2>2 DEF Index
  <2>6. PICK m \in Nat : m = Min({n, q + 1}) /\ m \in {n, q + 1} /\ m <= n /\ m <= q + 1
    BY MinTwo
  <2>7. i \in Nat /\ i <= n BY <1>1
  <2>8. m = i <=> IF i = n THEN q >= j ELSE q = j BY <1>4, <2>6, <2>7
  <2>9. StartOf(i) <= at <=> j * b <= x BY <1>5, <1>6, <2>1
  <2>10. at < StartOf(i + 1) <=> x < (j + 1) * b BY <1>5, <1>6, <2>1
  <2>11. at >= StartOf(1) BY <1>3, <1>8
  <2> QED BY <1>1, <2>3, <2>4, <2>5, <2>6, <2>8, <2>9, <2>10, <2>11
<1> QED BY <1>7, <1>8

LEMMA BarsOfRows ==
  ASSUME NEW rows, IsRows(rows)
  PROVE  BarsOf(BucketEvents(rows), rows)
<1>1. PICK bars : bars = BucketEvents(rows) OBVIOUS
<1>2. DOMAIN bars = 1 .. BucketCount
  BY <1>1 DEF BucketEvents
<1>3. ASSUME NEW i \in 1 .. BucketCount
      PROVE  bars[i] = Cardinality({k \in DOMAIN rows :
                /\ StartOf(i) <= rows[k].at
                /\ i = BucketCount \/ rows[k].at < StartOf(i + 1)})
  <2>1. \A k \in DOMAIN rows : rows[k].at \in Nat BY DEF IsRows, IsTable
  <2>2. PICK A : A = {k \in Rows(rows) : rows[k].at >= StartOf(1) /\ Index(rows[k].at) = i} OBVIOUS
  <2>3. PICK B : B = {k \in DOMAIN rows :
                /\ StartOf(i) <= rows[k].at
                /\ i = BucketCount \/ rows[k].at < StartOf(i + 1)}
    OBVIOUS
  <2>4. A = B BY <2>1, <2>2, <2>3, IndexFacts DEF Rows
  <2>5. bars[i] = Cardinality(A) BY <1>1, <2>2 DEF BucketEvents
  <2> QED BY <2>3, <2>4, <2>5
<1>4. BarsOf(bars, rows) BY <1>2, <1>3 DEF BarsOf
<1> QED BY <1>1, <1>4

-----------------------------------------------------------------------------
\* UserActivity.tsx 29-39 and StatsPanel.tsx 37-41.
LEMMA TopOfRows ==
  ASSUME NEW rows, IsRows(rows)
  PROVE  TopOf(TopUsers(rows), rows)
<1>1. PICK n \in Nat : DOMAIN rows = 1 .. n BY DEF IsRows
<1>2. PICK users : users = [i \in Rows(rows) |-> rows[i].user] OBVIOUS
<1>3. DOMAIN users = 1 .. n /\ \A i \in 1 .. n : users[i] = rows[i].user BY <1>1, <1>2 DEF Rows
<1>4. PICK K : K = Range(users) \ {Anonymous} OBVIOUS
<1>5. K \in SUBSET Range(users) BY <1>4
<1>6. PICK rank : rank = Ranked(users, K) OBVIOUS
<1>7. PICK N \in Nat : N = Cardinality(K) BY <1>3, <1>5, RankedFacts
<1>8. /\ rank \in [1 .. N -> K] /\ \A x \in K : \E i \in 1 .. N : rank[i] = x
      /\ \A i, j \in 1 .. N : i < j => Count(users, rank[i]) >= Count(users, rank[j])
  BY <1>3, <1>5, <1>6, <1>7, RankedFacts
<1>9. rank \in Seq(K) /\ Len(rank) = N BY <1>8
<1>10. TopCount \in Nat BY ChartsAssumption
<1>11. PICK m \in Nat : m = Min({TopCount, N}) /\ m <= N BY <1>10, MinTwo
<1>12. PICK top : top = TopUsers(rows) OBVIOUS
<1>13. top = SubSeq(rank, 1, m)
  <2>1. top = SubSeq(Ranked(users, Range(users) \ {Anonymous}), 1,
                     Min({TopCount, Len(Ranked(users, Range(users) \ {Anonymous}))}))
    BY <1>2, <1>12 DEF TopUsers
  <2> QED BY <1>4, <1>6, <1>9, <1>11, <2>1
<1>14. DOMAIN top = 1 .. m /\ Len(top) = m /\ \A i \in 1 .. m : top[i] = rank[i]
  <2>1. m - 1 + 1 = m OBVIOUS
  <2>2. top \in Seq(K)
    <3>1. \A i \in 1 .. m : rank[i] \in K BY <1>8, <1>11
    <3> QED BY <1>13, <3>1, SubSeqProperties
  <2>3. Len(top) = m BY <1>9, <1>11, <1>13, <2>1
  <2>4. DOMAIN top = 1 .. m BY <2>2, <2>3
  <2>5. ASSUME NEW i \in 1 .. m PROVE top[i] = rank[i]
    <3>1. 1 + i - 1 = i OBVIOUS
    <3> QED BY <1>9, <1>11, <1>13, <3>1
  <2> QED BY <2>3, <2>4, <2>5
<1>15. \A u : Cardinality({i \in DOMAIN rows : rows[i].user = u}) = Count(users, u)
  <2>1. ASSUME NEW u PROVE {i \in DOMAIN rows : rows[i].user = u} = {i \in DOMAIN users : users[i] = u}
    BY <1>1, <1>3
  <2> QED BY <2>1 DEF Count
<1>16. ASSUME NEW u \in Users \ Range(top), NEW v \in Range(top)
       PROVE  Count(users, u) <= Count(users, v)
  <2>1. PICK i \in 1 .. m : v = rank[i] BY <1>14 DEF Range
  <2>2. Count(users, u) \in Nat /\ Count(users, v) \in Nat BY <1>3, CountFacts
  <2>3. CASE u \in K
    <3>1. PICK j \in 1 .. N : rank[j] = u BY <1>8, <2>3
    <3>2. ~(j \in 1 .. m) BY <1>14, <3>1 DEF Range
    <3>3. i \in 1 .. N /\ i < j BY <1>11, <3>2
    <3> QED BY <1>8, <2>1, <2>2, <3>1, <3>3
  <2>4. CASE u \notin K
    <3>1. u # Anonymous BY ChartsAssumption
    <3>2. {k \in DOMAIN users : users[k] = u} = {} BY <1>4, <2>4, <3>1 DEF Range
    <3>3. Count(users, u) = 0 BY <3>2, FS_EmptySet DEF Count
    <3> QED BY <2>2, <3>3
  <2> QED BY <2>3, <2>4
<1>17. UniqueUsers(rows) = N
  <2>1. {rows[i].user : i \in Rows(rows)} \ {Anonymous} = K BY <1>1, <1>3, <1>4 DEF Range, Rows
  <2> QED BY <1>7, <2>1 DEF UniqueUsers
<1>18. TopOf(top, rows) BY <1>11, <1>14, <1>15, <1>16, <1>17 DEF TopOf
<1> QED BY <1>12, <1>18

-----------------------------------------------------------------------------
\* The recursion of MapThenSumSet over the subsets in P.
Added(v, P, it) ==
  it = [s \in P |-> IF s = {} THEN 0
                    ELSE v[CHOOSE x \in s : TRUE] + it[s \ {CHOOSE x \in s : TRUE}]]

LEMMA AddedExists ==
  ASSUME NEW D, IsFiniteSet(D), NEW v
  PROVE  \E it : Added(v, SUBSET D, it)
<1>1. \A s \in SUBSET D : IsFiniteSet(s) /\ Cardinality(s) \in Nat BY FS_Subset, FS_CardinalityType
<1> DEFINE Upto(n) == {s \in SUBSET D : Cardinality(s) <= n}
           S == {n \in Nat : \E it : Added(v, Upto(n), it)}
<1>2. 0 \in S
  <2>1. \A s \in Upto(0) : s = {} BY <1>1, FS_EmptySet
  <2>2. PICK it : it = [s \in Upto(0) |-> 0] OBVIOUS
  <2>3. it = [s \in Upto(0) |-> IF s = {} THEN 0
                ELSE v[CHOOSE x \in s : TRUE] + it[s \ {CHOOSE x \in s : TRUE}]]
    <3> HIDE DEF Upto
    <3> QED BY <2>1, <2>2
  <2>4. Added(v, Upto(0), it) BY <2>3 DEF Added
  <2> QED BY <2>4
<1>3. PICK N \in Nat : N = Cardinality(D) BY <1>1
<1>4. ASSUME NEW n \in 0 .. N - 1, n \in S PROVE n + 1 \in S
  <2>1. n \in Nat /\ n + 1 \in Nat /\ n <= n + 1 OBVIOUS
  <2>2. PICK f : Added(v, Upto(n), f) BY <1>4
  <2> DEFINE Step(s, g) == IF s = {} THEN 0
                           ELSE v[CHOOSE x \in s : TRUE] + g[s \ {CHOOSE x \in s : TRUE}]
  <2>3. \A s \in Upto(n) : f[s] = Step(s, f)
    <3>1. f = [s \in Upto(n) |-> Step(s, f)] BY <2>2 DEF Added
    <3> HIDE DEF Upto, Step
    <3> QED BY <3>1
  <2>4. PICK g : g = [s \in Upto(n + 1) |-> Step(s, f)] OBVIOUS
  <2>5. \A s \in Upto(n) : s \in Upto(n + 1)
    <3>1. ASSUME NEW s \in Upto(n) PROVE s \in Upto(n + 1)
      <4>1. s \in SUBSET D /\ Cardinality(s) <= n OBVIOUS
      <4>2. Cardinality(s) \in Nat BY <1>1, <4>1
      <4> QED BY <2>1, <4>1, <4>2
    <3> QED BY <3>1
  <2>6. \A s \in Upto(n) : g[s] = f[s]
    <3> HIDE DEF Upto, Step
    <3> QED BY <2>3, <2>4, <2>5
  <2>7. ASSUME NEW s \in Upto(n + 1) PROVE g[s] = Step(s, g)
    <3>1. g[s] = Step(s, f)
      <4> HIDE DEF Upto, Step
      <4> QED BY <2>4
    <3>2. CASE s = {} BY <3>1, <3>2
    <3>3. CASE s # {}
      <4>1. PICK x \in s : x = CHOOSE y \in s : TRUE BY <3>3
      <4>2. PICK t : t = s \ {x} OBVIOUS
      <4>3. t \in Upto(n)
        <5>1. s \in SUBSET D /\ Cardinality(s) <= n + 1 OBVIOUS
        <5>2. PICK a \in Nat : a = Cardinality(s) BY <1>1, <5>1
        <5>3. Cardinality(t) = a - 1 BY <1>1, <4>2, <5>1, <5>2, FS_RemoveElement
        <5>4. a - 1 <= n BY <2>1, <5>1, <5>2
        <5> QED BY <4>2, <5>1, <5>3, <5>4
      <4>4. g[t] = f[t]
        <5> HIDE DEF Upto
        <5> QED BY <2>6, <4>3
      <4>5. Step(s, f) = v[x] + f[t] /\ Step(s, g) = v[x] + g[t] BY <3>3, <4>1, <4>2
      <4> HIDE DEF Step
      <4> QED BY <3>1, <4>4, <4>5
    <3> QED BY <3>2, <3>3
  <2>8. g = [s \in Upto(n + 1) |-> Step(s, g)]
    <3> HIDE DEF Upto, Step
    <3> QED BY <2>4, <2>7
  <2>9. Added(v, Upto(n + 1), g) BY <2>8 DEF Added
  <2> QED BY <2>1, <2>9
<1>5. N \in S
  <2>1. 0 \in Nat /\ N \in 0 .. N OBVIOUS
  <2> HIDE DEF S
  <2> QED BY <1>2, <1>3, <1>4, <2>1, CountUp
<1>6. Upto(N) = SUBSET D BY <1>1, <1>3, FS_Subset
<1>7. PICK it : Added(v, Upto(N), it) BY <1>5
<1> HIDE DEF Upto
<1> QED BY <1>6, <1>7

\* EventDistribution.tsx 25-40: the sums over the entries of a distribution.
CountSum(dist, it) ==
  it = [s \in SUBSET (DOMAIN dist) |->
          IF s = {} THEN 0
          ELSE dist[CHOOSE x \in s : TRUE].count + it[s \ {CHOOSE x \in s : TRUE}]]

PctSum(dist, it) ==
  it = [s \in SUBSET (DOMAIN dist) |->
          IF s = {} THEN 0
          ELSE dist[CHOOSE x \in s : TRUE].pct + it[s \ {CHOOSE x \in s : TRUE}]]

\* What they add up.
Totals(dist, C, P) ==
  /\ C[{}] = 0 /\ P[{}] = 0
  /\ \A s \in SUBSET (DOMAIN dist) : s # {} =>
       \E x \in s : C[s] = dist[x].count + C[s \ {x}] /\ P[s] = dist[x].pct + P[s \ {x}]

LEMMA TotalsOf ==
  ASSUME NEW dist, IsFiniteSet(DOMAIN dist)
  PROVE  \E C, P :
           /\ Totals(dist, C, P)
           /\ MapThenSumSet(LAMBDA i : dist[i].count, DOMAIN dist) = C[DOMAIN dist]
           /\ MapThenSumSet(LAMBDA i : dist[i].pct, DOMAIN dist) = P[DOMAIN dist]
<1>1. PICK C : C = CHOOSE it : CountSum(dist, it) OBVIOUS
<1>2. PICK P : P = CHOOSE it : PctSum(dist, it) OBVIOUS
<1>3. CountSum(dist, C)
  <2>1. PICK v : v = [i \in DOMAIN dist |-> dist[i].count] OBVIOUS
  <2>2. PICK it : Added(v, SUBSET (DOMAIN dist), it) BY AddedExists
  <2> DEFINE Step(s) == v[CHOOSE x \in s : TRUE] + it[s \ {CHOOSE x \in s : TRUE}]
             Real(s) == dist[CHOOSE x \in s : TRUE].count + it[s \ {CHOOSE x \in s : TRUE}]
  <2>3. it = [s \in SUBSET (DOMAIN dist) |-> IF s = {} THEN 0 ELSE Step(s)] BY <2>2 DEF Added
  <2>4. ASSUME NEW s \in SUBSET (DOMAIN dist), s # {} PROVE Step(s) = Real(s)
    <3>1. PICK x \in s : x = CHOOSE y \in s : TRUE BY <2>4
    <3>2. v[x] = dist[x].count BY <2>1
    <3> QED BY <3>1, <3>2
  <2>5. it = [s \in SUBSET (DOMAIN dist) |-> IF s = {} THEN 0 ELSE Real(s)]
    <3> HIDE DEF Step, Real
    <3> QED BY <2>3, <2>4
  <2>6. CountSum(dist, it) BY <2>5 DEF CountSum
  <2> QED BY <1>1, <2>6
<1>4. PctSum(dist, P)
  <2>1. PICK v : v = [i \in DOMAIN dist |-> dist[i].pct] OBVIOUS
  <2>2. PICK it : Added(v, SUBSET (DOMAIN dist), it) BY AddedExists
  <2> DEFINE Step(s) == v[CHOOSE x \in s : TRUE] + it[s \ {CHOOSE x \in s : TRUE}]
             Real(s) == dist[CHOOSE x \in s : TRUE].pct + it[s \ {CHOOSE x \in s : TRUE}]
  <2>3. it = [s \in SUBSET (DOMAIN dist) |-> IF s = {} THEN 0 ELSE Step(s)] BY <2>2 DEF Added
  <2>4. ASSUME NEW s \in SUBSET (DOMAIN dist), s # {} PROVE Step(s) = Real(s)
    <3>1. PICK x \in s : x = CHOOSE y \in s : TRUE BY <2>4
    <3>2. v[x] = dist[x].pct BY <2>1
    <3> QED BY <3>1, <3>2
  <2>5. it = [s \in SUBSET (DOMAIN dist) |-> IF s = {} THEN 0 ELSE Real(s)]
    <3> HIDE DEF Step, Real
    <3> QED BY <2>3, <2>4
  <2>6. PctSum(dist, it) BY <2>5 DEF PctSum
  <2> QED BY <1>2, <2>6
<1>5. MapThenSumSet(LAMBDA i : dist[i].count, DOMAIN dist) = C[DOMAIN dist]
  BY <1>1 DEF MapThenSumSet, MapThenFoldSet, CountSum
<1>6. MapThenSumSet(LAMBDA i : dist[i].pct, DOMAIN dist) = P[DOMAIN dist]
  BY <1>2 DEF MapThenSumSet, MapThenFoldSet, PctSum
<1>7. Totals(dist, C, P)
  <2>1. {} \in SUBSET (DOMAIN dist) OBVIOUS
  <2>2. C[{}] = 0 BY <1>3, <2>1 DEF CountSum
  <2>3. P[{}] = 0 BY <1>4, <2>1 DEF PctSum
  <2>4. ASSUME NEW s \in SUBSET (DOMAIN dist), s # {}
        PROVE  \E x \in s : C[s] = dist[x].count + C[s \ {x}] /\ P[s] = dist[x].pct + P[s \ {x}]
    <3>1. PICK x \in s : x = CHOOSE y \in s : TRUE BY <2>4
    <3>2. C[s] = dist[x].count + C[s \ {x}] BY <1>3, <2>4, <3>1 DEF CountSum
    <3>3. P[s] = dist[x].pct + P[s \ {x}] BY <1>4, <2>4, <3>1 DEF PctSum
    <3> QED BY <3>2, <3>3
  <2> QED BY <2>2, <2>3, <2>4 DEF Totals
<1> HIDE DEF Totals
<1>8. PICK a : a = MapThenSumSet(LAMBDA i : dist[i].count, DOMAIN dist) OBVIOUS
<1>9. PICK b : b = MapThenSumSet(LAMBDA i : dist[i].pct, DOMAIN dist) OBVIOUS
<1>10. \E f, g : Totals(dist, f, g) /\ a = f[DOMAIN dist] /\ b = g[DOMAIN dist]
  BY <1>5, <1>6, <1>7, <1>8, <1>9
<1> QED BY <1>8, <1>9, <1>10

\* Math.round is off by half a point at most; n: the rows, c: those of one name.
LEMMA PercentFacts ==
  ASSUME NEW n \in Nat \ {0}, NEW c \in Nat
  PROVE  /\ Percent(c, n) \in Int
         /\ 2 * (n * Percent(c, n)) - 200 * c <= n
         /\ 200 * c - 2 * (n * Percent(c, n)) <= n
<1>1. PICK d \in Nat \ {0} : d = 2 * n OBVIOUS
<1>2. PICK x \in Nat : x = 200 * c + n OBVIOUS
<1>3. PICK p \in Int : p = x \div d BY <1>1, <1>2
<1>4. d * p <= x /\ x < d * (p + 1) BY <1>1, <1>2, <1>3
<1>5. Percent(c, n) = p BY <1>1, <1>2, <1>3 DEF Percent
<1>6. d * (p + 1) = d * p + d /\ d * p \in Int OBVIOUS
<1>7. n * p \in Int /\ d * p = 2 * (n * p) BY <1>1
<1> QED BY <1>1, <1>2, <1>4, <1>5, <1>6, <1>7

\* Rounded shares are off by half a point each at most.
LEMMA RoundingBound ==
  ASSUME NEW n \in Nat \ {0}, NEW dist, IsFiniteSet(DOMAIN dist), NEW C, NEW P,
         Totals(dist, C, P),
         \A i \in DOMAIN dist : dist[i].count \in Nat /\ dist[i].pct = Percent(dist[i].count, n)
  PROVE  LET D == DOMAIN dist
         IN  /\ P[D] \in Int /\ C[D] \in Int
             /\ 2 * (n * P[D]) - 200 * C[D] <= n * Cardinality(D)
             /\ 200 * C[D] - 2 * (n * P[D]) <= n * Cardinality(D)
<1> DEFINE D == DOMAIN dist
           Near(s, k) == /\ P[s] \in Int /\ C[s] \in Int
                         /\ 2 * (n * P[s]) - 200 * C[s] <= n * k
                         /\ 200 * C[s] - 2 * (n * P[s]) <= n * k
           S == {k \in Nat : \A s \in SUBSET D : Cardinality(s) = k => Near(s, k)}
<1>1. \A s \in SUBSET D : IsFiniteSet(s) /\ Cardinality(s) \in Nat BY FS_Subset, FS_CardinalityType
<1>2. 0 \in S
  <2>1. ASSUME NEW s \in SUBSET D, Cardinality(s) = 0 PROVE Near(s, 0)
    <3>1. s = {} BY <1>1, <2>1, FS_EmptySet
    <3>2. C[s] = 0 /\ P[s] = 0 BY <3>1 DEF Totals
    <3>3. n * 0 = 0 OBVIOUS
    <3> QED BY <3>2, <3>3
  <2> QED BY <2>1
<1>3. PICK N \in Nat : N = Cardinality(D) BY <1>1
<1>4. ASSUME NEW k \in 0 .. N - 1, k \in S PROVE k + 1 \in S
  <2>1. ASSUME NEW s \in SUBSET D, Cardinality(s) = k + 1 PROVE Near(s, k + 1)
    <3>0. k \in Nat /\ k + 1 \in Nat /\ k + 1 # 0 /\ (k + 1) - 1 = k OBVIOUS
    <3>1. s # {} BY <2>1, <3>0, FS_EmptySet
    <3>2. PICK x \in s : C[s] = dist[x].count + C[s \ {x}] /\ P[s] = dist[x].pct + P[s \ {x}]
      BY <3>1 DEF Totals
    <3>3. PICK t : t = s \ {x} OBVIOUS
    <3>4. t \in SUBSET D /\ Cardinality(t) = k
      <4>1. Cardinality(t) = Cardinality(s) - 1 BY <1>1, <3>3, FS_RemoveElement
      <4> QED BY <2>1, <3>0, <3>3, <4>1
    <3>5. Near(t, k) BY <1>4, <3>4
    <3>6. PICK c \in Nat : c = dist[x].count OBVIOUS
    <3>7. PICK p \in Int : p = dist[x].pct /\ 2 * (n * p) - 200 * c <= n
                           /\ 200 * c - 2 * (n * p) <= n
      <4>1. dist[x].pct = Percent(c, n) BY <3>6
      <4>2. /\ Percent(c, n) \in Int /\ 2 * (n * Percent(c, n)) - 200 * c <= n
            /\ 200 * c - 2 * (n * Percent(c, n)) <= n
        BY PercentFacts
      <4>3. PICK p : p = Percent(c, n) OBVIOUS
      <4> QED BY <4>1, <4>2, <4>3
    <3>8. PICK a \in Int : a = C[t] BY <3>5
    <3>9. PICK b \in Int : b = P[t] BY <3>5
    <3>10. 2 * (n * b) - 200 * a <= n * k /\ 200 * a - 2 * (n * b) <= n * k BY <3>5, <3>8, <3>9
    <3>11. C[s] = c + a /\ P[s] = p + b BY <3>2, <3>3, <3>6, <3>7, <3>8, <3>9
    <3>12. n * (p + b) = n * p + n * b /\ n * (k + 1) = n * k + n BY <3>0
    <3>13. n * p \in Int /\ n * b \in Int /\ n * k \in Int BY <3>0
    <3>14. /\ 2 * (n * (p + b)) - 200 * (c + a) <= n * (k + 1)
           /\ 200 * (c + a) - 2 * (n * (p + b)) <= n * (k + 1)
      BY <3>7, <3>10, <3>12, <3>13
    <3> QED BY <3>11, <3>14
  <2> QED BY <2>1
<1>5. N \in S
  <2>1. 0 \in Nat /\ N \in 0 .. N OBVIOUS
  <2> HIDE DEF S
  <2> QED BY <1>2, <1>4, <2>1, CountUp
<1>6. Near(D, N) BY <1>3, <1>5
<1> QED BY <1>3, <1>6

LEMMA SharesOfRows ==
  ASSUME NEW rows, IsRows(rows)
  PROVE  SharesOf(ComputeDistribution(rows), Len(rows))
<1>1. PICK n \in Nat : n = Len(rows) /\ DOMAIN rows = 1 .. n BY DEF IsRows
<1>2. PICK names : names = [i \in Rows(rows) |-> rows[i].name] OBVIOUS
<1>3. DOMAIN names = 1 .. n BY <1>1, <1>2 DEF Rows
<1>4. PICK K : K = Range(names) OBVIOUS
<1>5. PICK rank : rank = Ranked(names, K) OBVIOUS
<1>6. PICK N \in Nat : N = Cardinality(K) BY <1>3, <1>4, RankedFacts
<1>7. /\ rank \in [1 .. N -> K] /\ \A x \in K : \E i \in 1 .. N : rank[i] = x
      /\ \A i, j \in 1 .. N : i < j =>
           rank[i] # rank[j] /\ Count(names, rank[i]) >= Count(names, rank[j])
  BY <1>3, <1>4, <1>5, <1>6, RankedFacts
<1>8. PICK dist : dist = ComputeDistribution(rows) OBVIOUS
<1>9. dist = [i \in 1 .. N |-> [name |-> rank[i], count |-> Tally(names)[rank[i]],
                                pct |-> Percent(Tally(names)[rank[i]], n)]]
  <2>1. dist = [i \in DOMAIN Ranked(names, Range(names)) |->
                  [name |-> Ranked(names, Range(names))[i],
                   count |-> Tally(names)[Ranked(names, Range(names))[i]],
                   pct |-> Percent(Tally(names)[Ranked(names, Range(names))[i]], Len(rows))]]
    BY <1>2, <1>8 DEF ComputeDistribution
  <2>2. dist = [i \in DOMAIN rank |-> [name |-> rank[i], count |-> Tally(names)[rank[i]],
                                       pct |-> Percent(Tally(names)[rank[i]], n)]]
    BY <1>1, <1>4, <1>5, <2>1
  <2>3. DOMAIN rank = 1 .. N BY <1>7
  <2> QED BY <2>2, <2>3
<1>10. \A i \in 1 .. N : Tally(names)[rank[i]] = Count(names, rank[i]) /\ Count(names, rank[i]) \in Nat
  BY <1>3, <1>4, <1>7, CountFacts
<1>11. /\ DOMAIN dist = 1 .. N
       /\ \A i \in 1 .. N : /\ dist[i].count = Count(names, rank[i]) /\ dist[i].count \in Nat
                            /\ dist[i].pct = Percent(dist[i].count, n)
  BY <1>9, <1>10
<1>12. dist \in Seq(Range(dist)) /\ Len(dist) = N
  <2>1. \A i \in 1 .. N : dist[i] \in Range(dist) BY <1>11 DEF Range
  <2>2. dist = [i \in 1 .. N |-> dist[i]] BY <1>9
  <2> QED BY <2>1, <2>2
<1>13. PICK D : D = DOMAIN dist OBVIOUS
<1>14. IsFiniteSet(D) /\ Cardinality(D) = N
  <2>1. 1 \in Int /\ N \in Int /\ (1 > N <=> N = 0) /\ N - 1 + 1 = N OBVIOUS
  <2> QED BY <1>11, <1>13, <2>1, FS_Interval
<1>15. PICK C, P : /\ Totals(dist, C, P)
                   /\ MapThenSumSet(LAMBDA i : dist[i].count, DOMAIN dist) = C[D]
                   /\ MapThenSumSet(LAMBDA i : dist[i].pct, DOMAIN dist) = P[D]
  BY <1>13, <1>14, TotalsOf
<1>16. C[D] = n
  <2>1. \A k \in 1 .. n : \E i \in 1 .. N : rank[i] = names[k] BY <1>3, <1>4, <1>7 DEF Range
  <2>2. PICK seen : seen = [k \in 1 .. n |-> CHOOSE i \in 1 .. N : rank[i] = names[k]] OBVIOUS
  <2>3. DOMAIN seen = 1 .. n /\ \A k \in 1 .. n : seen[k] \in 1 .. N /\ rank[seen[k]] = names[k]
    BY <2>1, <2>2
  <2>4. \A i, j \in 1 .. N : rank[i] = rank[j] => i = j
    <3>1. SUFFICES ASSUME NEW i \in 1 .. N, NEW j \in 1 .. N, rank[i] = rank[j], i # j
                   PROVE  FALSE
      OBVIOUS
    <3>2. i < j \/ j < i BY <3>1
    <3> QED BY <1>7, <3>1, <3>2
  <2>5. PICK size : size = [i \in D |-> dist[i].count] OBVIOUS
  <2>6. Sizes(size, seen, D)
    <3>1. ASSUME NEW i \in D PROVE size[i] = Cardinality({k \in DOMAIN seen : seen[k] = i})
      <4>1. i \in 1 .. N BY <1>11, <1>13
      <4>2. {k \in DOMAIN seen : seen[k] = i} = {k \in DOMAIN names : names[k] = rank[i]}
        BY <1>3, <2>3, <2>4, <4>1
      <4>3. size[i] = Count(names, rank[i]) BY <1>11, <2>5, <4>1
      <4> QED BY <4>2, <4>3 DEF Count
    <3> QED BY <3>1 DEF Sizes
  <2>7. Adds(C, size, D)
    <3>1. C[{}] = 0 BY <1>15 DEF Totals
    <3>2. ASSUME NEW s \in SUBSET D, s # {} PROVE \E x \in s : C[s] = size[x] + C[s \ {x}]
      <4>1. PICK x \in s : C[s] = dist[x].count + C[s \ {x}] BY <1>13, <1>15, <3>2 DEF Totals
      <4>2. size[x] = dist[x].count BY <2>5
      <4> QED BY <4>1, <4>2
    <3> QED BY <3>1, <3>2 DEF Adds
  <2>8. IsFiniteSet(DOMAIN seen) /\ Cardinality(DOMAIN seen) = n BY <1>3, <2>3, CountFacts
  <2>9. C[D] = Cardinality({k \in DOMAIN seen : seen[k] \in D})
    BY <1>14, <2>6, <2>7, <2>8, SumIsCount
  <2>10. {k \in DOMAIN seen : seen[k] \in D} = DOMAIN seen BY <1>11, <1>13, <2>3
  <2> QED BY <2>8, <2>9, <2>10
<1>17. \A i, j \in D : i < j => dist[i].count >= dist[j].count BY <1>7, <1>11, <1>13
<1>18. ASSUME n # 0 PROVE 2 * (P[D] - 100) <= N /\ -2 * (P[D] - 100) <= N
  <2>1. PICK m \in Nat \ {0} : m = n BY <1>18
  <2>2. \A i \in DOMAIN dist : dist[i].count \in Nat /\ dist[i].pct = Percent(dist[i].count, m)
    BY <1>11, <2>1
  <2>3. /\ P[D] \in Int /\ 2 * (m * P[D]) - 200 * C[D] <= m * N
        /\ 200 * C[D] - 2 * (m * P[D]) <= m * N
    BY <1>13, <1>14, <1>15, <2>2, RoundingBound
  <2>4. PICK p \in Int : p = P[D] BY <2>3
  <2>5. 2 * (m * p) - 200 * m <= m * N /\ 200 * m - 2 * (m * p) <= m * N
    BY <1>16, <2>1, <2>3, <2>4
  <2>6. PICK e \in Int : e = 2 * (p - 100) OBVIOUS
  <2>7. m * e = 2 * (m * p) - 200 * m /\ m * (0 - e) = 200 * m - 2 * (m * p) BY <2>6
  <2>8. m * e <= m * N /\ m * (0 - e) <= m * N BY <2>5, <2>7
  <2>9. ASSUME NEW a \in Int, m * a <= m * N PROVE a <= N
    <3>1. SUFFICES ASSUME a >= N + 1 PROVE FALSE OBVIOUS
    <3>2. m * a >= m * (N + 1) BY <3>1
    <3>3. m * (N + 1) = m * N + m /\ m * N \in Int /\ m * a \in Int OBVIOUS
    <3> QED BY <2>9, <3>2, <3>3
  <2>10. e <= N /\ 0 - e <= N BY <2>8, <2>9
  <2> QED BY <2>4, <2>6, <2>10
<1>19. PICK a : a = MapThenSumSet(LAMBDA i : dist[i].count, DOMAIN dist) OBVIOUS
<1>20. PICK b : b = MapThenSumSet(LAMBDA i : dist[i].pct, DOMAIN dist) OBVIOUS
<1>21. a = n /\ b = P[D] BY <1>15, <1>16, <1>19, <1>20
<1>22. SharesOf(dist, n)
  <2>1. n # 0 => 2 * (b - 100) <= Len(dist) /\ -2 * (b - 100) <= Len(dist)
    BY <1>12, <1>18, <1>21
  <2>2. \A i, j \in DOMAIN dist : i < j => dist[i].count >= dist[j].count BY <1>13, <1>17
  <2> QED BY <1>19, <1>20, <1>21, <2>1, <2>2 DEF SharesOf
<1> QED BY <1>1, <1>8, <1>22

LEMMA ViewsOfTable ==
  ASSUME NEW l, IsRows(l)
  PROVE  ListViewsOf(l)
<1>1. PICK rows : rows = ListRows(l, 0, SampleLimit) OBVIOUS
<1>2. IsRows(rows) BY <1>1, ListedRows
<1>3. /\ SharesOf(ComputeDistribution(rows), Len(rows))
      /\ BarsOf(BucketEvents(rows), rows) /\ TopOf(TopUsers(rows), rows)
  BY <1>2, SharesOfRows, BarsOfRows, TopOfRows
<1> QED BY <1>1, <1>3 DEF ListViewsOf

\* ActivityTimeline.tsx 27-53, EventDistribution.tsx 25-40, UserActivity.tsx
\* 29-39, StatsPanel.tsx 37-41: for every table, the distribution covers all
\* rows and its percentages are off by half a point each at most, a bucket
\* counts the rows between its start and the next one's, and nobody left out of
\* the top users has more rows than one of them.
THEOREM ViewsAgree == Spec => []ListViewsAgree
<1>1. ASSUME NEW l \in Tables PROVE IsRows(l)
  <2>1. IsTable(l) BY TablesAreTables
  <2>2. PICK n \in 0 .. SampleSize : l \in [1 .. n -> SampleRows] BY DEF Tables
  <2>3. n \in Nat /\ l = [k \in 1 .. n |-> l[k]] /\ \A k \in 1 .. n : l[k] \in Range(l)
    BY <2>2, ChartsAssumption DEF Range
  <2>4. l \in Seq(Range(l)) BY <2>3
  <2> QED BY <2>1, <2>4 DEF IsRows
<1>2. SampleListViews BY <1>1, ViewsOfTable DEF SampleListViews
<1>3. ASSUME AInv PROVE ListViewsAgree
  <2>1. PICK l : l = table OBVIOUS
  <2>2. IsTable(l) BY <1>3, <2>1, TablesAreTables
  <2>3. l \in Seq(EventRows) BY <1>3, <2>1 DEF AInv, TypeInv
  <2>4. l \in Seq(Range(l))
    <3>1. \A k \in 1 .. Len(l) : l[k] \in Range(l) BY <2>3 DEF Range
    <3>2. Len(l) \in Nat /\ l = [k \in 1 .. Len(l) |-> l[k]] BY <2>3
    <3> QED BY <3>1, <3>2
  <2>5. ListViewsOf(l) BY <2>2, <2>4, ViewsOfTable DEF IsRows
  <2> QED BY <1>2, <2>1, <2>5 DEF ListViewsAgree
<1> QED BY <1>3, Invariance, PTL

=============================================================================
