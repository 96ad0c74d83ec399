------------------------------ MODULE Analytics -----------------------------
(***************************************************************************)
(* The "Analytics" tab: cards that poll (module Polling) and draw what     *)
(* they got (module Charts), the refresh button of FunnelChart and         *)
(* RetentionGrid, and UserActivity, which reads the events of the user     *)
(* that is clicked on.                                                     *)
(*                                                                         *)
(* The events table only grows, so an answer of the API is the number of   *)
(* rows that it was computed from.                                         *)
(***************************************************************************)
EXTENDS Polling, Charts

CONSTANTS EventRows,      \* the events that are ingested
          MaxRows,        \* bound: rows of the events table
          MaxRequests,    \* bound: requests of UserActivity in flight
          ListLimit,      \* limit of listEvents
          Refreshable,    \* the resources with a refresh button
          NoUser          \* null

ASSUME AnalyticsAssumption ==
  /\ "feed" \in Resources /\ Refreshable \subseteq Resources
  /\ {MaxRows, MaxRequests, ListLimit} \subseteq Nat \ {0}
  /\ NoUser \notin Users \cup {Anonymous}
  /\ \A e \in EventRows : e.user \in Users \cup {Anonymous} /\ e.at \in Nat \ {0}

VARIABLES table,          \* the rows of the events table
          shown,          \* the tab is mounted
          selected,       \* selectedUser
          listed,         \* whose rows userEvents holds; NoUser when it is empty
          loading,        \* loading
          requests,       \* what handleSelectUser awaits
          asked,          \* history: rows when the effect of a resource was last started
          overlapped,     \* history: polls of a resource were in flight together
          raced           \* history: so were requests of UserActivity

activityVars == <<selected, listed, loading, requests, raced>>
pollHistory == <<asked, overlapped>>
vars == <<pollingVars, table, shown, activityVars, pollHistory>>

Version == Len(table)

\* What a card draws from.
Drawn(r) == IF res[r].data = NoData THEN <<>>
            ELSE ListRows(SubSeq(table, 1, res[r].data), 0, ListLimit)

Init == /\ PollingInit
        /\ table = <<>> /\ shown = FALSE
        /\ selected = NoUser /\ listed = NoUser /\ loading = FALSE
        /\ requests = <<>> /\ raced = FALSE
        /\ asked = [r \in Resources |-> 0]
        /\ overlapped = [r \in Resources |-> FALSE]

-----------------------------------------------------------------------------
Ingest(e) == /\ Version < MaxRows
             /\ table' = Append(table, e)
             /\ UNCHANGED <<pollingVars, shown, activityVars, pollHistory>>

\* The tab is mounted or unmounted.  Polls are cancelled; an answer to
\* handleSelectUser of a component that is gone has no effect.
Switch == /\ shown' = ~shown
          /\ res' = [r \in Resources |-> IF shown THEN Fresh ELSE Mounted({})]
          /\ selected' = NoUser /\ listed' = NoUser /\ loading' = FALSE
          /\ requests' = <<>> /\ raced' = FALSE
          /\ asked' = [r \in Resources |-> Version]
          /\ overlapped' = [r \in Resources |-> FALSE]
          /\ UNCHANGED <<online, up, table>>

ChartTick(r) == /\ shown
                /\ Tick(r, {})
                /\ overlapped' = [overlapped EXCEPT ![r] = @ \/ res[r].flights # <<>>]
                /\ UNCHANGED <<table, shown, activityVars, asked>>

\* What FunnelChart and RetentionGrid show.
Body(r) == CASE res[r].status = "idle" -> "loading"
             [] res[r].status = "error" /\ res[r].data = NoData -> "unable to load"
             [] res[r].data # NoData /\ Drawn(r) = <<>> -> "no data yet"
             [] res[r].data # NoData /\ Drawn(r) # <<>> -> "chart"

\* The refresh button, disabled while isLoading.
Refresh(r) == /\ shown /\ Body(r) # "loading"
              /\ Refetch(r, {})
              /\ asked' = [asked EXCEPT ![r] = Version]
              /\ overlapped' = [overlapped EXCEPT ![r] = FALSE]
              /\ UNCHANGED <<table, shown, activityVars>>

ChartServe(r) == /\ \E i \in DOMAIN res[r].flights : Serve(r, i, Version)
                 /\ UNCHANGED <<table, shown, activityVars, pollHistory>>

ChartLand(r) ==
  /\ \E i \in DOMAIN res[r].flights : Land(r, i)
  /\ overlapped' = [overlapped EXCEPT ![r] = @ /\ Len(res[r].flights) > 1]
  /\ UNCHANGED <<table, shown, activityVars, asked>>

ChartWeather == Weather /\ UNCHANGED <<table, shown, activityVars, pollHistory>>

-----------------------------------------------------------------------------
\* UserActivity.

\* handleSelectUser(u) for the button of one of topUsers, up to its await.
HandleSelectUser(u) ==
  /\ shown /\ u \in Range(TopUsers(Drawn("feed")))
  /\ IF selected = u
     THEN /\ selected' = NoUser /\ listed' = NoUser
          /\ UNCHANGED <<loading, requests>>
     ELSE /\ Len(requests) < MaxRequests
          /\ selected' = u /\ loading' = TRUE
          /\ requests' = Append(requests, u)
          /\ UNCHANGED listed
  /\ raced' = (requests # <<>>)
  /\ UNCHANGED <<pollingVars, table, shown, pollHistory>>

\* A wrong Listed, for the mutants: a failure leaves the old rows.
ListedStays(u) == IF ~up THEN listed
                  ELSE IF UserRows(table, u, ListLimit) = <<>> THEN NoUser ELSE u

\* What setUserEvents is called with.
Listed(u) == IF ~up \/ UserRows(table, u, ListLimit) = <<>> THEN NoUser ELSE u

\* The rest of it, when listUserEvents has answered or failed.
SelectAnswer == \E i \in DOMAIN requests :
  /\ listed' = Listed(requests[i])
  /\ loading' = FALSE
  /\ requests' = RemoveAt(requests, i)
  /\ UNCHANGED <<pollingVars, table, shown, selected, raced, pollHistory>>

\* What is shown below the buttons of the users.
Listing == IF selected = NoUser THEN "nothing"
           ELSE IF loading THEN "loading"
           ELSE IF listed = NoUser THEN "no events found" ELSE "events"

-----------------------------------------------------------------------------
Next == \/ \E e \in EventRows : Ingest(e)
        \/ Switch \/ ChartWeather
        \/ \E r \in Resources : ChartTick(r) \/ ChartServe(r) \/ ChartLand(r)
        \/ \E r \in Refreshable : Refresh(r)
        \/ \E u \in Users : HandleSelectUser(u)
        \/ SelectAnswer

Spec == Init /\ [][Next]_vars

-----------------------------------------------------------------------------
\* usePolledResource.ts 27-63: a card goes back in time only when polls of one
\* effect overlap and answer out of order.  Even then, it is never given rows
\* older than the last click on Refresh, or the opening of the tab, whatever
\* polls were under way.
ForwardUnlessOverlapped ==
  [][\A r \in Resources : res'[r].data # res[r].data /\ res'[r].data # NoData =>
       /\ res'[r].data >= asked[r]
       /\ res[r].data # NoData /\ ~overlapped[r] => res'[r].data > res[r].data]_vars

\* UserActivity.tsx 41-57: under the name of a user there are never the rows of
\* another, unless a click was made while a request was under way; and
\* "Loading..." ends with the requests.
ListedIsSelected ==
  /\ Listing = "events" /\ ~raced => listed = selected
  /\ loading => requests # <<>>

\* ActivityTimeline.tsx 27-53, EventDistribution.tsx 25-40, UserActivity.tsx
\* 29-39, StatsPanel.tsx 37-41: the views lose no row and count none twice.
\*  - The distribution covers all rows, largest share first, and its rounded
\*    percentages add up to 100 but for half a point each.
\*  - A bucket counts the rows between its start and that of the next one,
\*    the last one all later rows.
\*  - Nobody who is left out of the top users has more rows than one of them.
ListViewsAgree == SampleListViews /\ ListViewsOf(table)

\* internal/analytics/funnel.go 68-154: whoever is counted at a step has taken
\* the steps before it in order and in time; whoever has is counted if all
\* that the user did lies within one window; bars never grow.
FunnelIsSound == SampleFunnels /\ FunnelOf(table)

\* internal/analytics/retention.go 43-137 and RetentionGrid.tsx 42-45, 131-140:
\* every user who was active since the start date is in one cohort, a cohort
\* is complete on its first day and never exceeded, and each count of the
\* answer has a cell in the grid, none after today.
RetentionIsComplete == SampleRetentions /\ RetentionOf(table)

=============================================================================
