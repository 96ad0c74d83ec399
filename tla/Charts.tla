------------------------------- MODULE Charts -------------------------------
(***************************************************************************)
(* What the cards of the dashboard compute: the queries behind the         *)
(* analytics endpoints (internal/analytics) and the views that the browser *)
(* derives from their answers.                                             *)
(*                                                                         *)
(* The events table is the sequence l of its rows in the order of their    *)
(* ids; a row is [name, user, at], with its timestamp as a positive number *)
(* of time units.                                                          *)
(***************************************************************************)
EXTENDS Integers, FiniteSets, Sequences, SequencesExt, FiniteSetsExt, Functions

CONSTANTS Users,          \* the user ids
          Anonymous,      \* user_id is null
          Now,            \* Date.now()
          BucketCount,    \* BUCKET_COUNT: 12
          BucketSize,     \* BUCKET_MINUTES: 5
          TopCount,       \* the users that UserActivity offers: 6
          Steps,          \* DEMO_STEPS
          Window,         \* DEMO_WINDOW: 7 days
          DayLength,      \* a day
          Cohorts,        \* DEMO_COHORTS: 8
          SampleRows,     \* bound: the rows of the tables that are tried
          SampleSize,     \* bound: and their number
          SampleLimit     \* limit of listEvents

ASSUME ChartsAssumption ==
  /\ Anonymous \notin Users /\ IsFiniteSet(Users)
  /\ {Now, BucketCount, BucketSize, TopCount, Window, DayLength, Cohorts,
      SampleLimit} \subseteq Nat \ {0}
  /\ Steps \in Seq(Range(Steps)) /\ Len(Steps) >= 2 /\ BucketCount * BucketSize <= Now
  /\ SampleSize \in Nat
  /\ \A e \in SampleRows : e.user \in Users \cup {Anonymous} /\ e.at \in Nat \ {0}

Rows(l) == DOMAIN l

\* ORDER BY, Array.sort: the elements of S, each after those that R puts before
\* it.
Sorted(S, R) ==
  [k \in 1 .. Cardinality(S) |->
     CHOOSE x \in S : Cardinality({y \in S : <<y, x>> \in R}) = k - 1]

-----------------------------------------------------------------------------
\* Server: ListEvents of events at or after from, newest first.
ListRows(l, from, limit) ==
  LET S == {i \in Rows(l) : l[i].at >= from}
      Newer == {p \in S \X S : \/ l[p[1]].at > l[p[2]].at
                               \/ l[p[1]].at = l[p[2]].at /\ p[1] > p[2]}
      ids == SubSeq(Sorted(S, Newer), 1, Min({limit, Cardinality(S)}))
  IN  [k \in DOMAIN ids |-> l[ids[k]]]

\* UserEvents: the rows of one user.
UserRows(l, u, limit) == ListRows(SelectSeq(l, LAMBDA e : e.user = u), 0, limit)

-----------------------------------------------------------------------------
\* The views of a list of rows.

\* counts[key] = (counts[key] ?? 0) + 1 for every one of keys.
Tally(keys) == [k \in Range(keys) |-> Cardinality({i \in DOMAIN keys : keys[i] = k})]

\* Object.entries(counts).sort, for the keys in K: by count, the first seen
\* first.
Ranked(keys, K) ==
  LET count == Tally(keys)
      First(k) == Min({i \in DOMAIN keys : keys[i] = k})
  IN  Sorted(K, {p \in K \X K : \/ count[p[1]] > count[p[2]]
                                \/ count[p[1]] = count[p[2]] /\ First(p[1]) < First(p[2])})

\* Math.round(n / d * 100).
Percent(n, d) == (200 * n + d) \div (2 * d)

\* EventDistribution.
ComputeDistribution(rows) ==
  LET names == [i \in Rows(rows) |-> rows[i].name]
      count == Tally(names)
      rank  == Ranked(names, Range(names))
  IN  [i \in DOMAIN rank |-> [name |-> rank[i], count |-> count[rank[i]],
                              pct |-> Percent(count[rank[i]], Len(rows))]]

\* UserActivity: the users with the most rows.
TopUsers(rows) ==
  LET users == [i \in Rows(rows) |-> rows[i].user]
      rank  == Ranked(users, Range(users) \ {Anonymous})
  IN  SubSeq(rank, 1, Min({TopCount, Len(rank)}))

\* StatsPanel.
UniqueUsers(rows) == Cardinality({rows[i].user : i \in Rows(rows)} \ {Anonymous})

\* buildBuckets: where bucket i, of 1 .. BucketCount, starts.
StartOf(i) == Now - (BucketCount - i + 1) * BucketSize

\* A wrong Index, for the mutants: the future has a bucket of its own.
IndexUncapped(at) == (at - StartOf(1)) \div BucketSize + 1

\* The bucket of a timestamp; what is in the future goes into the last one.
Index(at) == Min({BucketCount, (at - StartOf(1)) \div BucketSize + 1})

\* ActivityTimeline.
BucketEvents(rows) ==
  [i \in 1 .. BucketCount |->
     Cardinality({k \in Rows(rows) : rows[k].at >= StartOf(1) /\ Index(rows[k].at) = i})]

-----------------------------------------------------------------------------
\* Server: the funnel.

\* A wrong Follows, for the mutants: a step may be taken at the time of the last.
FollowsAtOnce(at, ts) == at >= ts /\ at <= ts + Window

\* The join condition between a step and the next.
Follows(at, ts) == at > ts /\ at <= ts + Window

\* step_i: when each user has taken the step first, 0 for never.
StepTimes(l) ==
  LET TimesOf(u, i) == {l[k].at : k \in {k \in Rows(l) : l[k].user = u /\ l[k].name = Steps[i]}}
      First(T) == IF T = {} THEN 0 ELSE Min(T)
      f[i \in DOMAIN Steps] ==
        [u \in Users |->
           IF i = 1 THEN First(TimesOf(u, 1))
           ELSE LET ts == f[i - 1][u]
                IN  IF ts = 0 THEN 0 ELSE First({t \in TimesOf(u, i) : Follows(t, ts)})]
  IN  f

\* Funnel: entered and dropped; the rates are their quotients.
Funnel(l) ==
  LET ts == StepTimes(l)
      entered == [i \in DOMAIN Steps |-> Cardinality({u \in Users : ts[i][u] # 0})]
  IN  [i \in DOMAIN Steps |->
         [entered |-> entered[i],
          dropped |-> IF i < Len(Steps) THEN entered[i] - entered[i + 1] ELSE 0]]

\* FunnelChart: the bar of a step.
WidthPct(funnel, i) ==
  LET maxEntered == funnel[1].entered
  IN  IF maxEntered > 0 THEN (funnel[i].entered * 100) \div maxEntered ELSE 0

-----------------------------------------------------------------------------
\* Server: retention, from daily_active_users.
Day(at) == at \div DayLength

\* The UTC date of the Go process, which bounds the cohorts, and CURRENT_DATE of
\* PostgreSQL, which bounds the offsets: one clock here.
Today == Day(Now)
StartDate == Today - (Cohorts - 1)

ActiveDays(l, u) == {Day(l[k].at) : k \in {k \in Rows(l) : l[k].user = u}}

\* first_seen: the cohort of each user that was active since StartDate.
FirstSeen(l) ==
  LET since == [u \in Users |-> {d \in ActiveDays(l, u) : d >= StartDate}]
  IN  [u \in {u \in Users : since[u] # {}} |-> Min(since[u])]

\* retention_counts joined with cohort_sizes: a row per cohort with a bucket
\* per offset at which somebody returned.
Retention(l) ==
  LET seen == FirstSeen(l)
      Members(c) == {u \in DOMAIN seen : seen[u] = c}
      Offsets(c) == {d - c : d \in {d \in UNION {ActiveDays(l, u) : u \in Members(c)} :
                                      d >= c /\ d <= Today}}
  IN  [c \in {c \in Range(seen) : Offsets(c) # {}} |->
         [size |-> Cardinality(Members(c)),
          buckets |-> [o \in Offsets(c) |->
                         Cardinality({u \in Members(c) : c + o \in ActiveDays(l, u)})]]]

\* A wrong Columns, for the mutants: off by one.
ColumnsTooFew(retention) ==
  0 .. Max({0} \cup UNION {DOMAIN retention[c].buckets : c \in DOMAIN retention}) - 1

\* RetentionGrid: columns, up to maxOffset.
Columns(retention) ==
  0 .. Max({0} \cup UNION {DOMAIN retention[c].buckets : c \in DOMAIN retention})

\* RetentionGrid: the cells that are coloured.
Grid(retention) ==
  {cell \in (DOMAIN retention) \X Columns(retention) :
     cell[2] \in DOMAIN retention[cell[1]].buckets}

-----------------------------------------------------------------------------
\* What the algorithms above are meant to compute.

\* The tables they are tried on.
Tables == UNION {[1 .. n -> SampleRows] : n \in 0 .. SampleSize}

\* The entries of a distribution of n rows.
SharesOf(dist, n) ==
  LET off == MapThenSumSet(LAMBDA i : dist[i].pct, DOMAIN dist) - 100
  IN  /\ MapThenSumSet(LAMBDA i : dist[i].count, DOMAIN dist) = n
      /\ \A i, j \in DOMAIN dist : i < j => dist[i].count >= dist[j].count
      /\ n # 0 => 2 * off <= Len(dist) /\ -2 * off <= Len(dist)

\* The bars of a timeline of rows.
BarsOf(bars, rows) ==
  \A i \in DOMAIN bars :
    bars[i] = Cardinality({k \in DOMAIN rows :
                /\ StartOf(i) <= rows[k].at
                /\ i = BucketCount \/ rows[k].at < StartOf(i + 1)})

\* The top users of rows.
TopOf(top, rows) ==
  LET Of(u) == Cardinality({i \in DOMAIN rows : rows[i].user = u})
  IN  /\ \A u \in Users \ Range(top) : \A v \in Range(top) : Of(u) <= Of(v)
      /\ Len(top) = Min({TopCount, UniqueUsers(rows)})

\* The views of a list.
ListViewsOf(l) ==
  LET rows == ListRows(l, 0, SampleLimit)
  IN  /\ SharesOf(ComputeDistribution(rows), Len(rows))
      /\ BarsOf(BucketEvents(rows), rows)
      /\ TopOf(TopUsers(rows), rows)

\* A way through the first n steps, each within Window of the one before.
Chain(l, u, n) ==
  \E path \in [1 .. n -> DOMAIN l] :
    /\ \A i \in 1 .. n : l[path[i]].user = u /\ l[path[i]].name = Steps[i]
    /\ \A i \in 1 .. n - 1 : /\ l[path[i]].at < l[path[i + 1]].at
                             /\ l[path[i + 1]].at - l[path[i]].at <= Window

\* The funnel against the paths of its users.
FunnelOf(l) ==
  LET ts == StepTimes(l)
      funnel == Funnel(l)
      Within(u) == \A i, j \in DOMAIN l : l[i].user = u /\ l[j].user = u
                                             => l[i].at - l[j].at <= Window
  IN  /\ \A u \in Users, i \in DOMAIN Steps :
           /\ ts[i][u] # 0 => Chain(l, u, i)
           /\ Chain(l, u, i) /\ Within(u) => ts[i][u] # 0
      /\ \A i \in DOMAIN Steps : funnel[i].dropped >= 0 /\ WidthPct(funnel, i) <= 100

\* The retention grid against the users that were active.
RetentionOf(l) ==
  LET retention == Retention(l)
      active == {u \in Users : \E d \in ActiveDays(l, u) : StartDate <= d /\ d <= Today}
  IN  /\ MapThenSumSet(LAMBDA c : retention[c].size, DOMAIN retention) = Cardinality(active)
      /\ \A c \in DOMAIN retention :
           /\ retention[c].buckets[0] = retention[c].size
           /\ \A o \in DOMAIN retention[c].buckets :
                /\ retention[c].buckets[o] <= retention[c].size
                /\ <<c, o>> \in Grid(retention) /\ c + o <= Today

SampleListViews == \A l \in Tables : ListViewsOf(l)
SampleFunnels == \A l \in Tables : FunnelOf(l)
SampleRetentions == \A l \in Tables : RetentionOf(l)

=============================================================================
