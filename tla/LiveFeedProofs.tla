--------------------------- MODULE LiveFeedProofs ---------------------------
(***************************************************************************)
(* Proofs about what is on screen in the "Send & Monitor" tab, for every   *)
(* number of events, filters and polls and every size of the buffers.      *)
(***************************************************************************)
EXTENDS LiveFeed, FiniteSetTheorems, SequenceTheorems, WellFoundedInduction, TLAPS

\* Lists of events without repetition.
Lists == {s \in Seq(Events) : IsInjective(s)}

Flight == {f \in [at : {"asked", "ok", "failed"}, ask : SUBSET Events, got : Lists \cup {NoData}] :
             f.at = "ok" => f.got \in Lists}

Resource == [data : Lists \cup {NoData}, status : {"idle", "ok", "error"}, flights : Seq(Flight)]

TypeInv == /\ res \in [Resources -> Resource]
           /\ stored \in SUBSET Events /\ filter \in Matching
           /\ chan \in Seq(Events)

\* The buffer has no event twice; until it is full, what the browser should
\* have is in it or on its way.
BufferInv == /\ buffer \in Lists /\ Len(buffer) <= MaxBuffer
             /\ Len(buffer) < MaxBuffer => owed \subseteq Range(buffer) \cup Range(chan)

FeedInv == TypeInv /\ BufferInv

-----------------------------------------------------------------------------
\* Induction, for sets of numbers.
LEMMA LeastNumber ==
  ASSUME NEW S \in SUBSET Nat, S # {}
  PROVE  \E n \in S : \A m \in S : n <= m
<1>1. PICK R : IsWellFoundedOn(R, Nat) /\ R = {ss \in Nat \X Nat : ss[1] < ss[2]}
  BY NatLessThanWellFounded DEF OpToRel
<1>2. PICK x \in S : \A y \in S : ~(<<y, x>> \in R) BY <1>1, WFMin
<1>3. x \in Nat OBVIOUS
<1>4. ASSUME NEW y \in S PROVE x <= y
  <2>1. y \in Nat /\ <<y, x>> \in Nat \X Nat OBVIOUS
  <2>2. ~(<<y, x>>[1] < <<y, x>>[2]) BY <1>1, <1>2, <2>1
  <2> QED BY <1>3, <2>1, <2>2
<1> QED BY <1>4

LEMMA CountUp ==
  ASSUME NEW a \in Nat, NEW b \in Nat, NEW S, a \in S,
         \A i \in a .. b - 1 : i \in S => i + 1 \in S
  PROVE  \A i \in a .. b : i \in S
<1> DEFINE Bad == {i \in a .. b : i \notin S}
<1>1. SUFFICES ASSUME Bad # {} PROVE FALSE OBVIOUS
<1>2. Bad \in SUBSET Nat OBVIOUS
<1>3. PICK n \in Bad : \A m \in Bad : n <= m
  <2> HIDE DEF Bad
  <2> QED BY <1>1, <1>2, LeastNumber
<1>4. n \in a .. b /\ n # a /\ n \notin S OBVIOUS
<1>5. n - 1 \in a .. b - 1 /\ n - 1 \notin Bad BY <1>3, <1>4
<1>6. n - 1 \in S BY <1>4, <1>5
<1>7. (n - 1) + 1 = n BY <1>4
<1> QED BY <1>4, <1>5, <1>6, <1>7

LEMMA MinFacts ==
  ASSUME NEW T \in SUBSET Nat, T # {}
  PROVE  Min(T) \in T /\ \A t \in T : Min(T) <= t
BY LeastNumber DEF Min

LEMMA MinTwo ==
  ASSUME NEW a \in Nat, NEW b \in Nat
  PROVE  /\ Min({a, b}) \in Nat /\ Min({a, b}) \in {a, b}
         /\ Min({a, b}) <= a /\ Min({a, b}) <= b
<1>1. {a, b} \in SUBSET Nat /\ {a, b} # {} OBVIOUS
<1>2. Min({a, b}) \in {a, b} /\ \A t \in {a, b} : Min({a, b}) <= t BY <1>1, MinFacts
<1> QED BY <1>2

\* RemoveAt of the sequence module.
LEMMA RemoveAtFacts ==
  ASSUME NEW S, NEW s \in Seq(S), NEW i \in DOMAIN s
  PROVE  /\ RemoveAt(s, i) \in Seq(S)
         /\ Len(RemoveAt(s, i)) = Len(s) - 1
         /\ \A k \in DOMAIN RemoveAt(s, i) : \E j \in DOMAIN s : RemoveAt(s, i)[k] = s[j]
<1>1. i \in 1 .. Len(s) /\ Len(s) \in Nat OBVIOUS
<1>2. PICK a : a = SubSeq(s, 1, i - 1) OBVIOUS
<1>3. PICK b : b = SubSeq(s, i + 1, Len(s)) OBVIOUS
<1>4. a \in Seq(S) /\ Len(a) = i - 1 /\ \A k \in 1 .. i - 1 : a[k] = s[k] BY <1>1, <1>2
<1>5. b \in Seq(S) /\ Len(b) = Len(s) - i /\ \A k \in 1 .. Len(s) - i : b[k] = s[k + i]
  BY <1>1, <1>3
<1>6. RemoveAt(s, i) = a \o b BY <1>2, <1>3 DEF RemoveAt
<1>7. a \o b \in Seq(S) /\ Len(a \o b) = Len(s) - 1 BY <1>1, <1>4, <1>5
<1>8. ASSUME NEW k \in DOMAIN (a \o b) PROVE \E j \in DOMAIN s : (a \o b)[k] = s[j]
  <2>1. k \in 1 .. Len(s) - 1 BY <1>7
  <2>2. CASE k <= i - 1
    <3>1. (a \o b)[k] = s[k] BY <1>1, <1>4, <1>5, <2>1, <2>2
    <3> QED BY <1>1, <2>1, <3>1
  <2>3. CASE k > i - 1
    <3>1. (a \o b)[k] = b[k - (i - 1)] BY <1>1, <1>4, <1>5, <2>1, <2>3
    <3>2. k - (i - 1) \in 1 .. Len(s) - i BY <1>1, <2>1, <2>3
    <3>3. PICK m \in 1 .. Len(s) - i : m = k - (i - 1) BY <3>2
    <3>4. b[m] = s[m + i] BY <1>5, <3>3
    <3>5. m + i = k + 1 BY <1>1, <2>1, <3>3
    <3>6. (a \o b)[k] = s[k + 1] BY <3>1, <3>3, <3>4, <3>5
    <3> QED BY <1>1, <2>1, <3>6
  <2> QED BY <1>1, <2>1, <2>2, <2>3
<1> QED BY <1>6, <1>7, <1>8

-----------------------------------------------------------------------------
\* One step of the recursion of Kept, and the function it defines on 0 .. n.
Keep(rows, S, m, k) == IF rows[m] \in S THEN Append(k, rows[m]) ELSE k

Keeps(rows, S, D, f) ==
  f = [m \in D |-> IF m = 0 THEN <<>> ELSE Keep(rows, S, m, f[m - 1])]

\* The recursion of Kept defines a function.
LEMMA KeepsExists ==
  ASSUME NEW rows, NEW S, NEW n \in Nat
  PROVE  \E f : Keeps(rows, S, 0 .. n, f)
<1> DEFINE T == {m \in Nat : \E f : Keeps(rows, S, 0 .. m, f)}
<1>1. 0 \in T
  <2>1. PICK f : f = [m \in 0 .. 0 |-> <<>>] OBVIOUS
  <2>2. f = [m \in 0 .. 0 |-> IF m = 0 THEN <<>> ELSE Keep(rows, S, m, f[m - 1])] BY <2>1
  <2>3. Keeps(rows, S, 0 .. 0, f) BY <2>2 DEF Keeps
  <2> QED BY <2>3
<1>2. ASSUME NEW m \in 0 .. n - 1, m \in T PROVE m + 1 \in T
  <2>1. PICK b \in Nat : b = m + 1 /\ m = b - 1 /\ b # 0 OBVIOUS
  <2>2. PICK f : Keeps(rows, S, 0 .. b - 1, f) BY <1>2, <2>1
  <2>3. f = [k \in 0 .. b - 1 |-> IF k = 0 THEN <<>> ELSE Keep(rows, S, k, f[k - 1])]
    BY <2>2 DEF Keeps
  <2>4. PICK g : g = [k \in 0 .. b |-> IF k = b THEN Keep(rows, S, b, f[b - 1]) ELSE f[k]]
    OBVIOUS
  <2>5. ASSUME NEW k \in 0 .. b
        PROVE  g[k] = IF k = 0 THEN <<>> ELSE Keep(rows, S, k, g[k - 1])
    <3>1. CASE k = b
      <4>1. g[b - 1] = f[b - 1] BY <2>1, <2>4
      <4>2. g[k] = Keep(rows, S, b, f[b - 1]) BY <2>4, <3>1
      <4> QED BY <2>1, <3>1, <4>1, <4>2
    <3>2. CASE k = 0 BY <2>1, <2>3, <2>4, <3>2
    <3>3. CASE k # b /\ k # 0
      <4>1. k \in 0 .. b - 1 /\ k - 1 \in 0 .. b /\ k - 1 # b BY <2>1, <3>3
      <4>2. g[k] = f[k] /\ g[k - 1] = f[k - 1] BY <2>4, <3>3, <4>1
      <4>3. f[k] = Keep(rows, S, k, f[k - 1]) BY <2>3, <3>3, <4>1
      <4> QED BY <3>3, <4>2, <4>3
    <3> QED BY <3>1, <3>2, <3>3
  <2>6. g = [k \in 0 .. b |-> IF k = 0 THEN <<>> ELSE Keep(rows, S, k, g[k - 1])]
    BY <2>4, <2>5
  <2>7. Keeps(rows, S, 0 .. b, g) BY <2>6 DEF Keeps
  <2> QED BY <2>1, <2>7
<1>3. n \in T
  <2>1. 0 \in Nat /\ n \in 0 .. n OBVIOUS
  <2> HIDE DEF T
  <2> QED BY <1>1, <1>2, <2>1, CountUp
<1> QED BY <1>3

\* Array.filter: what passes stays, once if it was there once.
LEMMA KeptFacts ==
  ASSUME NEW E, NEW rows \in Seq(E), NEW S
  PROVE  /\ Kept(rows, S) \in Seq(E)
         /\ Range(Kept(rows, S)) = Range(rows) \cap S
         /\ IsInjective(rows) => IsInjective(Kept(rows, S))
<1>1. PICK L \in Nat : L = Len(rows) /\ DOMAIN rows = 1 .. L OBVIOUS
<1>2. PICK f : f = CHOOSE k : Keeps(rows, S, 0 .. Len(rows), k) OBVIOUS
<1>3. Keeps(rows, S, 0 .. Len(rows), f) BY <1>1, <1>2, KeepsExists
<1>4. Kept(rows, S) = f[L] BY <1>1, <1>2 DEF Kept, Keeps, Keep
<1>5. f[0] = <<>> /\ \A m \in 1 .. L : f[m] = Keep(rows, S, m, f[m - 1])
  BY <1>1, <1>3 DEF Keeps
<1> DEFINE Good(n) ==
             /\ f[n] \in Seq(E)
             /\ \A j \in 1 .. n : rows[j] \in S => \E k \in DOMAIN f[n] : f[n][k] = rows[j]
             /\ \A k \in DOMAIN f[n] : \E j \in 1 .. n : f[n][k] = rows[j] /\ rows[j] \in S
             /\ IsInjective(rows) => IsInjective(f[n])
           T == {n \in Nat : Good(n)}
<1>6. 0 \in T
  <2>1. f[0] \in Seq(E) /\ DOMAIN f[0] = {} /\ 1 .. 0 = {} BY <1>5
  <2>2. IsInjective(f[0]) BY <2>1 DEF IsInjective
  <2> QED BY <2>1, <2>2
<1>7. ASSUME NEW m \in 0 .. L - 1, m \in T PROVE m + 1 \in T
  <2>1. PICK b \in 1 .. L : b = m + 1 /\ m = b - 1 /\ b \in Nat BY <1>1
  <2>2. Good(b - 1) BY <1>7, <2>1
  <2> HIDE DEF Good
  <2>3. PICK p : p = f[b - 1] OBVIOUS
  <2>4. /\ p \in Seq(E)
        /\ \A j \in 1 .. b - 1 : rows[j] \in S => \E k \in DOMAIN p : p[k] = rows[j]
        /\ \A k \in DOMAIN p : \E j \in 1 .. b - 1 : p[k] = rows[j] /\ rows[j] \in S
        /\ IsInjective(rows) => IsInjective(p)
    BY <2>2, <2>3 DEF Good
  <2>5. rows[b] \in E /\ b \in DOMAIN rows BY <1>1
  <2>6. \A j \in 1 .. b - 1 : j \in 1 .. b /\ j \in DOMAIN rows /\ j # b BY <1>1, <2>1
  <2>7. f[b] = Keep(rows, S, b, p) BY <1>5, <2>1, <2>3
  <2>8. (\A j \in 1 .. b : j = b \/ j \in 1 .. b - 1) /\ b \in 1 .. b BY <2>1
  <2>9. CASE rows[b] \in S
    <3>1. f[b] = Append(p, rows[b]) BY <2>7, <2>9 DEF Keep
    <3>2. PICK e : e = Len(p) + 1 OBVIOUS
    <3>3. /\ f[b] \in Seq(E) /\ \A k \in DOMAIN p : k \in DOMAIN f[b] /\ f[b][k] = p[k]
          /\ DOMAIN f[b] = DOMAIN p \cup {e} /\ ~(e \in DOMAIN p) /\ f[b][e] = rows[b]
      BY <2>4, <2>5, <3>1, <3>2
    <3>4. \A k \in DOMAIN f[b] : \E j \in 1 .. b : f[b][k] = rows[j] /\ rows[j] \in S
      BY <2>4, <2>6, <2>8, <2>9, <3>3
    <3>5. \A j \in 1 .. b : rows[j] \in S => \E k \in DOMAIN f[b] : f[b][k] = rows[j]
      BY <2>4, <2>8, <3>3
    <3>6. ASSUME IsInjective(rows) PROVE IsInjective(f[b])
      <4>1. \A k \in DOMAIN p : p[k] # rows[b] BY <2>4, <2>5, <2>6, <3>6 DEF IsInjective
      <4>2. IsInjective(p) BY <2>4, <3>6
      <4> QED BY <3>3, <4>1, <4>2 DEF IsInjective
    <3> QED BY <2>1, <3>3, <3>4, <3>5, <3>6 DEF Good
  <2>10. CASE rows[b] \notin S
    <3>1. f[b] = p BY <2>7, <2>10 DEF Keep
    <3> QED BY <2>1, <2>4, <2>6, <2>8, <2>10, <3>1 DEF Good
  <2> QED BY <2>9, <2>10
<1>8. Good(L)
  <2>1. 0 \in Nat /\ L \in 0 .. L OBVIOUS
  <2>2. L \in T
    <3> HIDE DEF T
    <3> QED BY <1>6, <1>7, <2>1, CountUp
  <2> QED BY <2>2
<1>9. PICK g : g = f[L] OBVIOUS
<1>10. /\ g \in Seq(E) /\ (IsInjective(rows) => IsInjective(g))
       /\ \A j \in 1 .. L : rows[j] \in S => \E k \in DOMAIN g : g[k] = rows[j]
       /\ \A k \in DOMAIN g : \E j \in 1 .. L : g[k] = rows[j] /\ rows[j] \in S
  BY <1>8, <1>9
<1>11. Range(g) = Range(rows) \cap S
  <2>1. \A x \in Range(g) : x \in Range(rows) /\ x \in S BY <1>1, <1>10 DEF Range
  <2>2. ASSUME NEW x \in Range(rows), x \in S PROVE x \in Range(g)
    <3>1. PICK j \in 1 .. L : rows[j] = x BY <1>1 DEF Range
    <3>2. PICK k \in DOMAIN g : g[k] = rows[j] BY <1>10, <2>2, <3>1
    <3> QED BY <3>1, <3>2 DEF Range
  <2> QED BY <2>1, <2>2
<1> QED BY <1>4, <1>9, <1>10, <1>11

\* listEvents: the rows of an answer are distinct events.
LEMMA NewestFacts ==
  ASSUME NEW S \in SUBSET Events, NEW limit \in Nat
  PROVE  Newest(S, limit) \in Lists
<1>1. EventCount \in Nat /\ S \in SUBSET Nat BY FeedAssumption DEF Events
<1>2. IsFiniteSet(S)
  <2>1. IsFiniteSet(1 .. EventCount)
    <3>1. 1 \in Int /\ EventCount \in Int BY <1>1
    <3> QED BY <3>1, FS_Interval
  <2> QED BY <2>1, FS_Subset DEF Events
<1>3. PICK N \in Nat : N = Cardinality(S) BY <1>2, FS_CardinalityType
<1> DEFINE Above(x) == {d \in S : d > x}
<1>4. ASSUME NEW x \in S PROVE IsFiniteSet(Above(x)) /\ Cardinality(Above(x)) \in 0 .. N - 1
  <2>1. PICK T : T = S \ {x} OBVIOUS
  <2>2. IsFiniteSet(T) /\ Cardinality(T) = N - 1 BY <1>2, <1>3, <2>1, FS_RemoveElement
  <2>3. PICK B : B = Above(x) OBVIOUS
  <2>4. B \in SUBSET T BY <1>1, <2>1, <2>3
  <2>5. IsFiniteSet(B) /\ Cardinality(B) <= N - 1 BY <2>2, <2>4, FS_Subset
  <2>6. Cardinality(B) \in Nat BY <2>5, FS_CardinalityType
  <2>7. Cardinality(B) \in 0 .. N - 1 BY <1>3, <2>5, <2>6
  <2> QED BY <2>3, <2>5, <2>7
<1>5. PICK rank : rank = [x \in S |-> Cardinality(Above(x))] OBVIOUS
<1>6. \A x \in S : rank[x] = Cardinality(Above(x)) /\ rank[x] \in 0 .. N - 1 BY <1>4, <1>5
<1>7. \A x \in S : rank[x] \in Nat
  <2>1. 0 .. N - 1 \in SUBSET Nat OBVIOUS
  <2> QED BY <1>6, <2>1
<1>8. ASSUME NEW x \in S, NEW y \in S, y > x PROVE rank[y] # rank[x]
  <2>1. PICK A : A = Above(y) OBVIOUS
  <2>2. PICK B : B = Above(x) OBVIOUS
  <2>6. x \in Nat /\ y \in Nat /\ \A d \in S : d \in Nat BY <1>1
  <2>7. \A d \in S : d > y => d > x BY <1>8, <2>6
  <2>3. A \in SUBSET B /\ y \in B /\ y \notin A 
    <3>1. \A d \in A : d \in S /\ d > y BY <2>1
    <3>2. \A d \in S : d > x => d \in B BY <2>2
    <3>3. ~(y > y) BY <2>6
    <3> QED BY <1>8, <2>7, <3>1, <3>2, <3>3
  <2>4. IsFiniteSet(B) BY <1>4, <2>2
  <2>5. Cardinality(A) # Cardinality(B) BY <2>3, <2>4, FS_Subset
  <2> QED BY <1>6, <2>1, <2>2, <2>5
<1>9. \A x, y \in S : rank[x] = rank[y] => x = y
  <2>1. SUFFICES ASSUME NEW x \in S, NEW y \in S, rank[x] = rank[y], x # y PROVE FALSE OBVIOUS
  <2>2. x > y \/ y > x BY <1>1, <2>1
  <2> QED BY <1>8, <2>1, <2>2
<1>10. \A k \in 0 .. N - 1 : \E x \in S : rank[x] = k
  <2>1. PICK T : T = 0 .. N - 1 OBVIOUS
  <2>2. IsFiniteSet(T) /\ Cardinality(T) = N
    <3>1. 0 \in Int /\ N - 1 \in Int /\ (0 > N - 1 <=> N = 0) /\ (N - 1) - 0 + 1 = N OBVIOUS
    <3> QED BY <2>1, <3>1, FS_Interval
  <2>3. rank \in [S -> T] BY <1>5, <1>6, <2>1
  <2>4. rank \in Injection(S, T) BY <1>9, <2>3 DEF Injection, IsInjective
  <2>5. rank \in Surjection(S, T) BY <1>3, <2>2, <2>4, FS_Injection
  <2> QED BY <2>1, <2>5 DEF Surjection
<1>11. PICK m \in Nat : m = Min({limit, Cardinality(S)}) /\ m <= N BY <1>3, MinTwo
<1>12. PICK s : s = Newest(S, limit) OBVIOUS
<1>13. ASSUME NEW k \in 1 .. m PROVE s[k] \in S /\ rank[s[k]] = k - 1
  <2>1. k - 1 \in 0 .. N - 1 BY <1>11
  <2>2. PICK x \in S : rank[x] = k - 1 BY <1>10, <2>1
  <2>3. Cardinality(Above(x)) = k - 1 BY <1>6, <2>2
  <2>4. PICK z : z = CHOOSE y \in S : Cardinality(Above(y)) = k - 1 OBVIOUS
  <2>5. z \in S /\ Cardinality(Above(z)) = k - 1 BY <2>3, <2>4
  <2>6. s[k] = z BY <1>11, <1>12, <2>4 DEF Newest
  <2> QED BY <1>6, <2>5, <2>6
<1>14. s \in [1 .. m -> S]
  <2> DEFINE At(k) == CHOOSE x \in S : Cardinality(Above(x)) = k - 1
  <2>1. PICK f : f = [k \in 1 .. m |-> At(k)] OBVIOUS
  <2>2. s = f BY <1>11, <1>12, <2>1 DEF Newest
  <2> HIDE DEF At
  <2>3. DOMAIN f = 1 .. m /\ f = [k \in DOMAIN f |-> f[k]] BY <2>1
  <2> QED BY <1>13, <2>2, <2>3
<1> HIDE DEF Above
<1>15. s \in Seq(Events) /\ DOMAIN s = 1 .. m
  <2>1. s \in [1 .. m -> Events] BY <1>14
  <2>2. s \in Seq(Events) BY <2>1, SeqDef
  <2> QED BY <2>1, <2>2
<1>16. ASSUME NEW i \in DOMAIN s, NEW j \in DOMAIN s, s[i] = s[j] PROVE i = j
  <2>1. rank[s[i]] = i - 1 /\ rank[s[j]] = j - 1 BY <1>13, <1>15
  <2>2. i \in Nat /\ j \in Nat BY <1>15
  <2> QED BY <1>16, <2>1, <2>2
<1>17. IsInjective(s) BY <1>16 DEF IsInjective
<1> QED BY <1>12, <1>15, <1>17 DEF Lists

-----------------------------------------------------------------------------
\* slice(0, MAX_BUFFER): a list stays a list and fits; what fits is not cut.
Capped(m) == SubSeq(m, 1, Min({MaxBuffer, Len(m)}))

LEMMA CapFacts ==
  ASSUME NEW m \in Lists
  PROVE  /\ Capped(m) \in Lists /\ Len(Capped(m)) <= MaxBuffer
         /\ Len(Capped(m)) = MaxBuffer \/ Len(Capped(m)) = Len(m)
         /\ Len(Capped(m)) < MaxBuffer => Range(Capped(m)) = Range(m)
<1>1. MaxBuffer \in Nat /\ m \in Seq(Events) /\ Len(m) \in Nat BY FeedAssumption DEF Lists
<1>2. PICK n \in Nat : n = Min({MaxBuffer, Len(m)}) /\ n <= MaxBuffer /\ n <= Len(m)
                       /\ (n = MaxBuffer \/ n = Len(m))
  BY <1>1, MinTwo
<1>3. PICK c : c = Capped(m) /\ c = SubSeq(m, 1, n) BY <1>2 DEF Capped
<1>4. \A i \in 1 .. n : m[i] \in Events BY <1>1, <1>2
<1>5. /\ c \in Seq(Events) /\ Len(c) = n /\ DOMAIN c = 1 .. n
      /\ \A i \in 1 .. n : i \in DOMAIN m /\ c[i] = m[i]
  <2>1. 1 \in Int /\ n \in Int /\ n - 1 + 1 = n /\ (1 <= n \/ n = 0) OBVIOUS
  <2>2. c \in Seq(Events) /\ Len(c) = n /\ \A i \in 1 .. n - 1 + 1 : c[i] = m[1 + i - 1]
    BY <1>3, <1>4, <2>1, SubSeqProperties
  <2>3. \A i \in 1 .. n : 1 + i - 1 = i /\ i \in DOMAIN m BY <1>1, <1>2
  <2> QED BY <2>1, <2>2, <2>3
<1>6. IsInjective(c)
  <2>1. IsInjective(m) BY DEF Lists
  <2> QED BY <1>5, <2>1 DEF IsInjective
<1>7. ASSUME n < MaxBuffer PROVE Range(c) = Range(m)
  <2>1. n = Len(m) /\ DOMAIN m = DOMAIN c BY <1>1, <1>2, <1>5, <1>7
  <2>2. \A i \in DOMAIN m : c[i] = m[i] BY <1>5, <2>1
  <2> QED BY <2>1, <2>2 DEF Range
<1> QED BY <1>2, <1>3, <1>5, <1>6, <1>7 DEF Lists

\* Two lists without a common event, one after the other.
LEMMA JoinFacts ==
  ASSUME NEW a \in Lists, NEW b \in Lists, Range(a) \cap Range(b) = {}
  PROVE  /\ a \o b \in Lists /\ Len(a \o b) = Len(a) + Len(b)
         /\ Range(a \o b) = Range(a) \cup Range(b)
<1>1. /\ a \in Seq(Events) /\ b \in Seq(Events) /\ IsInjective(a) /\ IsInjective(b)
      /\ Len(a) \in Nat /\ Len(b) \in Nat /\ DOMAIN a = 1 .. Len(a) /\ DOMAIN b = 1 .. Len(b)
  BY DEF Lists
<1>2. PICK c : c = a \o b OBVIOUS
<1>3. /\ c \in Seq(Events) /\ Len(c) = Len(a) + Len(b)
      /\ \A i \in 1 .. Len(a) + Len(b) : c[i] = IF i <= Len(a) THEN a[i] ELSE b[i - Len(a)]
  BY <1>1, <1>2, ConcatProperties
<1>4. DOMAIN c = 1 .. Len(a) + Len(b) BY <1>3
<1>5. \A i \in DOMAIN a : i \in DOMAIN c /\ c[i] = a[i] BY <1>1, <1>3, <1>4
<1>6. ASSUME NEW i \in DOMAIN b PROVE i + Len(a) \in DOMAIN c /\ c[i + Len(a)] = b[i]
  <2>1. i + Len(a) \in 1 .. Len(a) + Len(b) /\ ~(i + Len(a) <= Len(a)) /\ (i + Len(a)) - Len(a) = i
    BY <1>1
  <2> QED BY <1>3, <1>4, <2>1
<1>7. ASSUME NEW i \in DOMAIN c
      PROVE  \/ i \in DOMAIN a /\ c[i] = a[i]
             \/ i - Len(a) \in DOMAIN b /\ c[i] = b[i - Len(a)]
  <2>1. CASE i <= Len(a) BY <1>1, <1>3, <1>4, <2>1
  <2>2. CASE ~(i <= Len(a))
    <3>1. i - Len(a) \in DOMAIN b BY <1>1, <1>4, <2>2
    <3> QED BY <1>3, <1>4, <2>2, <3>1
  <2> QED BY <2>1, <2>2
<1>8. Range(c) = Range(a) \cup Range(b)
  <2>1. \A x \in Range(c) : x \in Range(a) \cup Range(b) BY <1>7 DEF Range
  <2>2. \A x \in Range(a) : x \in Range(c) BY <1>5 DEF Range
  <2>3. \A x \in Range(b) : x \in Range(c) BY <1>6 DEF Range
  <2> QED BY <2>1, <2>2, <2>3
<1>9. ASSUME NEW i \in DOMAIN c, NEW j \in DOMAIN c, c[i] = c[j] PROVE i = j
  <2>1. i \in Nat /\ j \in Nat BY <1>1, <1>4
  <2>2. \A x \in DOMAIN a : a[x] \in Range(a) BY DEF Range
  <2>3. \A x \in DOMAIN b : b[x] \in Range(b) BY DEF Range
  <2>4. CASE (i \in DOMAIN a /\ c[i] = a[i]) /\ (j \in DOMAIN a /\ c[j] = a[j])
    BY <1>1, <1>9, <2>4 DEF IsInjective
  <2>5. CASE (i - Len(a) \in DOMAIN b /\ c[i] = b[i - Len(a)])
             /\ (j - Len(a) \in DOMAIN b /\ c[j] = b[j - Len(a)])
    <3>1. i - Len(a) = j - Len(a)
      <4>1. PICK p \in DOMAIN b : p = i - Len(a) BY <2>5
      <4>2. PICK q \in DOMAIN b : q = j - Len(a) BY <2>5
      <4>3. b[p] = b[q] BY <1>9, <2>5, <4>1, <4>2
      <4>4. p = q BY <1>1, <4>3 DEF IsInjective
      <4> QED BY <4>1, <4>2, <4>4
    <3> QED BY <1>1, <2>1, <3>1
  <2>6. ~((i \in DOMAIN a /\ c[i] = a[i]) /\ (j - Len(a) \in DOMAIN b /\ c[j] = b[j - Len(a)]))
    BY <1>9, <2>2, <2>3
  <2>7. ~((j \in DOMAIN a /\ c[j] = a[j]) /\ (i - Len(a) \in DOMAIN b /\ c[i] = b[i - Len(a)]))
    BY <1>9, <2>2, <2>3
  <2> QED BY <1>7, <2>4, <2>5, <2>6, <2>7
<1>10. IsInjective(c) BY <1>9 DEF IsInjective
<1> QED BY <1>2, <1>3, <1>8, <1>10 DEF Lists

\* case 'event': the event is in the buffer, which does not shrink.
LEMMA WithEventFacts ==
  ASSUME NEW b \in Lists, Len(b) <= MaxBuffer, NEW e \in Events
  PROVE  /\ WithEvent(b, e) \in Lists /\ Len(WithEvent(b, e)) <= MaxBuffer
         /\ Len(b) <= Len(WithEvent(b, e))
         /\ Len(WithEvent(b, e)) < MaxBuffer => Range(WithEvent(b, e)) = Range(b) \cup {e}
<1>1. MaxBuffer \in Nat /\ b \in Seq(Events) /\ Len(b) \in Nat /\ DOMAIN b = 1 .. Len(b)
  BY FeedAssumption DEF Lists
<1>2. CASE Contains(b, e)
  <2>1. WithEvent(b, e) = b BY <1>2 DEF WithEvent
  <2>2. e \in Range(b) BY <1>1, <1>2 DEF Contains, Range
  <2> QED BY <1>1, <2>1, <2>2
<1>3. CASE ~Contains(b, e)
  <2>1. PICK o : o = <<e>> OBVIOUS
  <2>2. o \in Seq(Events) /\ Len(o) = 1 /\ DOMAIN o = {1} /\ o[1] = e BY <2>1
  <2>3. o \in Lists /\ Range(o) = {e} BY <2>2 DEF Lists, IsInjective, Range
  <2>4. e \notin Range(b) BY <1>1, <1>3 DEF Contains, Range
  <2>5. PICK m : m = o \o b OBVIOUS
  <2>6. m \in Lists /\ Len(m) = 1 + Len(b) /\ Range(m) = {e} \cup Range(b)
    <3>1. Range(o) \cap Range(b) = {} BY <2>3, <2>4
    <3>2. m \in Lists /\ Len(m) = Len(o) + Len(b) /\ Range(m) = Range(o) \cup Range(b)
      BY <2>3, <2>5, <3>1, JoinFacts
    <3> QED BY <2>2, <2>3, <3>2
  <2>7. Len(m) = Len(b) + 1 BY <1>1, <2>6
  <2>8. WithEvent(b, e) = Capped(m) BY <1>3, <2>1, <2>5, <2>7 DEF WithEvent, Capped
  <2>9. /\ Capped(m) \in Lists /\ Len(Capped(m)) <= MaxBuffer
        /\ Len(Capped(m)) = MaxBuffer \/ Len(Capped(m)) = Len(m)
        /\ Len(Capped(m)) < MaxBuffer => Range(Capped(m)) = Range(m)
    BY <2>6, CapFacts
  <2>10. Len(b) <= Len(Capped(m)) BY <1>1, <2>7, <2>9
  <2> QED BY <2>6, <2>8, <2>9, <2>10
<1> QED BY <1>2, <1>3

\* case 'seed': the rows of the seed join what the stream has delivered.
LEMMA WithSeedFacts ==
  ASSUME NEW b \in Lists, Len(b) <= MaxBuffer, NEW s \in Lists
  PROVE  /\ WithSeed(b, s) \in Lists /\ Len(WithSeed(b, s)) <= MaxBuffer
         /\ Len(b) <= Len(WithSeed(b, s))
         /\ Len(WithSeed(b, s)) < MaxBuffer => Range(WithSeed(b, s)) = Range(b) \cup Range(s)
<1>1. MaxBuffer \in Nat /\ b \in Seq(Events) /\ Len(b) \in Nat /\ s \in Seq(Events) /\ IsInjective(s)
  BY FeedAssumption DEF Lists
<1>2. PICK k : k = Kept(s, Events \ Range(b)) OBVIOUS
<1>3. k \in Seq(Events) /\ IsInjective(k) /\ Range(k) = Range(s) \cap (Events \ Range(b))
  BY <1>1, <1>2, KeptFacts
<1>4. Range(s) \subseteq Events BY <1>1 DEF Range
<1>5. k \in Lists /\ Range(b) \cap Range(k) = {} /\ Len(k) \in Nat BY <1>3 DEF Lists
<1>6. PICK m : m = b \o k OBVIOUS
<1>7. m \in Lists /\ Len(m) = Len(b) + Len(k) /\ Range(m) = Range(b) \cup Range(k)
  BY <1>5, <1>6, JoinFacts
<1>8. WithSeed(b, s) = Capped(m) BY <1>2, <1>6 DEF WithSeed, Capped
<1>9. /\ Capped(m) \in Lists /\ Len(Capped(m)) <= MaxBuffer
      /\ Len(Capped(m)) = MaxBuffer \/ Len(Capped(m)) = Len(m)
      /\ Len(Capped(m)) < MaxBuffer => Range(Capped(m)) = Range(m)
  BY <1>7, CapFacts
<1>10. Len(b) <= Len(Capped(m)) BY <1>1, <1>5, <1>7, <1>9
<1>11. Range(m) = Range(b) \cup Range(s) BY <1>3, <1>4, <1>7
<1> QED BY <1>8, <1>9, <1>10, <1>11

\* What the API answers is a list of events.
LEMMA AnswerFacts ==
  ASSUME TypeInv, NEW r \in Resources, NEW q \in SUBSET Events
  PROVE  Answer(r, q) \in Lists
<1>1. SeedLimit \in Nat /\ PollLimit \in Nat /\ r \in {"seed", "fallback", "stats"}
  BY FeedAssumption
<1>2. stored \cap q \in SUBSET Events BY DEF TypeInv
<1>3. Newest(stored \cap q, SeedLimit) \in Lists /\ Newest(stored \cap q, PollLimit) \in Lists
  BY <1>1, <1>2, NewestFacts
<1>4. <<>> \in Lists
  <2>1. <<>> \in Seq(Events) /\ DOMAIN <<>> = {} OBVIOUS
  <2> QED BY <2>1 DEF Lists, IsInjective
<1>5. CASE r = "seed" BY <1>3, <1>5 DEF Answer, ListEvents
<1>6. CASE r = "fallback" BY <1>3, <1>6 DEF Answer, ListEvents
<1>7. CASE r = "stats" BY <1>4, <1>7 DEF Answer
<1> QED BY <1>1, <1>5, <1>6, <1>7

\* The states of the hook that its operations make.
LEMMA StartedType ==
  ASSUME NEW s \in Resource, NEW q \in SUBSET Events
  PROVE  /\ Asked(q) \in Flight /\ Fresh \in Resource
         /\ Started(s, q) \in Resource /\ Mounted(q) \in Resource
<1>1. Asked(q) \in Flight BY DEF Asked, Flight
<1>2. <<Asked(q)>> \in Seq(Flight) BY <1>1
<1>3. Fresh \in Resource BY DEF Fresh, Resource
<1>4. Started(s, q) \in Resource BY <1>2 DEF Started, Resource
<1>5. Started(Fresh, q) \in Resource BY <1>2, <1>3 DEF Started, Resource
<1> QED BY <1>1, <1>3, <1>4, <1>5 DEF Mounted

-----------------------------------------------------------------------------
\* Every step keeps the invariant.

\* A tab that was just entered or left: nothing is in the buffer or owed.
LEMMA EmptyFeed ==
  ASSUME buffer' = <<>>, owed' = {}
  PROVE  BufferInv'
<1>1. <<>> \in Seq(Events) /\ DOMAIN <<>> = {} /\ Len(<<>>) = 0 OBVIOUS
<1>2. MaxBuffer \in Nat BY FeedAssumption
<1> QED BY <1>1, <1>2 DEF BufferInv, Lists, IsInjective

\* An action that leaves the buffer, the stream and what is owed alone.
LEMMA SameFeed ==
  ASSUME BufferInv, UNCHANGED <<buffer, chan, owed>>
  PROVE  BufferInv'
BY DEF BufferInv

LEMMA FeedInit == Init => FeedInv
<1> SUFFICES ASSUME Init PROVE FeedInv OBVIOUS
<1>1. <<>> \in Seq(Events) /\ DOMAIN <<>> = {} /\ Len(<<>>) = 0 OBVIOUS
<1>2. MaxBuffer \in Nat BY FeedAssumption
<1>3. BufferInv BY <1>1, <1>2 DEF Init, BufferInv, Lists, IsInjective
<1>4. Fresh \in Resource BY DEF Fresh, Resource
<1>5. TypeInv BY <1>1, <1>4, FeedAssumption DEF Init, PollingInit, TypeInv
<1> QED BY <1>3, <1>5 DEF FeedInv

LEMMA TabStep ==
  ASSUME FeedInv, Enter \/ Leave
  PROVE  FeedInv'
<1>1. TypeInv BY DEF FeedInv
<1>2. Fresh \in Resource BY DEF Fresh, Resource
<1>3. Mounted(Events) \in Resource
  <2>1. Events \in SUBSET Events OBVIOUS
  <2> QED BY <1>2, <2>1, StartedType
<1>4. res' \in [Resources -> Resource] BY <1>2, <1>3 DEF Enter, Leave
<1>5. <<>> \in Seq(Events) OBVIOUS
<1>6. TypeInv' BY <1>1, <1>4, <1>5, FeedAssumption DEF TypeInv, Enter, Leave, serverVars
<1>7. BufferInv' BY EmptyFeed DEF Enter, Leave
<1> QED BY <1>6, <1>7 DEF FeedInv

LEMMA StoreStep ==
  ASSUME FeedInv, NEW e \in Events, Store(e)
  PROVE  FeedInv'
<1>1. TypeInv' BY DEF FeedInv, TypeInv, Store, pollingVars, feedVars, streamVars
<1>2. BufferInv' BY SameFeed DEF FeedInv, Store, feedVars, streamVars
<1> QED BY <1>1, <1>2 DEF FeedInv

LEMMA BroadcastStep ==
  ASSUME FeedInv, NEW e \in Events, Broadcast(e)
  PROVE  FeedInv'
<1>1. chan \in Seq(Events) /\ TypeInv /\ BufferInv BY DEF FeedInv, TypeInv
<1>2. UNCHANGED <<res, stored, filter, buffer>> BY DEF Broadcast, pollingVars
<1>3. CASE subscribed /\ Len(chan) < ChanSize
  <2>1. chan' = Append(chan, e) /\ owed' = owed \cup {e} BY <1>3 DEF Broadcast
  <2>2. /\ Append(chan, e) \in Seq(Events)
        /\ \A i \in DOMAIN chan : i \in DOMAIN Append(chan, e) /\ Append(chan, e)[i] = chan[i]
        /\ \E i \in DOMAIN Append(chan, e) : Append(chan, e)[i] = e
    <3>1. /\ Append(chan, e) \in Seq(Events) /\ Len(Append(chan, e)) = Len(chan) + 1
          /\ \A i \in 1 .. Len(chan) : Append(chan, e)[i] = chan[i]
          /\ Append(chan, e)[Len(chan) + 1] = e
      BY <1>1, AppendProperties
    <3>2. Len(chan) \in Nat /\ DOMAIN chan = 1 .. Len(chan) BY <1>1
    <3>3. DOMAIN Append(chan, e) = 1 .. Len(chan) + 1 BY <3>1
    <3>4. Len(chan) + 1 \in 1 .. Len(chan) + 1 /\ \A i \in 1 .. Len(chan) : i \in 1 .. Len(chan) + 1
      BY <3>2
    <3> QED BY <3>1, <3>2, <3>3, <3>4
  <2>3. Range(chan) \cup {e} \subseteq Range(Append(chan, e)) BY <2>2 DEF Range
  <2>4. TypeInv' BY <1>1, <1>2, <2>1, <2>2 DEF TypeInv
  <2>5. BufferInv' BY <1>1, <1>2, <2>1, <2>3 DEF BufferInv
  <2> QED BY <2>4, <2>5 DEF FeedInv
<1>4. CASE ~(subscribed /\ Len(chan) < ChanSize)
  <2>1. chan' = chan /\ owed' = owed BY <1>4 DEF Broadcast
  <2>2. TypeInv' BY <1>1, <1>2, <2>1 DEF TypeInv
  <2>3. BufferInv' BY <1>1, <1>2, <2>1, SameFeed
  <2> QED BY <2>2, <2>3 DEF FeedInv
<1> QED BY <1>3, <1>4

LEMMA SubscribeStep ==
  ASSUME FeedInv, Subscribe
  PROVE  FeedInv'
<1>1. UNCHANGED <<res, stored, filter, buffer, chan, owed>> BY DEF Subscribe, pollingVars, serverVars
<1>2. TypeInv' BY <1>1 DEF FeedInv, TypeInv
<1>3. BufferInv' BY <1>1, SameFeed DEF FeedInv
<1> QED BY <1>2, <1>3 DEF FeedInv

\* A poll asks for some of the events.
LEMMA QueryType ==
  ASSUME TypeInv, NEW r \in Resources
  PROVE  Query(r) \in SUBSET Events
BY FeedAssumption DEF TypeInv, Query

\* The effect of the fallback runs again.
LEMMA RestartedType ==
  ASSUME TypeInv, NEW new
  PROVE  Restarted(new) \in [Resources -> Resource]
<1>1. "fallback" \in Resources BY FeedAssumption
<1>2. res["fallback"] \in Resource /\ res \in [Resources -> Resource] BY <1>1 DEF TypeInv
<1>3. PICK q : q = Query("fallback") OBVIOUS
<1>4. q \in SUBSET Events BY <1>1, <1>3, QueryType
<1>5. Started(res["fallback"], q) \in Resource BY <1>2, <1>4, StartedType
<1>6. [res EXCEPT !["fallback"] = Started(@, q)] \in [Resources -> Resource] BY <1>2, <1>5
<1> QED BY <1>2, <1>3, <1>6 DEF Restarted

LEMMA OnOpenStep ==
  ASSUME FeedInv, OnOpen \/ Reconnect
  PROVE  FeedInv'
<1>1. TypeInv /\ BufferInv BY DEF FeedInv
<1>2. UNCHANGED <<stored, filter, buffer, chan, owed>> BY DEF OnOpen, Reconnect, serverVars
<1>3. Restarted("open") \in [Resources -> Resource] /\ Restarted("connecting") \in [Resources -> Resource]
  BY <1>1, RestartedType
<1>4. res' \in [Resources -> Resource] BY <1>3 DEF OnOpen, Reconnect
<1>5. TypeInv' BY <1>1, <1>2, <1>4 DEF TypeInv
<1>6. BufferInv' BY <1>1, <1>2, SameFeed
<1> QED BY <1>5, <1>6 DEF FeedInv

LEMMA OnErrorStep ==
  ASSUME FeedInv, OnError
  PROVE  FeedInv'
<1>1. TypeInv /\ BufferInv BY DEF FeedInv
<1>2. /\ UNCHANGED <<stored, filter, buffer>> /\ chan' = <<>> /\ owed' = owed \ Range(chan)
      /\ res' = Restarted("error")
  BY DEF OnError, serverVars
<1>3. res' \in [Resources -> Resource] BY <1>1, <1>2, RestartedType
<1>4. <<>> \in Seq(Events) OBVIOUS
<1>5. TypeInv' BY <1>1, <1>2, <1>3, <1>4 DEF TypeInv
<1>6. BufferInv' BY <1>1, <1>2 DEF BufferInv
<1> QED BY <1>5, <1>6 DEF FeedInv

LEMMA OnMessageStep ==
  ASSUME FeedInv, OnMessage
  PROVE  FeedInv'
<1>1. TypeInv /\ BufferInv /\ chan \in Seq(Events) /\ chan # <<>> BY DEF FeedInv, TypeInv, OnMessage
<1>2. /\ UNCHANGED <<res, stored, filter, owed>> /\ chan' = Tail(chan)
      /\ buffer' = WithEvent(buffer, Head(chan))
  BY DEF OnMessage, pollingVars, serverVars
<1>3. PICK e \in Events : e = Head(chan) BY <1>1
<1>4. PICK t : t = Tail(chan) OBVIOUS
<1>5. t \in Seq(Events) BY <1>1, <1>4
<1>6. Range(chan) \subseteq {e} \cup Range(t)
  <2>1. \A i \in DOMAIN chan : i = 1 \/ (i - 1 \in DOMAIN t /\ t[i - 1] = chan[i]) BY <1>1, <1>4
  <2>2. e = chan[1] BY <1>1, <1>3
  <2> QED BY <2>1, <2>2 DEF Range
<1>7. buffer \in Lists /\ Len(buffer) <= MaxBuffer BY <1>1 DEF BufferInv
<1>8. PICK w : w = WithEvent(buffer, e) OBVIOUS
<1>9. /\ w \in Lists /\ Len(w) <= MaxBuffer /\ Len(buffer) <= Len(w)
      /\ Len(w) < MaxBuffer => Range(w) = Range(buffer) \cup {e}
  BY <1>7, <1>8, WithEventFacts
<1>10. TypeInv' BY <1>1, <1>2, <1>4, <1>5 DEF TypeInv
<1>11. ASSUME Len(w) < MaxBuffer PROVE owed \subseteq Range(w) \cup Range(t)
  <2>1. Len(buffer) \in Nat /\ Len(w) \in Nat /\ MaxBuffer \in Nat
    BY <1>7, <1>9, FeedAssumption DEF Lists
  <2>2. Len(buffer) < MaxBuffer BY <1>9, <1>11, <2>1
  <2>3. owed \subseteq Range(buffer) \cup Range(chan) BY <1>1, <2>2 DEF BufferInv
  <2> QED BY <1>6, <1>9, <1>11, <2>3
<1>12. BufferInv' BY <1>2, <1>3, <1>4, <1>8, <1>9, <1>11 DEF BufferInv
<1> QED BY <1>10, <1>12 DEF FeedInv

\* The polls in flight of a resource, as Tick, Serve and Land change them.
LEMMA PollTypes ==
  ASSUME NEW s \in Resource
  PROVE  /\ s.flights \in Seq(Flight)
         /\ \A fs \in Seq(Flight) : [s EXCEPT !.flights = fs] \in Resource
BY DEF Resource

LEMMA PollTickStep ==
  ASSUME FeedInv, NEW r \in Resources, PollTick(r)
  PROVE  FeedInv'
<1>1. TypeInv /\ BufferInv /\ res \in [Resources -> Resource] BY DEF FeedInv, TypeInv
<1>2. UNCHANGED <<stored, filter, buffer, chan, owed>>
  BY DEF PollTick, serverVars, feedVars, streamVars
<1>3. Query(r) \in SUBSET Events BY <1>1, QueryType
<1>4. PICK a \in Flight : a = Asked(Query(r))
  <2>1. Fresh \in Resource BY DEF Fresh, Resource
  <2> QED BY <1>3, <2>1, StartedType
<1>5. res' = [res EXCEPT ![r].flights = Append(@, a)] BY <1>4 DEF PollTick, Tick
<1>6. PICK fs : fs = Append(res[r].flights, a) OBVIOUS
<1>7. fs \in Seq(Flight) BY <1>1, <1>6, PollTypes
<1>8. PICK s : s = [res[r] EXCEPT !.flights = fs] OBVIOUS
<1>9. s \in Resource BY <1>1, <1>7, <1>8, PollTypes
<1>10. res' = [res EXCEPT ![r] = s] BY <1>5, <1>6, <1>8
<1>11. res' \in [Resources -> Resource] BY <1>1, <1>9, <1>10
<1>12. TypeInv' BY <1>1, <1>2, <1>11 DEF TypeInv
<1>13. BufferInv' BY <1>1, <1>2, SameFeed
<1> QED BY <1>12, <1>13 DEF FeedInv

LEMMA PollServeStep ==
  ASSUME FeedInv, NEW r \in Resources, PollServe(r)
  PROVE  FeedInv'
<1>1. TypeInv /\ BufferInv /\ res \in [Resources -> Resource] BY DEF FeedInv, TypeInv
<1>2. UNCHANGED <<stored, filter, buffer, chan, owed>>
  BY DEF PollServe, serverVars, feedVars, streamVars
<1>3. PICK i \in DOMAIN res[r].flights : Serve(r, i, Answer(r, res[r].flights[i].ask))
  BY DEF PollServe
<1>4. res[r].flights \in Seq(Flight) BY <1>1, PollTypes
<1>5. res[r].flights[i] \in Flight BY <1>3, <1>4
<1>6. PICK v \in Lists : v = Answer(r, res[r].flights[i].ask)
  <2>1. res[r].flights[i].ask \in SUBSET Events BY <1>5 DEF Flight
  <2> QED BY <1>1, <2>1, AnswerFacts
<1>7. PICK f : f = [at |-> IF up THEN "ok" ELSE "failed", ask |-> {}, got |-> IF up THEN v ELSE NoData]
  OBVIOUS
<1>8. f \in Flight
  <2>1. CASE up BY <1>7, <2>1 DEF Flight
  <2>2. CASE ~up BY <1>7, <2>2 DEF Flight
  <2> QED BY <2>1, <2>2
<1>9. res' = [res EXCEPT ![r].flights[i] = f] BY <1>3, <1>6, <1>7 DEF Serve
<1>10. PICK fs : fs = [res[r].flights EXCEPT ![i] = f] OBVIOUS
<1>11. fs \in Seq(Flight) BY <1>4, <1>8, <1>10
<1>12. PICK s : s = [res[r] EXCEPT !.flights = fs] OBVIOUS
<1>13. s \in Resource BY <1>1, <1>11, <1>12, PollTypes
<1>14. res' = [res EXCEPT ![r] = s] BY <1>9, <1>10, <1>12
<1>15. res' \in [Resources -> Resource] BY <1>1, <1>13, <1>14
<1>16. TypeInv' BY <1>1, <1>2, <1>15 DEF TypeInv
<1>17. BufferInv' BY <1>1, <1>2, SameFeed
<1> QED BY <1>16, <1>17 DEF FeedInv

LEMMA PollLandStep ==
  ASSUME FeedInv, NEW r \in Resources, PollLand(r)
  PROVE  FeedInv'
<1>1. TypeInv /\ BufferInv /\ res \in [Resources -> Resource] BY DEF FeedInv, TypeInv
<1>2. UNCHANGED <<stored, filter, chan>> BY DEF PollLand, serverVars, streamVars
<1>3. PICK i \in DOMAIN res[r].flights :
        LET f == res[r].flights[i]
            seeds == r = "seed" /\ f.at = "ok" /\ ~seeded /\ f.got # <<>>
        IN  /\ Land(r, i)
            /\ buffer' = IF seeds THEN WithSeed(buffer, f.got) ELSE buffer
            /\ owed' = IF seeds THEN owed \cup Range(f.got) ELSE owed
            /\ seeded' = (seeded \/ seeds)
  BY DEF PollLand
<1>4. res[r] \in Resource /\ res[r].flights \in Seq(Flight) BY <1>1, PollTypes
<1>5. PICK f \in Flight : f = res[r].flights[i] BY <1>3, <1>4
<1>6. f.at = "ok" => f.got \in Lists BY DEF Flight
<1>7. res' \in [Resources -> Resource]
  <2>1. RemoveAt(res[r].flights, i) \in Seq(Flight) BY <1>3, <1>4, RemoveAtFacts
  <2>2. PICK s : s = Landed(r, res[r], i) OBVIOUS
  <2>3. s \in Resource BY <1>4, <1>5, <1>6, <2>1, <2>2 DEF Landed, Resource
  <2>4. res' = [res EXCEPT ![r] = s] BY <1>3, <2>2 DEF Land
  <2> QED BY <1>1, <2>3, <2>4
<1>8. TypeInv' BY <1>1, <1>2, <1>7 DEF TypeInv
<1>9. CASE r = "seed" /\ f.at = "ok" /\ ~seeded /\ f.got # <<>>
  <2>1. PICK g \in Lists : g = f.got BY <1>6, <1>9
  <2>2. buffer' = WithSeed(buffer, g) /\ owed' = owed \cup Range(g) BY <1>3, <1>5, <1>9, <2>1
  <2>3. buffer \in Lists /\ Len(buffer) <= MaxBuffer BY <1>1 DEF BufferInv
  <2>4. PICK w : w = WithSeed(buffer, g) OBVIOUS
  <2>5. /\ w \in Lists /\ Len(w) <= MaxBuffer /\ Len(buffer) <= Len(w)
        /\ Len(w) < MaxBuffer => Range(w) = Range(buffer) \cup Range(g)
    BY <2>3, <2>4, WithSeedFacts
  <2>6. ASSUME Len(w) < MaxBuffer PROVE owed \cup Range(g) \subseteq Range(w) \cup Range(chan)
    <3>1. Len(buffer) \in Nat /\ Len(w) \in Nat /\ MaxBuffer \in Nat
      BY <2>3, <2>5, FeedAssumption DEF Lists
    <3>2. Len(buffer) < MaxBuffer BY <2>5, <2>6, <3>1
    <3>3. owed \subseteq Range(buffer) \cup Range(chan) BY <1>1, <3>2 DEF BufferInv
    <3> QED BY <2>5, <2>6, <3>3
  <2>7. BufferInv' BY <1>2, <2>2, <2>4, <2>5, <2>6 DEF BufferInv
  <2> QED BY <1>8, <2>7 DEF FeedInv
<1>10. CASE ~(r = "seed" /\ f.at = "ok" /\ ~seeded /\ f.got # <<>>)
  <2>1. buffer' = buffer /\ owed' = owed BY <1>3, <1>5, <1>10
  <2>2. BufferInv' BY <1>1, <1>2, <2>1, SameFeed
  <2> QED BY <1>8, <2>2 DEF FeedInv
<1> QED BY <1>9, <1>10

LEMMA ViewStep ==
  ASSUME FeedInv, (\E m \in Matching : SetFilter(m)) \/ FeedWeather \/ UNCHANGED vars
  PROVE  FeedInv'
<1>1. UNCHANGED <<res, stored, buffer, chan, owed>>
  BY DEF SetFilter, FeedWeather, Weather, vars, pollingVars, serverVars, feedVars, streamVars
<1>2. filter' \in Matching
  BY DEF FeedInv, TypeInv, SetFilter, FeedWeather, vars
<1>3. TypeInv' BY <1>1, <1>2 DEF FeedInv, TypeInv
<1>4. BufferInv' BY <1>1, SameFeed DEF FeedInv
<1> QED BY <1>3, <1>4 DEF FeedInv

LEMMA FeedStep == FeedInv /\ [Next]_vars => FeedInv'
<1> SUFFICES ASSUME FeedInv, [Next]_vars PROVE FeedInv' OBVIOUS
<1>1. CASE Enter \/ Leave BY <1>1, TabStep
<1>2. CASE \E e \in Events : Store(e) \/ Broadcast(e) BY <1>2, StoreStep, BroadcastStep
<1>3. CASE Subscribe BY <1>3, SubscribeStep
<1>4. CASE OnOpen \/ Reconnect BY <1>4, OnOpenStep
<1>5. CASE OnError BY <1>5, OnErrorStep
<1>6. CASE OnMessage BY <1>6, OnMessageStep
<1>7. CASE \E r \in Resources : PollTick(r) \/ PollServe(r) \/ PollLand(r)
  BY <1>7, PollTickStep, PollServeStep, PollLandStep
<1>8. CASE (\E m \in Matching : SetFilter(m)) \/ FeedWeather \/ UNCHANGED vars BY <1>8, ViewStep
<1> QED BY <1>1, <1>2, <1>3, <1>4, <1>5, <1>6, <1>7, <1>8 DEF Next

\* The invariant says what the screen must: Array.filter shows the rows of the
\* buffer that pass, once each.
LEMMA FeedShows == FeedInv => FeedIsComplete
<1> SUFFICES ASSUME FeedInv PROVE FeedIsComplete OBVIOUS
<1>1. PICK d : d = res["fallback"].data OBVIOUS
<1>2. d \in Lists \cup {NoData} BY <1>1, FeedAssumption DEF FeedInv, TypeInv, Resource
<1>3. buffer \in Lists /\ Len(buffer) <= MaxBuffer BY DEF FeedInv, BufferInv
<1>4. PICK l : l = IF status = "error" /\ d # NoData THEN d ELSE buffer OBVIOUS
<1>5. l \in Lists BY <1>2, <1>3, <1>4
<1>6. Shown = Kept(l, filter) BY <1>1, <1>4 DEF Shown, Filtered
<1>7. IsInjective(Shown) /\ Range(Shown) = Range(l) \cap filter
  BY <1>5, <1>6, KeptFacts DEF Lists
<1>8. ASSUME status # "error", Len(buffer) < MaxBuffer
      PROVE  owed \cap filter \subseteq Range(Shown) \cup Range(chan)
  <2>1. l = buffer BY <1>4, <1>8
  <2>2. owed \subseteq Range(buffer) \cup Range(chan) BY <1>8 DEF FeedInv, BufferInv
  <2> QED BY <1>7, <2>1, <2>2
<1> QED BY <1>3, <1>7, <1>8 DEF FeedIsComplete

\* useEventSource.ts 30-53 and EventFeed.tsx 103-111, for every number of
\* events, every page size and buffer and any filters: no interleaving of the
\* seed, the stream, its losses and its reconnects puts an event on screen
\* twice, and none drops an event the browser has got, unless the buffer is full.
THEOREM FeedsAreComplete == Spec => []FeedIsComplete
<1>1. Init => FeedInv BY FeedInit
<1>2. FeedInv /\ [Next]_vars => FeedInv' BY FeedStep
<1>3. FeedInv => FeedIsComplete BY FeedShows
<1> QED BY <1>1, <1>2, <1>3, PTL DEF Spec

=============================================================================
