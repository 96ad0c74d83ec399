-------------------------- MODULE SchemaCacheProofs -------------------------
(***************************************************************************)
(* Proofs about SchemaCache, for every number of requests, writes,         *)
(* replicas and faults.                                                    *)
(***************************************************************************)
EXTENDS SchemaCache, TLAPS

AnySchema == [n : Nat, live : BOOLEAN]

\* The types the argument needs; how many writes there are does not matter.
TypeInv ==
  /\ table \in AnySchema
  /\ cache \in [Replicas -> AnySchema]
  /\ pc \in [Requests -> {"idle", "do", "get", "compile", "error", "wait", "write",
                          "done", "skipped"}]
  /\ got \in [Requests -> AnySchema]
  /\ wrote \in [Writers -> Nat]
  /\ answered \in [Replicas -> Nat]
  /\ floor \in [Requests -> Nat]
  /\ raced \in [Replicas -> BOOLEAN]

\* Nobody has written or answered more than is in the table.
WritesAreInTable == /\ \A a \in Writers : wrote[a] <= table.n
                    /\ \A r \in Replicas : answered[r] <= table.n

\* What was answered when a request came is not taken back.
FloorIsPast == \A q \in Requests : floor[q] <= answered[Home[q]]

\* What a replica would hand out, and what a fill is about to cache, is as
\* new as the last write that the replica has answered.
CacheIsFresh ==
  \A r \in Replicas : ~raced[r] /\ cache[r].live => cache[r].n >= answered[r]

FillIsFresh ==
  \A q \in Requests : ~raced[Home[q]] /\ pc[q] \in {"compile", "write"} =>
    got[q].n >= answered[Home[q]]

IInv == /\ TypeInv /\ WritesAreInTable /\ FloorIsPast
        /\ CacheIsFresh /\ FillIsFresh /\ FreshUnlessRaced

-----------------------------------------------------------------------------
\* The home of a request or a writer is a replica.
LEMMA HomeType == \A q \in Requests \cup Writers : Home[q] \in Replicas
BY SchemaAssumption

\* The initial states satisfy the invariant.
LEMMA InitIInv == Init => IInv
<1> SUFFICES ASSUME Init PROVE IInv OBVIOUS
<1> USE HomeType DEF Init, NoSchema
<1>1. TypeInv
  <2>1. raced \in [Replicas -> BOOLEAN] /\ NoSchema \in AnySchema BY DEF AnySchema
  <2>2. table \in AnySchema BY DEF AnySchema
  <2> QED BY <2>1, <2>2 DEF TypeInv
<1>2. WritesAreInTable /\ FloorIsPast BY DEF WritesAreInTable, FloorIsPast
<1>3. CacheIsFresh /\ FillIsFresh /\ FreshUnlessRaced
  BY DEF CacheIsFresh, FillIsFresh, FreshUnlessRaced, Fresh
<1> QED BY <1>1, <1>2, <1>3 DEF IInv

\* A step of a request keeps the types.
LEMMA StepTypes == ASSUME TypeInv, NEW q \in Requests, Step(q) PROVE TypeInv'
<1> USE HomeType DEF TypeInv, Goto
<1>1. CASE Lookup(q) BY <1>1 DEF Lookup
<1>2. CASE Do(q) BY <1>2 DEF Do, historyVars
<1>3. CASE Get(q) BY <1>3 DEF Get, historyVars
<1>4. CASE Land(q) BY <1>4 DEF Land, historyVars
<1>5. CASE Write(q) BY <1>5 DEF Write, historyVars
<1> QED BY <1>1, <1>2, <1>3, <1>4, <1>5 DEF Step

\* Requests write nothing and answer no writer.
LEMMA StepLeaves ==
  ASSUME NEW q \in Requests, Step(q)
  PROVE  UNCHANGED <<table, wrote, answered, raced>>
BY DEF Step, Lookup, Do, Get, Land, Write, historyVars

\* A step of a request keeps the invariant.
LEMMA StepInv == ASSUME IInv, NEW q \in Requests, Step(q) PROVE IInv'
<1>0. TypeInv' BY StepTypes DEF IInv
<1>a. UNCHANGED <<table, wrote, answered, raced>> BY StepLeaves
<1>b. WritesAreInTable' BY <1>a DEF IInv, WritesAreInTable
<1> USE HomeType DEF IInv, TypeInv, AnySchema, Goto, FloorIsPast, CacheIsFresh, FillIsFresh,
                     FreshUnlessRaced, Fresh
<1>1. CASE Lookup(q)
  BY <1>0, <1>a, <1>b, <1>1 DEF Lookup
<1>2. CASE Do(q)
  BY <1>0, <1>a, <1>b, <1>2 DEF Do, historyVars
<1>3. CASE Get(q)
  <2>1. \A r \in Replicas : answered[r] <= table.n BY DEF WritesAreInTable
  <2>2. FloorIsPast' /\ CacheIsFresh' /\ FreshUnlessRaced'
    BY <1>a, <1>3 DEF Get, historyVars
  <2>3. FillIsFresh' BY <1>a, <1>3, <2>1 DEF Get
  <2> QED BY <1>0, <1>b, <2>2, <2>3
<1>4. CASE Land(q)
  BY <1>0, <1>a, <1>b, <1>4 DEF Land, historyVars, Flight
<1>5. CASE Write(q)
  BY <1>0, <1>a, <1>b, <1>5 DEF Write, historyVars
<1> QED BY <1>1, <1>2, <1>3, <1>4, <1>5 DEF Step

\* A write keeps the invariant: it makes only the table newer.
LEMMA PutInv == ASSUME IInv, NEW a \in Writers, NEW live \in BOOLEAN, Put(a, live) PROVE IInv'
<1> USE DEF IInv, TypeInv, AnySchema, FloorIsPast, CacheIsFresh, FillIsFresh,
            FreshUnlessRaced, Fresh, Put, requestVars, historyVars
<1>1. TypeInv'
  <2>1. table' \in AnySchema /\ wrote' \in [Writers -> Nat]
    <3>1. table.n + 1 \in Nat OBVIOUS
    <3>2. [n |-> table.n + 1, live |-> live] \in AnySchema BY <3>1, Zenon DEF AnySchema
    <3> HIDE DEF AnySchema
    <3>3. table' \in AnySchema BY <3>2
    <3>4. wrote' \in [Writers -> Nat] BY <3>1
    <3> QED BY <3>3, <3>4
  <2> QED BY <2>1
<1>2. WritesAreInTable' BY DEF WritesAreInTable
<1> QED BY <1>1, <1>2

\* So does an invalidation: if a fill older than the write is under way, the
\* replica is marked, and otherwise every fill is as new as the write.
LEMMA InvalidateInv == ASSUME IInv, NEW a \in Writers, Invalidate(a) PROVE IInv'
<1> USE HomeType DEF IInv, TypeInv, AnySchema, NoSchema, Invalidate, Answered, requestVars
<1>1. TypeInv'
  OBVIOUS
<1>2. WritesAreInTable' /\ FloorIsPast'
  BY DEF WritesAreInTable, FloorIsPast
<1>3. CacheIsFresh' BY DEF CacheIsFresh
<1>4. FillIsFresh'
  <2> SUFFICES ASSUME NEW q \in Requests, ~raced'[Home[q]], pc'[q] \in {"compile", "write"}
               PROVE  got'[q].n >= answered'[Home[q]]
    BY DEF FillIsFresh
  <2>1. UNCHANGED <<pc, got>> OBVIOUS
  <2>2. CASE Home[q] # Home[a] BY <2>1, <2>2 DEF FillIsFresh
  <2>3. CASE Home[q] = Home[a]
    <3>1. raced'[Home[a]] = (raced[Home[a]] \/ \E p \in Requests : StaleFill(p, a)) OBVIOUS
    <3>2. ~raced[Home[q]] /\ ~StaleFill(q, a) BY <2>3, <3>1, Zenon
    <3>3. got[q].n >= wrote[a] BY <2>1, <2>3, <3>2 DEF StaleFill
    <3> QED BY <2>1, <2>3, <3>2, <3>3 DEF FillIsFresh
  <2> QED BY <2>2, <2>3
<1>5. FreshUnlessRaced' BY DEF FreshUnlessRaced, Fresh
<1> QED BY <1>1, <1>2, <1>3, <1>4, <1>5

-----------------------------------------------------------------------------
\* The inductive invariant of the registry.
THEOREM Invariance == Spec => []IInv
<1>1. IInv /\ [Next]_vars => IInv'
  <2> SUFFICES ASSUME IInv, [Next]_vars PROVE IInv' OBVIOUS
  <2>1. CASE \E q \in Requests : Step(q) BY <2>1, StepInv
  <2>2. CASE \E a \in Writers : Invalidate(a) BY <2>2, InvalidateInv
  <2>3. CASE \E a \in Writers : \E live \in BOOLEAN : Put(a, live) BY <2>3, PutInv
  <2>4. CASE UNCHANGED vars
    BY <2>4 DEF IInv, TypeInv, WritesAreInTable, FloorIsPast, CacheIsFresh, FillIsFresh,
                FreshUnlessRaced, Fresh, vars, requestVars, historyVars
  <2> QED BY <2>1, <2>2, <2>3, <2>4 DEF Next
<1> QED BY <1>1, InitIInv, PTL DEF Spec

\* validator.go 113-163: stale validation on the replica that served a write
\* takes an invalidation that overlaps the fill of an older schema.
THEOREM StaleOnlyAfterRace == Spec => []FreshUnlessRaced
<1>1. IInv => FreshUnlessRaced BY DEF IInv
<1> QED BY <1>1, Invariance, PTL

=============================================================================
