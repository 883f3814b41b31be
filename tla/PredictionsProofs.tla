-------------------------- MODULE PredictionsProofs --------------------------
(***************************************************************************)
(* Predictions of every reachable state are backed by their leases, leases *)
(* agree with the rows they were computed from, and no observation of a    *)
(* route is lost, for any map, weights, limits and times.                  *)
(***************************************************************************)
EXTENDS MCPredictions, FiniteSetTheorems, WellFoundedInduction, TLAPS

-----------------------------------------------------------------------------
(* The total of a row.  SumFunction is a fold over the set of its edges: the *)
(* function it folds with exists, and bounds what it sums.                   *)

\* A set of numbers that is not empty has a least one.
LEMMA LeastOf ==
    ASSUME NEW T \in SUBSET Nat, T # {} PROVE \E n \in T : \A k \in T : n <= k
<1>1. PICK n \in T : \A k \in T : ~(<<k, n>> \in OpToRel(<, Nat))
  BY WFMin, NatLessThanWellFounded
<1>2. ASSUME NEW k \in T PROVE n <= k
  <2>1. k \in Nat /\ n \in Nat
    OBVIOUS
  <2>2. <<k, n>> \in OpToRel(<, Nat) <=> k < n
    BY <2>1 DEF OpToRel
  <2>3. ~(k < n)
    BY <1>1, <2>2
  <2> QED BY <2>1, <2>3
<1> QED BY <1>2

Pick(s) == CHOOSE x \in s : TRUE

SumStep(f, g, s) == IF s = {} THEN 0 ELSE f[Pick(s)] + g[s \ {Pick(s)}]

Summing(f, g, D) == g = [s \in D |-> SumStep(f, g, s)]

UpTo(S, n) == {s \in SUBSET S : Cardinality(s) <= n}

LEMMA Smaller ==
    ASSUME NEW S, IsFiniteSet(S), NEW s \in SUBSET S, s # {}
    PROVE  /\ Pick(s) \in s /\ s \ {Pick(s)} \in SUBSET S
           /\ IsFiniteSet(s) /\ Cardinality(s) \in Nat
           /\ Cardinality(s \ {Pick(s)}) = Cardinality(s) - 1
<1>1. Pick(s) \in s
  BY DEF Pick
<1>2. IsFiniteSet(s) /\ Cardinality(s) \in Nat
  BY FS_Subset, FS_CardinalityType
<1> QED BY <1>1, <1>2, FS_RemoveElement

LEMMA SummingExists ==
    ASSUME NEW S, IsFiniteSet(S), NEW f
    PROVE  \E g : Summing(f, g, SUBSET S)
<1> DEFINE P(n) == \E g : Summing(f, g, UpTo(S, n))
<1>1. P(0)
  <2> DEFINE g == [s \in UpTo(S, 0) |-> 0]
  <2>1. ASSUME NEW s \in UpTo(S, 0) PROVE s = {}
    <3>1. s \in SUBSET S /\ Cardinality(s) <= 0
      BY <2>1 DEF UpTo
    <3>2. IsFiniteSet(s) /\ Cardinality(s) \in Nat
      BY <3>1, FS_Subset, FS_CardinalityType
    <3>3. Cardinality(s) = 0
      BY <3>1, <3>2
    <3> QED BY <3>2, <3>3, FS_EmptySet
  <2>2. g = [s \in UpTo(S, 0) |-> SumStep(f, g, s)]
    BY <2>1 DEF SumStep
  <2> QED BY <2>2 DEF Summing
<1>2. ASSUME NEW n \in Nat, P(n) PROVE P(n + 1)
  <2>1. PICK g : Summing(f, g, UpTo(S, n))
    BY <1>2
  <2> DEFINE h == [s \in UpTo(S, n + 1) |-> SumStep(f, g, s)]
  <2>2. ASSUME NEW s \in UpTo(S, n + 1) PROVE SumStep(f, h, s) = SumStep(f, g, s)
    <3>1. CASE s = {}
      BY <3>1 DEF SumStep
    <3>2. CASE s # {}
      <4> DEFINE r == s \ {Pick(s)}
      <4>1. s \in SUBSET S /\ Cardinality(s) <= n + 1
        BY <2>2 DEF UpTo
      <4>2. r \in SUBSET S /\ Cardinality(s) \in Nat /\ Cardinality(r) = Cardinality(s) - 1
        BY <3>2, <4>1, Smaller
      <4> HIDE DEF r
      <4>3. r \in UpTo(S, n) /\ r \in UpTo(S, n + 1)
        BY <4>1, <4>2 DEF UpTo
      <4>4. h[r] = SumStep(f, g, r) /\ g[r] = SumStep(f, g, r)
        BY <2>1, <4>3 DEF Summing
      <4>5. SumStep(f, h, s) = f[Pick(s)] + h[r] /\ SumStep(f, g, s) = f[Pick(s)] + g[r]
        BY <3>2 DEF SumStep, r
      <4> HIDE DEF h
      <4> QED BY <4>4, <4>5
    <3> QED BY <3>1, <3>2
  <2>3. h = [s \in UpTo(S, n + 1) |-> SumStep(f, h, s)]
    BY <2>2
  <2> QED BY <2>3 DEF Summing
<1> HIDE DEF P
<1>3. \A n \in Nat : P(n)
  <2> SUFFICES ASSUME {n \in Nat : ~P(n)} # {} PROVE FALSE
    OBVIOUS
  <2>1. PICK n \in {m \in Nat : ~P(m)} : \A k \in {m \in Nat : ~P(m)} : n <= k
    BY LeastOf
  <2>2. n \in Nat /\ n # 0
    BY <1>1, <2>1
  <2>3. n - 1 \in Nat /\ ~(n <= n - 1) /\ (n - 1) + 1 = n
    BY <2>2
  <2>4. P(n - 1)
    BY <2>1, <2>3
  <2>5. P((n - 1) + 1)
    <3> DEFINE k == n - 1
    <3> HIDE DEF k
    <3>1. k \in Nat /\ P(k)
      BY <2>3, <2>4 DEF k
    <3>2. P(k + 1)
      BY <3>1, <1>2
    <3> QED BY <3>2 DEF k
  <2> QED BY <2>1, <2>3, <2>5
<1>4. UpTo(S, Cardinality(S)) = SUBSET S
  BY FS_Subset DEF UpTo
<1>5. P(Cardinality(S))
  BY <1>3, FS_CardinalityType
<1> QED BY <1>4, <1>5 DEF P

SumsUp(f, g, s) ==
    /\ g[s] \in Nat
    /\ \A x \in s : f[x] <= g[s]
    /\ \A x, y \in s : x # y => f[x] + f[y] <= g[s]

LEMMA SummingBounds ==
    ASSUME NEW S, IsFiniteSet(S), NEW f \in [S -> Nat], NEW g, Summing(f, g, SUBSET S)
    PROVE  \A s \in SUBSET S : SumsUp(f, g, s)
<1> DEFINE Bad == {s \in SUBSET S : ~SumsUp(f, g, s)}
           Sizes == {n \in Nat : \E s \in Bad : Cardinality(s) = n}
<1> SUFFICES ASSUME Bad # {} PROVE FALSE
  OBVIOUS
<1>1. Sizes # {}
  <2>1. PICK s \in Bad : TRUE
    OBVIOUS
  <2>2. Cardinality(s) \in Nat
    BY FS_Subset, FS_CardinalityType
  <2> QED BY <2>2
<1>2. PICK n \in Sizes : \A k \in Sizes : n <= k
  BY <1>1, LeastOf
<1>3. PICK s \in Bad : Cardinality(s) = n
  OBVIOUS
<1>4. s \in SUBSET S /\ ~SumsUp(f, g, s) /\ g[s] = SumStep(f, g, s)
  BY <1>3 DEF Summing
<1>5. CASE s = {}
  BY <1>4, <1>5 DEF SumsUp, SumStep
<1>6. CASE s # {}
  <2> DEFINE p == Pick(s)
             r == s \ {p}
  <2>1. /\ p \in s /\ r \in SUBSET S /\ Cardinality(s) \in Nat
        /\ Cardinality(r) = Cardinality(s) - 1
    BY <1>4, <1>6, Smaller
  <2>2. Cardinality(r) \in Nat
    BY <2>1, FS_Subset, FS_CardinalityType
  <2>3. r \notin Bad
    <3> SUFFICES ASSUME r \in Bad PROVE FALSE
      OBVIOUS
    <3> HIDE DEF r, Bad
    <3>1. Cardinality(r) \in Sizes
      BY <2>2
    <3> HIDE DEF Sizes
    <3>2. n <= Cardinality(r) /\ n \in Nat
      BY <1>2, <1>3, <2>1, <3>1
    <3> QED BY <1>3, <2>1, <2>2, <3>2
  <2>4. SumsUp(f, g, r)
    BY <2>1, <2>3
  <2>5. g[s] = f[p] + g[r] /\ f[p] \in Nat
    BY <1>4, <1>6, <2>1 DEF SumStep
  <2>6. \A x \in s : (x = p \/ x \in r) /\ f[x] \in Nat
    BY <1>4
  <2> HIDE DEF r, p
  <2> DEFINE gr == g[r]
             fp == f[p]
  <2>7. gr \in Nat /\ fp \in Nat /\ g[s] = fp + gr
    BY <2>4, <2>5 DEF SumsUp
  <2>8. \A x \in r : f[x] <= gr /\ f[x] \in Nat
    BY <2>4, <2>6 DEF SumsUp, r
  <2>9. \A x, y \in r : x # y => f[x] + f[y] <= gr
    BY <2>4 DEF SumsUp
  <2>10. f[p] = fp
    OBVIOUS
  <2> HIDE DEF gr, fp
  <2>11. ASSUME NEW x \in s PROVE f[x] <= fp + gr
    <3>1. CASE x = p
      BY <2>7, <2>10, <3>1
    <3>2. CASE x \in r
      BY <2>7, <2>8, <3>2
    <3> QED BY <2>6, <3>1, <3>2
  <2>12. ASSUME NEW x \in s, NEW y \in s, x # y PROVE f[x] + f[y] <= fp + gr
    <3>1. CASE x = p
      <4>1. y \in r /\ f[y] <= gr /\ f[y] \in Nat /\ f[x] = fp
        BY <2>6, <2>8, <2>10, <2>12, <3>1
      <4> QED BY <2>7, <4>1
    <3>2. CASE y = p
      <4>1. x \in r /\ f[x] <= gr /\ f[x] \in Nat /\ f[y] = fp
        BY <2>6, <2>8, <2>10, <2>12, <3>2
      <4> QED BY <2>7, <4>1
    <3>3. CASE x \in r /\ y \in r
      <4>1. f[x] + f[y] <= gr /\ f[x] \in Nat /\ f[y] \in Nat
        BY <2>8, <2>9, <2>12, <3>3
      <4> QED BY <2>7, <4>1
    <3> QED BY <2>6, <3>1, <3>2, <3>3
  <2>13. fp + gr \in Nat
    BY <2>7
  <2> QED BY <1>4, <2>7, <2>11, <2>12, <2>13 DEF SumsUp
<1> QED BY <1>5, <1>6

LEMMA SumBounds ==
    ASSUME NEW S, IsFiniteSet(S), NEW f \in [S -> Nat]
    PROVE  /\ SumFunction(f) \in Nat
           /\ \A x, y \in S : x # y => f[x] + f[y] <= SumFunction(f)
<1> DEFINE g == CHOOSE g : Summing(f, g, SUBSET S)
<1>1. SumFunction(f) = g[S]
  BY DEF SumFunction, SumFunctionOnSet, FoldFunctionOnSet, MapThenFoldSet, Summing, SumStep, Pick
<1>2. Summing(f, g, SUBSET S)
  BY SummingExists
<1> HIDE DEF g
<1>3. SumsUp(f, g, S)
  BY <1>2, SummingBounds
<1> QED BY <1>1, <1>3 DEF SumsUp

-----------------------------------------------------------------------------
(* Rows, counts and times. *)

LEMMA Numbers ==
    /\ NoTime = -1 /\ NoCount = -1 /\ MaxTime \in Nat /\ Times = 0 .. MaxTime
    /\ CountLimit \in Nat /\ CountLimit > 0 /\ LeaseDuration \in Nat /\ LeaseDuration > 0
    /\ LeaseLimit \in Nat /\ LeaseLimit > 0 /\ MaturityDen \in Nat /\ MaturityNum \in Nat
    /\ MaturityDen > 0 /\ MaturityNum > 0 /\ MaturityDen < 2 * MaturityNum
    /\ \A t \in Times : t \in Int /\ t >= 0
BY LimitAssumption DEF NoTime, NoCount, Times

LEMMA EdgeFacts ==
    /\ IsFiniteSet(Edges)
    /\ \A e \in Edges : e[1] \in Nodes /\ e[2] \in Nodes /\ e[2] \in Adjacent[e[1]]
    /\ \A s \in Nodes : \A t \in Adjacent[s] : <<s, t>> \in Edges /\ t \in Nodes /\ t # s
<1>1. IsFiniteSet(Nodes \X Nodes)
  BY MapAssumption, FS_Product
<1>2. IsFiniteSet(Edges)
  BY <1>1, FS_Subset DEF Edges
<1>3. \A s \in Nodes : \A t \in Adjacent[s] : t \in Nodes /\ t # s
  BY MapAssumption
<1>4. \A s \in Nodes : \A t \in Adjacent[s] : <<s, t>> \in Edges
  BY <1>3 DEF Edges
<1> QED BY <1>2, <1>3, <1>4 DEF Edges

CountsOK == counts \in [Edges -> 0 .. CountLimit]

LEMMA RowTotal ==
    ASSUME CountsOK, NEW s \in Nodes
    PROVE  /\ Total(s) \in Nat
           /\ \A t \in Adjacent[s] : counts[<<s, t>>] \in Nat /\ Weight(<<s, t>>) \in Nat
           /\ \A t, u \in Adjacent[s] : t # u => Weight(<<s, t>>) + Weight(<<s, u>>) <= Total(s)
<1> DEFINE f == [e \in Row(s) |-> Weight(e)]
<1>1. IsFiniteSet(Row(s))
  BY EdgeFacts, FS_Subset DEF Row
<1>2. \A e \in Edges : counts[e] \in Nat /\ Weight(e) \in Nat
  <2> SUFFICES ASSUME NEW e \in Edges PROVE counts[e] \in Nat /\ Weight(e) \in Nat
    OBVIOUS
  <2>1. counts[e] \in Nat
    BY Numbers DEF CountsOK
  <2>2. Prior[e[2]] \in Nat
    BY EdgeFacts, MapAssumption
  <2> QED BY <2>1, <2>2 DEF Weight
<1>3. f \in [Row(s) -> Nat]
  BY <1>2 DEF Row
<1>4. Total(s) = SumFunction(f)
  BY DEF Total
<1> HIDE DEF f
<1>5. Total(s) \in Nat /\ \A x, y \in Row(s) : x # y => f[x] + f[y] <= Total(s)
  BY <1>1, <1>3, <1>4, SumBounds
<1>6. ASSUME NEW t \in Adjacent[s] PROVE <<s, t>> \in Row(s) /\ f[<<s, t>>] = Weight(<<s, t>>)
  BY EdgeFacts DEF Row, f
<1>7. ASSUME NEW t \in Adjacent[s], NEW u \in Adjacent[s], t # u
      PROVE  Weight(<<s, t>>) + Weight(<<s, u>>) <= Total(s)
  <2>1. <<s, t>> # <<s, u>>
    BY <1>7
  <2> QED BY <1>5, <1>6, <2>1
<1> QED BY <1>2, <1>5, <1>7, EdgeFacts

LEMMA MinTwo ==
    ASSUME NEW i \in Int, NEW j \in Int PROVE Min({i, j}) = IF i <= j THEN i ELSE j
<1> DEFINE m == IF i <= j THEN i ELSE j
<1>1. m \in {i, j} /\ \A y \in {i, j} : m <= y
  OBVIOUS
<1>2. \A x \in {i, j} : (\A y \in {i, j} : x <= y) => x = m
  OBVIOUS
<1> HIDE DEF m
<1>3. Min({i, j}) = m
  BY <1>1, <1>2 DEF Min
<1> QED BY <1>3 DEF m

DeferredOK ==
    /\ deferred \in [Edges -> {NoCount} \cup 1 .. CountLimit]
    /\ \A e \in Edges : deferred[e] = NoCount \/ (counts[e] < deferred[e] /\ deferred[e] <= CountLimit)

\* What was learned of e: the prospective count, or the committed one.
Known(e) == IF deferred[e] = NoCount THEN counts[e] ELSE deferred[e]

LEMMA ProjectedCounts ==
    ASSUME CountsOK, DeferredOK, NEW batch \in [Edges -> Nat]
    PROVE  /\ Projected(batch) \in [Edges -> {NoCount} \cup 1 .. CountLimit]
           /\ \A e \in Edges :
                LET p == Projected(batch)[e]
                IN  /\ p = NoCount \/ (counts[e] < p /\ p <= CountLimit)
                    /\ (IF p = NoCount THEN counts[e] ELSE p) = Min({CountLimit, Known(e) + batch[e]})
<1>1. ASSUME NEW e \in Edges
      PROVE  LET p == Projected(batch)[e]
             IN  /\ p = NoCount \/ (counts[e] < p /\ p <= CountLimit)
                 /\ p \in {NoCount} \cup 1 .. CountLimit
                 /\ (IF p = NoCount THEN counts[e] ELSE p) = Min({CountLimit, Known(e) + batch[e]})
  <2> DEFINE p == Projected(batch)[e]
             q == Known(e)
             v == counts[e]
             d == deferred[e]
             w == batch[e]
             m == Min({CountLimit, q + w})
  <2>1. v \in Int /\ v >= 0 /\ v <= CountLimit /\ w \in Nat
    BY Numbers DEF CountsOK
  <2>2. d = NoCount \/ (d \in Int /\ v < d /\ d <= CountLimit)
    BY Numbers DEF DeferredOK
  <2>3. d \in {NoCount} \cup 1 .. CountLimit
    BY DEF DeferredOK
  <2>4. q = IF d = NoCount THEN v ELSE d
    BY DEF Known
  <2>5. p = IF w = 0 THEN d ELSE IF m > v THEN m ELSE NoCount
    BY DEF Projected, Known
  <2> HIDE DEF p, q, v, d, w
  <2>6. q \in Int /\ v <= q /\ q <= CountLimit
    BY <2>1, <2>2, <2>4, Numbers
  <2>7. m = IF CountLimit <= q + w THEN CountLimit ELSE q + w
    BY <2>1, <2>6, Numbers, MinTwo
  <2> HIDE DEF m
  <2>8. CASE w = 0
    BY <2>1, <2>2, <2>3, <2>4, <2>5, <2>6, <2>7, <2>8, Numbers DEF p, q, v, d, w, m
  <2>9. CASE w # 0
    <3>1. m \in Int /\ v <= m /\ m <= CountLimit /\ m >= 0
      BY <2>1, <2>6, <2>7, <2>9, Numbers
    <3>2. CASE m > v
      <4>1. p = m /\ m # NoCount /\ m \in 1 .. CountLimit
        BY <2>1, <2>5, <2>9, <3>1, <3>2, Numbers
      <4>2. /\ p = NoCount \/ (v < p /\ p <= CountLimit)
            /\ p \in {NoCount} \cup 1 .. CountLimit
            /\ (IF p = NoCount THEN v ELSE p) = m
        BY <3>1, <3>2, <4>1
      <4> QED BY <4>2 DEF p, q, v, w, m
    <3>3. CASE ~(m > v)
      <4>1. p = NoCount /\ v = m
        BY <2>1, <2>5, <2>9, <3>1, <3>3
      <4> QED BY <4>1 DEF p, q, v, w, m
    <3> QED BY <3>2, <3>3
  <2> QED BY <2>8, <2>9
<1>2. Projected(batch) = [e \in Edges |-> Projected(batch)[e]]
  BY DEF Projected
<1>3. Projected(batch) \in [Edges -> {NoCount} \cup 1 .. CountLimit]
  BY <1>1, <1>2
<1> QED BY <1>1, <1>3

-----------------------------------------------------------------------------
(* Leases. *)

GoodLease(l, at, events, sick) ==
    /\ l \in Lease /\ l.tgt \in Adjacent[l.cur]
    /\ l.created <= at /\ at < Expires(l)
    /\ events[l.tgt] <= l.created /\ l.created <= events[l.cur]
    /\ l.selected => l.cur \notin sick
    /\ LeaseExact(l)

\* Leases of one node and time come from one authorization.
OneIssue(L) ==
    \A l, k \in L : l.cur = k.cur /\ l.created = k.created =>
        l.src = k.src /\ l.selected = k.selected

GoodLeases(L, at, events, sick) ==
    /\ IsFiniteSet(L) /\ Cardinality(L) <= LeaseLimit
    /\ \A l \in L : GoodLease(l, at, events, sick)
    /\ OneIssue(L)

EventsOK(events, at) == \A n \in Nodes : events[n] \in Times \cup {NoTime} /\ events[n] <= at

\* Later events than those of the state.
LaterEvents(events, at) ==
    /\ updatedAt <= at
    /\ EventsOK(events, at) /\ \A n \in Nodes : lastEvent[n] <= events[n]

LEMMA SubsetGood ==
    ASSUME NEW L, NEW at, NEW events, NEW sick, GoodLeases(L, at, events, sick), NEW K \in SUBSET L
    PROVE  GoodLeases(K, at, events, sick)
<1>1. IsFiniteSet(K) /\ Cardinality(K) <= Cardinality(L) /\ Cardinality(K) \in Nat
      /\ Cardinality(L) \in Nat /\ Cardinality(L) <= LeaseLimit
  BY FS_Subset, FS_CardinalityType DEF GoodLeases
<1>2. Cardinality(K) <= LeaseLimit
  BY <1>1, Numbers
<1>3. \A l \in K : GoodLease(l, at, events, sick)
  BY DEF GoodLeases
<1>4. OneIssue(K)
  BY DEF GoodLeases, OneIssue
<1> QED BY <1>1, <1>2, <1>3, <1>4 DEF GoodLeases

\* What stays of the leases is in force at the later time.
LEMMA KeptGood ==
    ASSUME GoodLeases(leases, updatedAt, lastEvent, unhealthy), updatedAt \in Times,
           EventsOK(lastEvent, updatedAt),
           NEW at \in Times, NEW events, LaterEvents(events, at),
           NEW sick, NEW observed, NEW auth
    PROVE  GoodLeases(Kept(at, events, sick, observed, auth), at, events, sick)
<1> DEFINE K == Kept(at, events, sick, observed, auth)
<1>1. K \in SUBSET leases
  BY DEF Kept, Alive
<1>2. GoodLeases(K, updatedAt, lastEvent, unhealthy)
  BY <1>1, SubsetGood
<1>3. ASSUME NEW l \in K PROVE GoodLease(l, at, events, sick)
  <2>1. GoodLease(l, updatedAt, lastEvent, unhealthy)
    BY <1>2 DEF GoodLeases
  <2>2. Expires(l) > at /\ l.cur \notin sick /\ ~(events[l.tgt] > l.created)
    BY DEF Kept, Alive, Contradicted
  <2>3. l.cur \in Nodes /\ l.tgt \in Nodes /\ l.created \in Times /\ l.created \in Int
    BY <2>1, Numbers DEF GoodLease, Lease
  <2> DEFINE le == lastEvent[l.cur]
             ne == events[l.cur]
             te == events[l.tgt]
             ex == Expires(l)
             cr == l.created
  <2>4. le \in Int /\ ne \in Int /\ te \in Int /\ le <= ne /\ ex \in Int
    BY <2>3, Numbers DEF EventsOK, LaterEvents, Expires
  <2>5. cr \in Int /\ cr <= updatedAt /\ cr <= le /\ updatedAt \in Int /\ at \in Int /\ updatedAt <= at
        /\ ex > at /\ ~(te > cr)
    BY <2>1, <2>2, <2>3, Numbers DEF GoodLease, LaterEvents
  <2> HIDE DEF le, ne, te, ex, cr
  <2>6. cr <= at /\ at < ex /\ te <= cr /\ cr <= ne
    BY <2>4, <2>5
  <2> QED BY <2>1, <2>2, <2>6 DEF GoodLease, ne, te, ex, cr
<1> QED BY <1>2, <1>3 DEF GoodLeases

LEMMA CreatedGood ==
    ASSUME CountsOK, NEW n \in Nodes, NEW at \in Times, NEW events, EventsOK(events, at),
           events[n] = at, NEW sick, NEW auth \in Auths(n) \cup {NoAuth}
    PROVE  LET M == Created(auth, n, at, sick)
           IN  /\ IsFiniteSet(M)
               /\ \A l \in M : /\ GoodLease(l, at, events, sick) /\ l.cur = n /\ l.created = at
                               /\ l.src = auth.src /\ l.selected = auth.selected
               /\ auth = NoAuth => M = {}
<1> DEFINE M == Created(auth, n, at, sick)
<1>1. CASE ~Issues(auth) \/ n \in sick
  <2>1. M = {}
    BY <1>1 DEF Created
  <2> HIDE DEF M
  <2> QED BY <2>1, FS_EmptySet DEF M
<1>2. CASE ~(~Issues(auth) \/ n \in sick)
  <2> DEFINE T == (Adjacent[n] \ {auth.src}) \ sick
             made(t) == [src |-> auth.src, cur |-> n, tgt |-> t, created |-> at,
                         selected |-> auth.selected, support |-> counts[<<n, t>>],
                         weight |-> Weight(<<n, t>>), total |-> Total(n)]
  <2>1. M = {made(t) : t \in T}
    BY <1>2 DEF Created
  <2>2. auth \in Auths(n) /\ auth # NoAuth
    BY <1>2 DEF Issues
  <2>3. auth.src \in Nodes /\ auth.selected \in BOOLEAN
    BY <2>2 DEF Auths
  <2>4. IsFiniteSet(T)
    <3>1. T \in SUBSET Nodes
      BY MapAssumption
    <3> QED BY <3>1, MapAssumption, FS_Subset
  <2>5. IsFiniteSet(M)
    <3> DEFINE f == [t \in T |-> made(t)]
    <3>1. f \in Surjection(T, M)
      <4> HIDE DEF made, T, M
      <4> QED BY <2>1 DEF Surjection
    <3> QED BY <2>4, <3>1, FS_Surjection
  <2>6. ASSUME NEW t \in T PROVE GoodLease(made(t), at, events, sick)
    <3>1. t \in Adjacent[n] /\ t \in Nodes
      BY EdgeFacts
    <3>2. counts[<<n, t>>] \in Nat /\ Weight(<<n, t>>) \in Nat /\ Total(n) \in Nat
      BY <3>1, RowTotal
    <3> DEFINE su == counts[<<n, t>>]
               we == Weight(<<n, t>>)
               to == Total(n)
               l == [src |-> auth.src, cur |-> n, tgt |-> t, created |-> at,
                     selected |-> auth.selected, support |-> su, weight |-> we, total |-> to]
    <3> HIDE DEF su, we, to
    <3>3. l \in Lease
      BY <2>3, <3>1, <3>2 DEF Lease, su, we, to
    <3>4. LeaseExact(l)
      BY DEF LeaseExact, su, we, to
    <3>5. at <= at /\ at < at + LeaseDuration /\ events[t] <= at
      BY <3>1, Numbers DEF EventsOK
    <3>6. GoodLease(l, at, events, sick)
      BY <1>2, <3>1, <3>3, <3>4, <3>5 DEF GoodLease, Expires
    <3> QED BY <3>6 DEF su, we, to
  <2>7. \A t \in T : /\ made(t).cur = n /\ made(t).created = at
                     /\ made(t).src = auth.src /\ made(t).selected = auth.selected
    OBVIOUS
  <2> HIDE DEF made, T, M
  <2> QED BY <2>1, <2>2, <2>5, <2>6, <2>7 DEF M
<1> QED BY <1>1, <1>2

LEMMA BoundGood ==
    ASSUME NEW at, NEW events, NEW sick, NEW L, IsFiniteSet(L),
           \A l \in L : GoodLease(l, at, events, sick), OneIssue(L), NEW K \in BoundedSets(L)
    PROVE  K \subseteq L /\ GoodLeases(K, at, events, sick)
<1>1. K \subseteq L /\ Cardinality(K) <= LeaseLimit
  BY Numbers DEF BoundedSets
<1>2. IsFiniteSet(K)
  BY <1>1, FS_Subset
<1>3. OneIssue(K)
  BY <1>1 DEF OneIssue
<1> QED BY <1>1, <1>2, <1>3 DEF GoodLeases

\* The leases after an observation of n.
LEMMA ObservedGood ==
    ASSUME GoodLeases(leases, updatedAt, lastEvent, unhealthy), updatedAt \in Times,
           EventsOK(lastEvent, updatedAt), CountsOK,
           NEW n \in Nodes, NEW at \in Times, NEW events, LaterEvents(events, at), events[n] = at,
           NEW sick, NEW auth \in Auths(n) \cup {NoAuth}, auth # NoAuth => lastEvent[n] < at,
           NEW L \in BoundedSets(Kept(at, events, sick, {n}, auth) \cup Created(auth, n, at, sick))
    PROVE  GoodLeases(L, at, events, sick)
<1> DEFINE K == Kept(at, events, sick, {n}, auth)
           M == Created(auth, n, at, sick)
<1>1. GoodLeases(K, at, events, sick) /\ K \subseteq leases
  BY KeptGood DEF Kept, Alive
<1>2. /\ IsFiniteSet(M)
      /\ \A l \in M : /\ GoodLease(l, at, events, sick) /\ l.cur = n /\ l.created = at
                      /\ l.src = auth.src /\ l.selected = auth.selected
      /\ auth = NoAuth => M = {}
  BY CreatedGood DEF LaterEvents
<1> HIDE DEF K, M
<1>3. IsFiniteSet(K \cup M)
  BY <1>1, <1>2, FS_Union DEF GoodLeases
<1>4. ASSUME NEW l \in K, NEW k \in M, l.cur = n, l.created = at PROVE FALSE
  <2>1. lastEvent[n] < at
    BY <1>2
  <2>2. l.created <= lastEvent[l.cur]
    BY <1>1 DEF GoodLeases, GoodLease
  <2>3. lastEvent[n] \in Int /\ at \in Int
    BY Numbers DEF EventsOK
  <2> QED BY <1>4, <2>1, <2>2, <2>3
<1>5. OneIssue(K \cup M)
  <2> SUFFICES ASSUME NEW l \in K \cup M, NEW k \in K \cup M, l.cur = k.cur, l.created = k.created
               PROVE  l.src = k.src /\ l.selected = k.selected
    BY DEF OneIssue
  <2>1. CASE l \in K /\ k \in K
    BY <1>1, <2>1 DEF GoodLeases, OneIssue
  <2>2. CASE l \in M /\ k \in M
    BY <1>2, <2>2
  <2>3. CASE l \in K /\ k \in M
    BY <1>2, <1>4, <2>3
  <2>4. CASE l \in M /\ k \in K
    BY <1>2, <1>4, <2>4
  <2> QED BY <2>1, <2>2, <2>3, <2>4
<1>6. \A l \in K \cup M : GoodLease(l, at, events, sick)
  BY <1>1, <1>2 DEF GoodLeases
<1> QED BY <1>3, <1>5, <1>6, BoundGood DEF K, M

-----------------------------------------------------------------------------
(* Policies. *)

Rests(p, z, L) ==
    \/ p = Inactive \/ p = Active
    \/ \E l \in L : Mature(l) /\ Zone[l.tgt] = z /\ p = Predicted(l)

AllRest(p, L) == \A z \in Zones : Rests(p[z], z, L)

LEMMA PhaseFacts ==
    /\ Inactive.phase = "inactive" /\ Active.phase = "active" /\ Inactive # Active
    /\ \A l : Predicted(l).phase = "predicted" /\ Predicted(l).basis = Basis(l)
    /\ \A l, k : Basis(l) = Basis(k) => /\ Predicted(l) = Predicted(k)
                                        /\ l.cur = k.cur /\ l.created = k.created
                                        /\ l.weight = k.weight /\ l.total = k.total
BY DEF Inactive, Active, Predicted, Basis

LEMMA RestsPhase ==
    ASSUME NEW z, NEW L, NEW p, Rests(p, z, L), p.phase = "predicted"
    PROVE  \E l \in L : Mature(l) /\ Zone[l.tgt] = z /\ p = Predicted(l) /\ p.basis = Basis(l)
BY PhaseFacts DEF Rests

LEMMA LetGoRests ==
    ASSUME NEW L, NEW p, AllRest(p, L), NEW q \in LetGo(p)
    PROVE  AllRest(q, L) /\ \A z \in Zones : q[z] = Inactive \/ q[z] = p[z]
<1>1. \A z \in Zones : q[z] = Inactive \/ q[z] = p[z]
  BY DEF LetGo
<1> QED BY <1>1 DEF AllRest, Rests

\* Deadlines that have passed end their predictions; the others still have a lease.
LEMMA ExpiredRests ==
    ASSUME AllRest(policy, leases), leases \subseteq Lease, NEW at \in Times
    PROVE  AllRest(Expired(at), leases) /\ AllRest(Expired(at), Alive(leases, at))
<1>1. ASSUME NEW z \in Zones, Expired(at)[z] # Inactive
      PROVE  Expired(at)[z] = policy[z] /\ ~Due(policy[z], at)
  BY <1>1 DEF Expired
<1>2. AllRest(Expired(at), leases)
  BY <1>1 DEF AllRest, Rests
<1>3. ASSUME NEW z \in Zones PROVE Rests(Expired(at)[z], z, Alive(leases, at))
  <2>1. CASE Expired(at)[z] = Inactive
    BY <2>1 DEF Rests
  <2>2. CASE Expired(at)[z] = Active
    BY <2>2 DEF Rests
  <2>3. CASE Expired(at)[z] # Inactive /\ Expired(at)[z] # Active
    <3>1. Expired(at)[z] = policy[z] /\ ~Due(policy[z], at)
      BY <1>1, <2>3
    <3>2. PICK l \in leases : Mature(l) /\ Zone[l.tgt] = z /\ policy[z] = Predicted(l)
      BY <2>3, <3>1 DEF AllRest, Rests
    <3>3. ~(l.created + LeaseDuration <= at)
      <4>1. policy[z].phase = "predicted" /\ policy[z].basis = Basis(l)
        BY <3>2, PhaseFacts
      <4>2. Basis(l).created = l.created
        BY DEF Basis
      <4> QED BY <3>1, <4>1, <4>2 DEF Due
    <3>4. Expires(l) > at
      <4>1. l.created \in Int /\ at \in Int
        BY Numbers DEF Lease
      <4> DEFINE cr == l.created
      <4>2. cr \in Int /\ ~(cr + LeaseDuration <= at)
        BY <3>3, <4>1
      <4> HIDE DEF cr
      <4>3. cr + LeaseDuration > at
        BY <4>1, <4>2, Numbers
      <4> QED BY <4>3 DEF Expires, cr
    <3>5. l \in Alive(leases, at)
      BY <3>2, <3>4 DEF Alive
    <3> QED BY <3>1, <3>2, <3>5 DEF Rests
  <2> QED BY <2>1, <2>2, <2>3
<1> QED BY <1>2, <1>3 DEF AllRest

\* An evaluation leaves no prediction without a lease of L.
LEMMA EvaluatedRests ==
    ASSUME NEW was, NEW K, AllRest(was, K), NEW at, NEW L, NEW q \in Evaluated(was, at, L)
    PROVE  /\ AllRest(q, L)
           /\ \A z \in Zones : q[z] = Inactive \/ q[z] = was[z]
<1> DEFINE e == [z \in Zones |-> Elsewhere(z, was[z], at, L)]
<1>1. q \in LetGo(e)
  BY DEF Evaluated
<1>2. ASSUME NEW z \in Zones PROVE e[z] = Inactive \/ (e[z] = was[z] /\ Rests(e[z], z, L))
  <2>1. CASE e[z] = Inactive
    BY <2>1
  <2>2. CASE e[z] # Inactive
    <3>1. e[z] = was[z] /\ ~(was[z].phase = "predicted" /\ (Due(was[z], at) \/ ~Backed(z, was[z], L)))
      BY <2>2 DEF Elsewhere
    <3>2. Rests(was[z], z, K)
      BY DEF AllRest
    <3>3. CASE was[z].phase # "predicted"
      <4>1. was[z] = Inactive \/ was[z] = Active
        BY <3>2, <3>3, PhaseFacts DEF Rests
      <4> QED BY <3>1, <4>1 DEF Rests
    <3>4. CASE was[z].phase = "predicted"
      <4>1. PICK k \in K : was[z] = Predicted(k) /\ was[z].basis = Basis(k)
        BY <3>2, <3>4, RestsPhase
      <4>2. PICK l \in L : Mature(l) /\ Zone[l.tgt] = z /\ Basis(l) = was[z].basis
        BY <3>1, <3>4 DEF Backed
      <4>3. was[z] = Predicted(l)
        BY <4>1, <4>2, PhaseFacts
      <4> QED BY <3>1, <4>2, <4>3 DEF Rests
    <3> QED BY <3>3, <3>4
  <2> QED BY <2>1, <2>2
<1>3. AllRest(e, L)
  BY <1>2 DEF AllRest, Rests
<1> HIDE DEF e
<1>4. AllRest(q, L) /\ \A z \in Zones : q[z] = Inactive \/ q[z] = e[z]
  BY <1>1, <1>3, LetGoRests
<1> QED BY <1>2, <1>4

LEMMA PromotedRests ==
    ASSUME NEW z, NEW before, NEW p, NEW L, Rests(p, z, L), NEW new \in SUBSET L
    PROVE  /\ Rests(Promoted(z, before, p, new), z, L)
           /\ before.phase = "predicted" => Promoted(z, before, p, new) = p
<1> DEFINE mine == {l \in new : Mature(l) /\ Zone[l.tgt] = z}
<1>1. CASE before.phase # "predicted" /\ p = Inactive /\ mine # {}
  <2>1. (CHOOSE l \in mine : TRUE) \in mine
    BY <1>1
  <2>2. Promoted(z, before, p, new) = Predicted(CHOOSE l \in mine : TRUE)
    BY <1>1 DEF Promoted
  <2> DEFINE l == CHOOSE k \in mine : TRUE
  <2>3. l \in L /\ Mature(l) /\ Zone[l.tgt] = z
    BY <2>1
  <2> HIDE DEF l
  <2>4. Rests(Predicted(l), z, L)
    BY <2>3 DEF Rests
  <2> QED BY <1>1, <2>2, <2>4 DEF l
<1>2. CASE ~(before.phase # "predicted" /\ p = Inactive /\ mine # {})
  BY <1>2 DEF Promoted
<1> QED BY <1>1, <1>2

-----------------------------------------------------------------------------
(* The inductive invariant. *)

IInv ==
    /\ updatedAt \in Times /\ empty \in BOOLEAN
    /\ EventsOK(lastEvent, updatedAt)
    /\ DOMAIN lastEvent = Nodes /\ lastEvent = [n \in Nodes |-> lastEvent[n]] /\ unhealthy \subseteq Nodes
    /\ CountsOK /\ DeferredOK /\ pending \in [Edges -> Nat]
    /\ GoodLeases(leases, updatedAt, lastEvent, unhealthy) /\ grants = Granted(leases)
    /\ AllRest(policy, leases)
    /\ empty => leases = {} /\ \A z \in Zones : policy[z] = Inactive

\* Leases keep agreeing with counts that do not change in their rows.
LEMMA ExactPrime ==
    ASSUME CountsOK, NEW L, \A l \in L : l \in Lease /\ l.tgt \in Adjacent[l.cur],
           \A l \in L : \A e \in Edges : e[1] = l.cur => counts'[e] = counts[e]
    PROVE  \A l \in L : LeaseExact(l) => LeaseExact(l)'
<1> SUFFICES ASSUME NEW l \in L, LeaseExact(l) PROVE LeaseExact(l)'
  OBVIOUS
<1> DEFINE s == l.cur
           e == <<s, l.tgt>>
<1>1. l.cur \in Nodes /\ e \in Edges /\ e[1] = s
  BY EdgeFacts DEF Lease
<1>2. counts'[e] = counts[e] /\ \A x \in Row(s) : counts'[x] = counts[x]
  BY <1>1 DEF Row
<1>3. Weight(e)' = Weight(e)
  BY <1>2 DEF Weight
<1>4. Total(s)' = Total(s)
  <2>1. [x \in Row(s) |-> counts'[x] + Prior[x[2]]] = [x \in Row(s) |-> counts[x] + Prior[x[2]]]
    BY <1>2
  <2> QED BY <2>1 DEF Total, Weight
<1> HIDE DEF e, s
<1>5. LeaseExact(l) <=> /\ l.support = counts[e] /\ l.weight = Weight(e) /\ l.total = Total(s)
  BY DEF LeaseExact, e, s
<1>6. LeaseExact(l)' <=> /\ l.support = counts'[e] /\ l.weight = Weight(e)' /\ l.total = Total(s)'
  BY DEF LeaseExact, e, s
<1> QED BY <1>2, <1>3, <1>4, <1>5, <1>6

\* A set of leases that fits what a call leaves is the new state's.
LEMMA GoodNext ==
    ASSUME CountsOK, NEW L, NEW at, NEW events, NEW sick, GoodLeases(L, at, events, sick),
           \A l \in L : \A e \in Edges : e[1] = l.cur => counts'[e] = counts[e],
           leases' = L, updatedAt' = at, lastEvent' = events, unhealthy' = sick
    PROVE  GoodLeases(leases, updatedAt, lastEvent, unhealthy)'
<1>1. \A l \in L : LeaseExact(l)'
  <2>1. \A l \in L : l \in Lease /\ l.tgt \in Adjacent[l.cur] /\ LeaseExact(l)
    BY DEF GoodLeases, GoodLease
  <2>2. \A l \in L : LeaseExact(l) => LeaseExact(l)'
    BY <2>1, ExactPrime
  <2> QED BY <2>1, <2>2
<1>2. IsFiniteSet(leases') /\ Cardinality(leases') <= LeaseLimit /\ OneIssue(leases')
  BY DEF GoodLeases
<1>3. ASSUME NEW l \in leases'
      PROVE  /\ l \in Lease /\ l.tgt \in Adjacent[l.cur]
             /\ l.created <= updatedAt' /\ updatedAt' < Expires(l)
             /\ lastEvent'[l.tgt] <= l.created /\ l.created <= lastEvent'[l.cur]
             /\ (l.selected => l.cur \notin unhealthy')
             /\ LeaseExact(l)'
  BY <1>1 DEF GoodLeases, GoodLease
<1> QED BY <1>2, <1>3 DEF GoodLeases, GoodLease, OneIssue

LEMMA NoLeases ==
    \A at, events, sick : GoodLeases({}, at, events, sick) /\ Granted({}) = {}
<1>1. IsFiniteSet({}) /\ Cardinality({}) = 0
  BY FS_EmptySet
<1>2. Granted({}) = {}
  BY DEF Granted
<1> QED BY <1>1, <1>2, Numbers DEF GoodLeases, OneIssue

LEMMA InitInv == Init => IInv
<1> SUFFICES ASSUME Init PROVE IInv
  OBVIOUS
<1>1. updatedAt \in Times /\ empty \in BOOLEAN
  <2>1. 0 \in 0 .. MaxTime
    BY Numbers
  <2> QED BY <2>1, Numbers DEF Init
<1>2. EventsOK(lastEvent, updatedAt) /\ DOMAIN lastEvent = Nodes /\ unhealthy \subseteq Nodes
      /\ lastEvent = [n \in Nodes |-> lastEvent[n]]
  BY Numbers DEF Init, EventsOK
<1>3. CountsOK
  BY LimitAssumption DEF Init, CountsOK
<1>4. DeferredOK /\ pending \in [Edges -> Nat]
  BY DEF Init, DeferredOK, NonePending
<1>5. GoodLeases(leases, updatedAt, lastEvent, unhealthy) /\ grants = Granted(leases)
  BY NoLeases DEF Init
<1>6. AllRest(policy, leases) /\ \A z \in Zones : policy[z] = Inactive
  BY DEF Init, AllRest, Rests
<1> QED BY <1>1, <1>2, <1>3, <1>4, <1>5, <1>6 DEF IInv, Init

LEMMA LearnKeeps ==
    ASSUME CountsOK, DeferredOK, pending \in [Edges -> Nat], NEW batch \in [Edges -> Nat],
           counts' = counts, deferred' = Projected(pending), pending' = batch
    PROVE  CountsOK' /\ DeferredOK' /\ (pending \in [Edges -> Nat])'
<1>1. Projected(pending) \in [Edges -> {NoCount} \cup 1 .. CountLimit]
  BY ProjectedCounts
<1>2. \A e \in Edges : Projected(pending)[e] = NoCount
                       \/ (counts[e] < Projected(pending)[e] /\ Projected(pending)[e] <= CountLimit)
  BY ProjectedCounts
<1> QED BY <1>1, <1>2 DEF CountsOK, DeferredOK

LEMMA BatchType ==
    ASSUME NEW n \in Nodes, NEW auth \in Auths(n) \cup {NoAuth}
    PROVE  Batch(n, auth) \in [Edges -> Nat] /\ NonePending \in [Edges -> Nat]
BY DEF Batch, NonePending

LEMMA ObserveInv ==
    ASSUME IInv, NEW n \in Nodes, NEW auth \in Auths(n) \cup {NoAuth}, NEW at \in Times,
           NEW sick, NEW occupied, Observe(n, at, auth, sick, occupied)
    PROVE  IInv'
<1> DEFINE events == [lastEvent EXCEPT ![n] = at]
           unwell == IF sick THEN unhealthy \cup {n} ELSE unhealthy \ {n}
           made == Created(auth, n, at, unwell)
           K == Kept(at, events, unwell, {n}, auth)
           was == Expired(at)
           local == IF occupied THEN Active ELSE Inactive
<1>1. /\ ~empty /\ updatedAt <= at /\ (auth # NoAuth => lastEvent[n] < at)
      /\ updatedAt' = at /\ lastEvent' = events /\ unhealthy' = unwell
      /\ leases' \in BoundedSets(K \cup made) /\ grants' = Granted(leases')
      /\ \E q \in Evaluated(was, at, leases') :
            policy' = [z \in Zones |->
                Promoted(z, was[z], IF z = Zone[n] THEN local ELSE q[z], made \cap leases')]
      /\ Learn(Batch(n, auth)) /\ empty' = empty
  BY DEF Observe
<1>2. /\ LaterEvents(events, at) /\ events[n] = at
      /\ DOMAIN events = Nodes /\ events = [m \in Nodes |-> events[m]]
  <2>1. /\ \A m \in Nodes : /\ lastEvent[m] \in Times \cup {NoTime} /\ lastEvent[m] <= updatedAt
                            /\ lastEvent[m] \in Int
        /\ updatedAt \in Int /\ at \in Int
    BY Numbers DEF IInv, EventsOK
  <2>2. events[n] = at /\ \A m \in Nodes : m # n => events[m] = lastEvent[m]
    BY DEF IInv
  <2>3. ASSUME NEW m \in Nodes
        PROVE  events[m] \in Times \cup {NoTime} /\ events[m] <= at /\ lastEvent[m] <= events[m]
    <3> DEFINE old == lastEvent[m]
    <3>1. old \in Int /\ old <= updatedAt /\ old \in Times \cup {NoTime}
      BY <2>1
    <3> HIDE DEF old
    <3>2. old <= at
      BY <1>1, <2>1, <3>1
    <3> QED BY <2>1, <2>2, <3>1, <3>2 DEF old
  <2>4. DOMAIN events = Nodes /\ events = [m \in Nodes |-> events[m]]
    BY DEF IInv
  <2> QED BY <1>1, <2>2, <2>3, <2>4 DEF LaterEvents, EventsOK
<1> HIDE DEF events
<1>3. unwell \subseteq Nodes
  BY DEF IInv
<1> HIDE DEF unwell, local
<1>4. GoodLeases(leases', at, events, unwell)
  BY <1>1, <1>2, ObservedGood DEF IInv
<1>5. counts' = counts /\ GoodLeases(leases, updatedAt, lastEvent, unhealthy)'
  <2>1. counts' = counts
    BY <1>1 DEF Learn
  <2> QED BY <1>1, <1>4, <2>1, GoodNext DEF IInv
<1>6. CountsOK' /\ DeferredOK' /\ (pending \in [Edges -> Nat])'
  BY <1>1, LearnKeeps, BatchType DEF Learn, IInv
<1>7. AllRest(policy', leases')
  <2>1. PICK q \in Evaluated(was, at, leases') :
            policy' = [z \in Zones |->
                Promoted(z, was[z], IF z = Zone[n] THEN local ELSE q[z], made \cap leases')]
    BY <1>1
  <2>2. AllRest(was, leases)
    BY ExpiredRests DEF IInv, GoodLeases, GoodLease
  <2> HIDE DEF was, made
  <2>3. AllRest(q, leases')
    BY <2>1, <2>2, EvaluatedRests
  <2>4. ASSUME NEW z \in Zones PROVE Rests(policy'[z], z, leases')
    <3> DEFINE p == IF z = Zone[n] THEN local ELSE q[z]
    <3>1. Rests(p, z, leases')
      BY <2>3 DEF AllRest, Rests, local
    <3>2. policy'[z] = Promoted(z, was[z], p, made \cap leases')
      BY <2>1
    <3> HIDE DEF p
    <3> QED BY <3>1, <3>2, PromotedRests
  <2> QED BY <2>4 DEF AllRest
<1>8. EventsOK(lastEvent', updatedAt')
  BY <1>1, <1>2 DEF LaterEvents
<1>9. AllRest(policy, leases)'
  BY <1>7 DEF AllRest, Rests
<1> QED BY <1>1, <1>2, <1>3, <1>5, <1>6, <1>8, <1>9 DEF IInv, EventsOK

\* Leases and policies after a call that issues no lease.
LEMMA Quiet ==
    ASSUME IInv, NEW at \in Times, NEW events, LaterEvents(events, at),
           events = [n \in Nodes |-> events[n]], NEW sick \in SUBSET Nodes,
           leases' = IF empty THEN {} ELSE Kept(at, events, sick, {}, NoAuth),
           updatedAt' = at, lastEvent' = events, unhealthy' = sick,
           grants' = Granted(leases'), policy' \in Evaluated(policy, at, leases'),
           empty' = empty, counts' = counts,
           DeferredOK', (pending \in [Edges -> Nat])'
    PROVE  IInv'
<1>1. GoodLeases(leases', at, events, sick)
  <2>1. CASE empty
    BY <2>1, NoLeases
  <2>2. CASE ~empty
    BY <2>2, KeptGood DEF IInv
  <2> QED BY <2>1, <2>2
<1>2. GoodLeases(leases, updatedAt, lastEvent, unhealthy)'
  BY <1>1, GoodNext DEF IInv
<1>3. AllRest(policy', leases') /\ \A z \in Zones : policy'[z] = Inactive \/ policy'[z] = policy[z]
  BY EvaluatedRests DEF IInv
<1>4. AllRest(policy, leases)'
  BY <1>3 DEF AllRest, Rests
<1>5. CountsOK'
  BY DEF IInv, CountsOK
<1>6. empty' => leases' = {} /\ \A z \in Zones : policy'[z] = Inactive
  BY <1>3 DEF IInv
<1>7. EventsOK(events, at)
  BY DEF LaterEvents
<1> QED BY <1>2, <1>4, <1>5, <1>6, <1>7 DEF IInv, EventsOK

\* Only time has passed since the events of the state.
LEMMA SameEvents ==
    ASSUME IInv, NEW at \in Times, updatedAt <= at
    PROVE  LaterEvents(lastEvent, at)
<1>1. updatedAt \in Int /\ at \in Int
  BY Numbers DEF IInv
<1>2. ASSUME NEW n \in Nodes
      PROVE  lastEvent[n] \in Times \cup {NoTime} /\ lastEvent[n] <= at /\ lastEvent[n] <= lastEvent[n]
  <2>1. lastEvent[n] \in Times \cup {NoTime} /\ lastEvent[n] <= updatedAt /\ lastEvent[n] \in Int
    BY Numbers DEF IInv, EventsOK
  <2> DEFINE e == lastEvent[n]
  <2>2. e \in Times \cup {NoTime} /\ e <= updatedAt /\ e \in Int
    BY <2>1
  <2> HIDE DEF e
  <2>3. e <= at
    BY <1>1, <2>2
  <2> QED BY <2>2, <2>3 DEF e
<1> QED BY <1>2 DEF LaterEvents, EventsOK

LEMMA AdvanceInv ==
    ASSUME IInv, NEW at \in Times, Advance(at)
    PROVE  IInv'
<1>1. LaterEvents(lastEvent, at)
  BY SameEvents DEF Advance
<1>2. /\ leases' = (IF empty THEN {} ELSE Kept(at, lastEvent, unhealthy, {}, NoAuth))
      /\ updatedAt' = at /\ lastEvent' = lastEvent /\ unhealthy' = unhealthy
      /\ grants' = Granted(leases') /\ policy' \in Evaluated(policy, at, leases')
      /\ empty' = empty /\ counts' = counts
  BY DEF Advance, learning
<1>3. DeferredOK' /\ (pending \in [Edges -> Nat])'
  BY DEF Advance, learning, IInv, DeferredOK
<1>4. lastEvent = [n \in Nodes |-> lastEvent[n]] /\ unhealthy \in SUBSET Nodes
  BY DEF IInv
<1> QED BY <1>1, <1>2, <1>3, <1>4, Quiet

LEMMA RestartInv ==
    ASSUME IInv, NEW at \in Times, NEW changed \in SUBSET Nodes,
           NEW sick \in SUBSET (changed \cap Fallible), Restart(at, changed, sick)
    PROVE  IInv'
<1> DEFINE events == [n \in Nodes |-> IF n \in changed THEN at ELSE lastEvent[n]]
           unwell == (unhealthy \ changed) \cup sick
<1>1. /\ leases' = (IF empty THEN {} ELSE Kept(at, lastEvent', unhealthy', {}, NoAuth))
      /\ updatedAt' = at /\ lastEvent' = events /\ unhealthy' = unwell
      /\ grants' = Granted(leases') /\ policy' \in Evaluated(policy, at, leases')
      /\ empty' = empty /\ counts' = counts
      /\ deferred' = Projected(pending) /\ pending' = NonePending /\ updatedAt <= at
  BY DEF Restart
<1>2. LaterEvents(events, at) /\ events = [n \in Nodes |-> events[n]]
  <2>1. LaterEvents(lastEvent, at) /\ at \in Int
    BY <1>1, SameEvents, Numbers
  <2>2. ASSUME NEW n \in Nodes
        PROVE  events[n] \in Times \cup {NoTime} /\ events[n] <= at /\ lastEvent[n] <= events[n]
    <3>1. lastEvent[n] \in Times \cup {NoTime} /\ lastEvent[n] <= at /\ lastEvent[n] <= lastEvent[n]
      BY <2>1 DEF LaterEvents, EventsOK
    <3>2. CASE n \in changed
      BY <2>1, <3>1, <3>2
    <3>3. CASE n \notin changed
      BY <3>1, <3>3
    <3> QED BY <3>2, <3>3
  <2> QED BY <1>1, <2>2 DEF LaterEvents, EventsOK
<1>3. unwell \in SUBSET Nodes
  BY DEF IInv
<1>4. NonePending \in [Edges -> Nat]
  BY DEF NonePending
<1>5. DeferredOK' /\ (pending \in [Edges -> Nat])'
  BY <1>1, <1>4, LearnKeeps DEF IInv
<1> HIDE DEF events, unwell
<1>6. leases' = IF empty THEN {} ELSE Kept(at, events, unwell, {}, NoAuth)
  BY <1>1
<1> QED BY <1>1, <1>2, <1>3, <1>5, <1>6, Quiet

LEMMA RejectedInv ==
    ASSUME IInv, NEW at \in Times, Rejected(at)
    PROVE  IInv'
<1> DEFINE L == Alive(leases, at)
<1>1. LaterEvents(lastEvent, at)
  BY SameEvents DEF Rejected
<1>2. /\ leases' = L /\ updatedAt' = at /\ lastEvent' = lastEvent /\ unhealthy' = unhealthy
      /\ grants' = Granted(leases') /\ policy' \in LetGo(Expired(at))
      /\ empty' = empty /\ counts' = counts /\ deferred' = deferred /\ pending' = pending
      /\ updatedAt <= at
  BY DEF Rejected, learning
<1>3. GoodLeases(L, at, lastEvent, unhealthy)
  <2>1. L \in SUBSET leases
    BY DEF Alive
  <2>2. GoodLeases(L, updatedAt, lastEvent, unhealthy)
    BY <2>1, SubsetGood DEF IInv
  <2>3. ASSUME NEW l \in L PROVE GoodLease(l, at, lastEvent, unhealthy)
    <3>1. GoodLease(l, updatedAt, lastEvent, unhealthy) /\ Expires(l) > at
      BY <2>2 DEF GoodLeases, Alive
    <3> DEFINE cr == l.created
               ex == Expires(l)
    <3>2. cr \in Int /\ ex \in Int
      BY <3>1, Numbers DEF GoodLease, Lease, Expires
    <3>3. cr <= updatedAt /\ updatedAt <= at /\ updatedAt \in Int /\ at \in Int /\ ex > at
      BY <1>2, <3>1, Numbers DEF GoodLease, IInv
    <3> HIDE DEF cr, ex
    <3>4. cr <= at /\ at < ex
      BY <3>2, <3>3
    <3> QED BY <3>1, <3>4 DEF GoodLease, cr, ex
  <2> QED BY <2>2, <2>3 DEF GoodLeases
<1>4. AllRest(Expired(at), leases) /\ AllRest(Expired(at), L)
  BY ExpiredRests DEF IInv, GoodLeases, GoodLease
<1> HIDE DEF L
<1>5. GoodLeases(leases, updatedAt, lastEvent, unhealthy)'
  BY <1>2, <1>3, GoodNext DEF IInv
<1>6. AllRest(policy', leases') /\ \A z \in Zones : policy'[z] = Inactive \/ policy'[z] = Expired(at)[z]
  BY <1>2, <1>4, LetGoRests
<1>7. AllRest(policy, leases)'
  BY <1>6 DEF AllRest, Rests
<1>8. \A z \in Zones : policy'[z] = Inactive \/ policy'[z] = policy[z]
  BY <1>6 DEF Expired
<1>9. empty' => leases' = {} /\ \A z \in Zones : policy'[z] = Inactive
  BY <1>2, <1>8 DEF IInv, L, Alive
<1>10. EventsOK(lastEvent, at)
  BY <1>1 DEF LaterEvents
<1> QED BY <1>2, <1>5, <1>7, <1>9, <1>10 DEF IInv, EventsOK, CountsOK, DeferredOK

\* While nobody is expected there is neither a lease nor a prediction.
LEMMA Emptied ==
    ASSUME IInv, NEW at \in Times, updatedAt <= at, NEW events, LaterEvents(events, at),
           events = [n \in Nodes |-> events[n]], NEW sick \in SUBSET Nodes,
           leases' = {}, grants' = {}, \A z \in Zones : policy'[z] = Inactive,
           updatedAt' = at, lastEvent' = events, unhealthy' = sick, empty' \in BOOLEAN,
           CountsOK', DeferredOK', (pending \in [Edges -> Nat])'
    PROVE  IInv'
<1>1. IsFiniteSet({}) /\ Cardinality({}) = 0 /\ Granted({}) = {}
  BY FS_EmptySet DEF Granted
<1>2. IsFiniteSet(leases') /\ Cardinality(leases') <= LeaseLimit
  BY <1>1, Numbers
<1>3. GoodLeases(leases, updatedAt, lastEvent, unhealthy)'
  BY <1>2 DEF GoodLeases, OneIssue
<1>4. AllRest(policy, leases)'
  BY DEF AllRest, Rests
<1>5. EventsOK(events, at)
  BY DEF LaterEvents
<1> QED BY <1>1, <1>3, <1>4, <1>5 DEF IInv, EventsOK

LEMMA CountInv ==
    ASSUME IInv, NEW at \in Times, CountZero(at) \/ CountPositive(at)
    PROVE  IInv'
<1>1. LaterEvents(lastEvent, at) /\ updatedAt <= at
  BY SameEvents DEF CountZero, CountPositive
<1>2. /\ updatedAt' = at /\ lastEvent' = lastEvent /\ unhealthy' = unhealthy
      /\ counts' = counts /\ deferred' = deferred /\ pending' = pending
  BY DEF CountZero, CountPositive, learning
<1>3. leases' = {} /\ grants' = {} /\ (\A z \in Zones : policy'[z] = Inactive) /\ empty' \in BOOLEAN
  <2>1. CASE CountZero(at)
    BY <2>1 DEF CountZero
  <2>2. CASE CountPositive(at)
    BY <2>2, NoLeases DEF CountPositive, IInv
  <2> QED BY <2>1, <2>2
<1>4. CountsOK' /\ DeferredOK' /\ (pending \in [Edges -> Nat])'
  BY <1>2 DEF IInv, CountsOK, DeferredOK
<1>5. lastEvent = [n \in Nodes |-> lastEvent[n]] /\ unhealthy \in SUBSET Nodes
  BY DEF IInv
<1> QED BY <1>1, <1>2, <1>3, <1>4, <1>5, Emptied

LEMMA ObserveEmptyInv ==
    ASSUME IInv, NEW n \in Nodes, NEW at \in Times, NEW sick, ObserveEmpty(n, at, sick)
    PROVE  IInv'
<1> DEFINE events == [lastEvent EXCEPT ![n] = at]
           unwell == IF sick THEN unhealthy \cup {n} ELSE unhealthy \ {n}
<1>1. /\ empty /\ updatedAt <= at /\ updatedAt' = at /\ lastEvent' = events /\ unhealthy' = unwell
      /\ Learn(NonePending) /\ empty' = empty /\ leases' = leases /\ grants' = grants
      /\ policy' = policy
  BY DEF ObserveEmpty
<1>2. LaterEvents(lastEvent, at) /\ at \in Int
  BY <1>1, SameEvents, Numbers
<1>3. LaterEvents(events, at) /\ events = [m \in Nodes |-> events[m]]
  <2>1. events[n] = at /\ \A m \in Nodes : m # n => events[m] = lastEvent[m]
    BY DEF IInv
  <2>2. events = [m \in Nodes |-> events[m]]
    BY DEF IInv
  <2>3. ASSUME NEW m \in Nodes
        PROVE  events[m] \in Times \cup {NoTime} /\ events[m] <= at /\ lastEvent[m] <= events[m]
    <3>1. lastEvent[m] \in Times \cup {NoTime} /\ lastEvent[m] <= at /\ lastEvent[m] <= lastEvent[m]
      BY <1>2 DEF LaterEvents, EventsOK
    <3>2. CASE m = n
      BY <1>2, <2>1, <3>1, <3>2
    <3>3. CASE m # n
      BY <2>1, <3>1, <3>3
    <3> QED BY <3>2, <3>3
  <2> QED BY <1>1, <2>2, <2>3 DEF LaterEvents, EventsOK
<1>4. unwell \in SUBSET Nodes
  BY DEF IInv
<1>5. NonePending \in [Edges -> Nat]
  BY DEF NonePending
<1>6. CountsOK' /\ DeferredOK' /\ (pending \in [Edges -> Nat])'
  BY <1>1, <1>5, LearnKeeps DEF Learn, IInv
<1>7. leases' = {} /\ grants' = {} /\ (\A z \in Zones : policy'[z] = Inactive) /\ empty' \in BOOLEAN
  BY <1>1, NoLeases DEF IInv
<1> HIDE DEF events, unwell
<1> QED BY <1>1, <1>3, <1>4, <1>6, <1>7, Emptied

\* Publication commits the rows on which no lease stands, and only those.
LEMMA CommitInv ==
    ASSUME IInv, CommitLearning
    PROVE  IInv'
<1> DEFINE P == Projected(pending)
<1>1. /\ P \in [Edges -> {NoCount} \cup 1 .. CountLimit]
      /\ \A e \in Edges : P[e] = NoCount \/ (counts[e] < P[e] /\ P[e] <= CountLimit)
  BY ProjectedCounts DEF IInv
<1>2. /\ counts' = [e \in Edges |-> IF P[e] # NoCount /\ e[1] \notin Blocked(leases)
                                    THEN P[e] ELSE counts[e]]
      /\ deferred' = [e \in Edges |-> IF e[1] \notin Blocked(leases) THEN NoCount ELSE P[e]]
      /\ pending' = NonePending
      /\ updatedAt' = updatedAt /\ empty' = empty /\ lastEvent' = lastEvent
      /\ unhealthy' = unhealthy /\ leases' = leases /\ grants' = grants /\ policy' = policy
  BY DEF CommitLearning
<1> HIDE DEF P
<1>3. \A e \in Edges : counts[e] \in 0 .. CountLimit
  BY DEF IInv, CountsOK
<1>4. CountsOK'
  <2>1. ASSUME NEW e \in Edges PROVE counts'[e] \in 0 .. CountLimit
    <3>1. P[e] \in {NoCount} \cup 1 .. CountLimit /\ counts[e] \in 0 .. CountLimit
      BY <1>1, <1>3
    <3>2. P[e] # NoCount => P[e] \in 0 .. CountLimit
      BY <3>1, Numbers
    <3> QED BY <1>2, <3>1, <3>2
  <2> QED BY <1>2, <2>1 DEF CountsOK
<1>5. DeferredOK'
  <2>1. ASSUME NEW e \in Edges
        PROVE  /\ deferred'[e] \in {NoCount} \cup 1 .. CountLimit
               /\ deferred'[e] = NoCount \/ (counts'[e] < deferred'[e] /\ deferred'[e] <= CountLimit)
    <3>1. CASE e[1] \notin Blocked(leases)
      BY <1>2, <3>1
    <3>2. CASE e[1] \in Blocked(leases)
      <4>1. deferred'[e] = P[e] /\ counts'[e] = counts[e]
        BY <1>2, <3>2
      <4> QED BY <1>1, <4>1
    <3> QED BY <3>1, <3>2
  <2> QED BY <1>2, <2>1 DEF DeferredOK
<1>6. (pending \in [Edges -> Nat])'
  BY <1>2 DEF NonePending
<1>7. \A l \in leases : \A e \in Edges : e[1] = l.cur => counts'[e] = counts[e]
  BY <1>2 DEF Blocked
<1>8. GoodLeases(leases, updatedAt, lastEvent, unhealthy)'
  BY <1>2, <1>7, GoodNext DEF IInv
<1>9. AllRest(policy, leases)' /\ EventsOK(lastEvent, updatedAt)'
  BY <1>2 DEF IInv, AllRest, Rests, EventsOK
<1> QED BY <1>2, <1>4, <1>5, <1>6, <1>8, <1>9 DEF IInv

\* The invariant holds after every call.
LEMMA NextInv ==
    ASSUME IInv, [Next]_vars
    PROVE  IInv'
<1>1. CASE \E n \in Nodes : \E auth \in Auths(n) \cup {NoAuth} : ObserveSome(n, auth)
  BY <1>1, ObserveInv DEF ObserveSome
<1>2. CASE Unobserving
  <2>1. CASE \E at \in Times : Rejected(at)
    BY <2>1, RejectedInv
  <2>2. CASE \E at \in Times : Advance(at)
    BY <2>2, AdvanceInv
  <2>3. CASE \E at \in Times : CountZero(at)
    BY <2>3, CountInv
  <2>4. CASE \E at \in Times : CountPositive(at)
    BY <2>4, CountInv
  <2>5. CASE \E n \in Nodes, at \in Times : \E sick \in SickAllowed(n) : ObserveEmpty(n, at, sick)
    BY <2>5, ObserveEmptyInv
  <2>6. CASE CommitLearning
    BY <2>6, CommitInv
  <2>7. CASE \E at \in Times, changed \in SUBSET Nodes :
                \E sick \in SUBSET (changed \cap Fallible) : Restart(at, changed, sick)
    BY <2>7, RestartInv
  <2> QED BY <1>2, <2>1, <2>2, <2>3, <2>4, <2>5, <2>6, <2>7 DEF Unobserving
<1>3. CASE UNCHANGED vars
  BY <1>3 DEF vars, learning, IInv, EventsOK, CountsOK, DeferredOK, GoodLeases, GoodLease,
              OneIssue, AllRest, Rests, LeaseExact, Weight, Total
<1> QED BY <1>1, <1>2, <1>3 DEF Next

LEMMA Inductive == Spec => []IInv
<1>1. Init => IInv
  BY InitInv
<1>2. IInv /\ [Next]_vars => IInv'
  BY NextInv
<1> QED BY <1>1, <1>2, PTL DEF Spec

-----------------------------------------------------------------------------
(* The theorems. *)

\* Between calls the lease manager holds what its restore accepts: leases in
\* force, each agreeing with the counts of the row it was computed from, within
\* LEASE_LIMIT, and no prospective count at or below the committed one.
THEOREM LeasesRestorable == Spec => []Restorable
<1>1. IInv => Restorable
  <2> SUFFICES ASSUME IInv PROVE Restorable
    OBVIOUS
  <2>1. \A l \in leases : l \in Lease /\ LeaseCurrent(l) /\ LeaseExact(l)
    BY DEF IInv, GoodLeases, GoodLease, LeaseCurrent
  <2>2. \A z \in Zones : policy[z].phase \in {"inactive", "active", "predicted"}
    <3> SUFFICES ASSUME NEW z \in Zones PROVE policy[z].phase \in {"inactive", "active", "predicted"}
      OBVIOUS
    <3>1. Rests(policy[z], z, leases)
      BY DEF IInv, AllRest
    <3>2. CASE policy[z] = Inactive
      BY <3>2, PhaseFacts
    <3>3. CASE policy[z] = Active
      BY <3>3, PhaseFacts
    <3>4. CASE \E l \in leases : policy[z] = Predicted(l)
      BY <3>4, PhaseFacts
    <3> QED BY <3>1, <3>2, <3>3, <3>4 DEF Rests
  <2>3. lastEvent \in [Nodes -> Times \cup {NoTime}]
    <3>1. \A n \in Nodes : lastEvent[n] \in Times \cup {NoTime}
      BY DEF IInv, EventsOK
    <3>2. lastEvent = [n \in Nodes |-> lastEvent[n]]
      BY DEF IInv
    <3> QED BY <3>1, <3>2
  <2>4. TypeOK
    BY <2>1, <2>2, <2>3 DEF TypeOK, IInv, CountsOK, DeferredOK
  <2> QED BY <2>1, <2>4 DEF Restorable, IInv, GoodLeases, DeferredOK
<1> QED BY <1>1, Inductive, PTL

\* Only one target of a row can be mature: its weight is more than half the total.
LEMMA OneMature ==
    ASSUME CountsOK, NEW s \in Nodes, NEW t \in Adjacent[s], NEW u \in Adjacent[s],
           NEW w \in Nat, NEW r \in Nat, Weight(<<s, t>>) = w, Weight(<<s, u>>) = w, Total(s) = r,
           w * MaturityDen >= MaturityNum * r
    PROVE  t = u
<1> SUFFICES ASSUME t # u PROVE FALSE
  OBVIOUS
<1>1. w + w <= r
  BY RowTotal
<1>2. w > 0
  <2>1. <<s, t>> \in Edges /\ t \in Nodes
    BY EdgeFacts
  <2>2. counts[<<s, t>>] \in Int /\ counts[<<s, t>>] >= 0
    BY <2>1, Numbers DEF CountsOK
  <2>3. Prior[t] \in Nat /\ Prior[t] > 0
    BY <2>1, MapAssumption
  <2> DEFINE i == counts[<<s, t>>]
             j == Prior[t]
  <2>4. w = i + j
    BY DEF Weight
  <2> HIDE DEF i, j
  <2>5. i \in Int /\ i >= 0 /\ j \in Int /\ j > 0
    BY <2>2, <2>3 DEF i, j
  <2> QED BY <2>4, <2>5
<1>3. MaturityNum * r >= MaturityNum * (w + w)
  BY <1>1, Numbers
<1>4. w * MaturityDen < w * (2 * MaturityNum)
  BY <1>2, Numbers
<1>5. w * (2 * MaturityNum) = MaturityNum * (w + w)
  BY Numbers
<1> DEFINE x == w * MaturityDen
           y == MaturityNum * r
           v == w * (2 * MaturityNum)
           q == MaturityNum * (w + w)
<1>6. x \in Int /\ y \in Int /\ v \in Int /\ q \in Int
  BY Numbers
<1>7. y >= q /\ x < v /\ v = q /\ x >= y
  BY <1>3, <1>4, <1>5
<1> HIDE DEF x, y, v, q
<1> QED BY <1>6, <1>7

\* Every predicted zone has one mature lease, after whatever sequence of
\* authorizations, evictions, contradictions, deadlines and restarts.
THEOREM PredictionsBacked == Spec => []PredictedBacked
<1>1. IInv => PredictedBacked
  <2> SUFFICES ASSUME IInv, NEW z \in Zones, policy[z].phase = "predicted"
               PROVE  Cardinality({l \in leases : Mature(l) /\ Zone[l.tgt] = z
                                                  /\ Basis(l) = policy[z].basis}) = 1
    BY DEF PredictedBacked
  <2> DEFINE S == {l \in leases : Mature(l) /\ Zone[l.tgt] = z /\ Basis(l) = policy[z].basis}
  <2>1. PICK l \in leases : Mature(l) /\ Zone[l.tgt] = z /\ policy[z].basis = Basis(l)
    BY RestsPhase DEF IInv, AllRest
  <2>2. l \in S
    BY <2>1
  <2>3. ASSUME NEW k \in S PROVE k = l
    <3>1. k \in leases /\ Mature(k) /\ Basis(k) = Basis(l)
      BY <2>1
    <3>2. /\ k.cur = l.cur /\ k.created = l.created /\ k.support = l.support
          /\ k.weight = l.weight /\ k.total = l.total
      BY <3>1 DEF Basis
    <3>3. k.src = l.src /\ k.selected = l.selected
      BY <3>1, <3>2 DEF IInv, GoodLeases, OneIssue
    <3>4. /\ k \in Lease /\ l \in Lease /\ LeaseExact(k) /\ LeaseExact(l)
          /\ k.tgt \in Adjacent[k.cur] /\ l.tgt \in Adjacent[l.cur]
      BY <3>1 DEF IInv, GoodLeases, GoodLease
    <3> DEFINE s == l.cur
               t == k.tgt
               u == l.tgt
               w == l.weight
               r == l.total
    <3>5. s \in Nodes /\ t \in Adjacent[s] /\ u \in Adjacent[s] /\ w \in Nat /\ r \in Nat
      BY <3>2, <3>4 DEF Lease
    <3>6. Weight(<<s, t>>) = w /\ Weight(<<s, u>>) = w /\ Total(s) = r
      BY <3>2, <3>4 DEF LeaseExact
    <3>7. w * MaturityDen >= MaturityNum * r
      BY <2>1 DEF Mature
    <3> HIDE DEF s, t, u, w, r
    <3>8. t = u
      BY <3>5, <3>6, <3>7, OneMature DEF IInv
    <3> QED BY <3>2, <3>3, <3>4, <3>8 DEF Lease, t, u
  <2>4. S = {l}
    BY <2>2, <2>3
  <2> HIDE DEF S
  <2>5. Cardinality(S) = 1
    BY <2>4, FS_Singleton
  <2> QED BY <2>5 DEF S
<1> QED BY <1>1, Inductive, PTL

\* No call renews a prediction: a zone that stays predicted keeps its basis, and
\* another lease takes over only when the deadline had passed.
THEOREM PredictionsNotRenewed == Spec => NonRenewing
<1>1. ASSUME IInv, [Next]_vars
      PROVE  [\A z \in Zones : policy[z].phase = "predicted" /\ policy'[z].phase = "predicted"
                => policy'[z].basis = policy[z].basis \/ Due(policy[z], updatedAt')]_vars
  <2> SUFFICES ASSUME Next, NEW z \in Zones, policy[z].phase = "predicted",
                      policy'[z].phase = "predicted", ~Due(policy[z], updatedAt')
               PROVE  policy'[z].basis = policy[z].basis
    BY <1>1
  <2>1. CASE \E n \in Nodes : \E auth \in Auths(n) \cup {NoAuth} : ObserveSome(n, auth)
    <3>1. PICK n \in Nodes, at \in Times, sick \in BOOLEAN, occupied \in BOOLEAN :
                \E auth \in Auths(n) \cup {NoAuth} : Observe(n, at, auth, sick, occupied)
      BY <2>1 DEF ObserveSome, SickAllowed
    <3>2. PICK auth \in Auths(n) \cup {NoAuth} : Observe(n, at, auth, sick, occupied)
      BY <3>1
    <3> DEFINE was == Expired(at)
               local == IF occupied THEN Active ELSE Inactive
               made == Created(auth, n, at, unhealthy')
    <3>3. PICK q \in Evaluated(was, at, leases') :
              policy' = [x \in Zones |->
                  Promoted(x, was[x], IF x = Zone[n] THEN local ELSE q[x], made \cap leases')]
      BY <3>2 DEF Observe
    <3>4. updatedAt' = at
      BY <3>2 DEF Observe
    <3>5. was[z] = policy[z]
      BY <3>4 DEF Expired
    <3>6. AllRest(was, leases)
      BY ExpiredRests, <1>1 DEF IInv, GoodLeases, GoodLease
    <3> HIDE DEF was, made
    <3>7. \A x \in Zones : q[x] = Inactive \/ q[x] = was[x]
      BY <3>3, <3>6, EvaluatedRests
    <3> DEFINE p == IF z = Zone[n] THEN local ELSE q[z]
               new == made \cap leases'
    <3>8. p = Inactive \/ p = Active \/ p = policy[z]
      BY <3>5, <3>7
    <3>9. policy'[z] = Promoted(z, was[z], p, new)
      BY <3>3
    <3> HIDE DEF p, new
    <3>10. policy'[z] = p
      BY <3>5, <3>9 DEF Promoted
    <3> QED BY <3>8, <3>10, PhaseFacts
  <2>2. CASE \E at \in Times : Rejected(at)
    <3>1. PICK at \in Times : Rejected(at)
      BY <2>2
    <3>2. policy' \in LetGo(Expired(at))
      BY <3>1 DEF Rejected
    <3>3. policy'[z] = Inactive \/ policy'[z] = policy[z]
      BY <3>2 DEF LetGo, Expired
    <3> QED BY <3>3, PhaseFacts
  <2>3. CASE \/ \E at \in Times : Advance(at)
             \/ \E at \in Times, changed \in SUBSET Nodes :
                    \E sick \in SUBSET (changed \cap Fallible) : Restart(at, changed, sick)
    <3>1. PICK at : policy' \in Evaluated(policy, at, leases')
      BY <2>3 DEF Advance, Restart
    <3>2. policy'[z] = Inactive \/ policy'[z] = policy[z]
      BY <1>1, <3>1, EvaluatedRests DEF IInv
    <3> QED BY <3>2, PhaseFacts
  <2>4. CASE \/ \E at \in Times : CountZero(at) \/ CountPositive(at)
             \/ \E n \in Nodes, at \in Times : \E sick \in SickAllowed(n) : ObserveEmpty(n, at, sick)
             \/ CommitLearning
    <3>1. policy'[z] = Inactive \/ policy'[z] = policy[z]
      BY <2>4 DEF CountZero, CountPositive, ObserveEmpty, CommitLearning
    <3> QED BY <3>1, PhaseFacts
  <2> QED BY <2>1, <2>2, <2>3, <2>4 DEF Next, Unobserving
<1> QED BY <1>1, Inductive, PTL DEF Spec, NonRenewing

-----------------------------------------------------------------------------
(* Learning, with the accepted observations as a history. *)

\* What the next publication would leave of the counts, were nothing blocked.
Settled(e) == IF Projected(pending)[e] = NoCount THEN counts[e] ELSE Projected(pending)[e]

Learned == learned \in [Edges -> Nat] /\ \A e \in Edges : Settled(e) = Min({CountLimit, learned[e]})

LEMMA SettledIs ==
    ASSUME IInv, NEW e \in Edges
    PROVE  Settled(e) = Min({CountLimit, Known(e) + pending[e]})
           /\ Known(e) \in Int /\ 0 <= Known(e) /\ Known(e) <= CountLimit
<1>1. Settled(e) = Min({CountLimit, Known(e) + pending[e]})
  BY ProjectedCounts DEF IInv, Settled
<1>2. /\ counts[e] \in Int /\ 0 <= counts[e] /\ counts[e] <= CountLimit
      /\ deferred[e] = NoCount \/ (deferred[e] \in Int /\ 0 <= deferred[e] /\ deferred[e] <= CountLimit)
  BY Numbers DEF IInv, CountsOK, DeferredOK
<1> QED BY <1>1, <1>2 DEF Known

SettledAll == \A e \in Edges : Settled(e) = Min({CountLimit, Known(e) + pending[e]})

LEMMA SettledNow == IInv => SettledAll
BY SettledIs DEF SettledAll

LEMMA SettledThen == IInv' => SettledAll'
BY SettledNow, PTL

LEMMA LearnedNext ==
    ASSUME IInv, IInv', Learned, NEW batch \in [Edges -> Nat],
           learned' = [e \in Edges |-> learned[e] + batch[e]], pending' = batch,
           \A e \in Edges : Known(e)' = Settled(e)
    PROVE  Learned'
<1>1. learned' \in [Edges -> Nat]
  BY DEF Learned
<1>2. ASSUME NEW e \in Edges PROVE Settled(e)' = Min({CountLimit, learned'[e]})
  <2> DEFINE k == Known(e)'
             i == learned[e]
             j == batch[e]
  <2>1. i \in Nat /\ j \in Nat /\ learned'[e] = i + j /\ pending'[e] = j
    BY DEF Learned
  <2>2. k = Min({CountLimit, i})
    BY DEF Learned
  <2>3. Settled(e)' = Min({CountLimit, k + j})
    <3>1. SettledAll'
      BY SettledThen
    <3>2. \A x \in Edges : Settled(x)' = Min({CountLimit, Known(x)' + pending'[x]})
      BY <3>1 DEF SettledAll
    <3> QED BY <2>1, <3>2
  <2> HIDE DEF k, i, j
  <2>4. k = IF CountLimit <= i THEN CountLimit ELSE i
    BY <2>1, <2>2, MinTwo, Numbers
  <2>5. k + j \in Int /\ i + j \in Int /\ CountLimit \in Int
    BY <2>1, <2>4, Numbers
  <2>6. Min({CountLimit, k + j}) = (IF CountLimit <= k + j THEN CountLimit ELSE k + j)
        /\ Min({CountLimit, i + j}) = (IF CountLimit <= i + j THEN CountLimit ELSE i + j)
    BY <2>5, MinTwo
  <2>7. (IF CountLimit <= k + j THEN CountLimit ELSE k + j)
            = (IF CountLimit <= i + j THEN CountLimit ELSE i + j)
    BY <2>1, <2>4, Numbers
  <2> QED BY <2>1, <2>3, <2>6, <2>7
<1> QED BY <1>1, <1>2 DEF Learned

\* Every accepted observation of a route is counted once, whether it is pending,
\* deferred behind a lease, committed, or restored between.
THEOREM ObservationsKept == HSpec => []NothingLost
<1>1. HInit => IInv /\ Learned
  <2> SUFFICES ASSUME HInit PROVE IInv /\ Learned
    OBVIOUS
  <2>1. IInv
    BY InitInv DEF HInit
  <2>2. learned = counts /\ pending = NonePending /\ \A e \in Edges : deferred[e] = NoCount
    BY DEF HInit, Init
  <2>3. learned \in [Edges -> Nat] /\ \A e \in Edges : learned[e] <= CountLimit
    BY <2>1, <2>2, Numbers DEF IInv, CountsOK
  <2>4. ASSUME NEW e \in Edges PROVE Settled(e) = Min({CountLimit, learned[e]})
    <3>1. Known(e) = learned[e] /\ pending[e] = 0 /\ learned[e] \in Nat
      BY <2>2, <2>3 DEF Known, NonePending
    <3>2. Known(e) + pending[e] = learned[e]
      BY <3>1
    <3> QED BY <2>1, <3>2, SettledIs
  <2> QED BY <2>1, <2>3, <2>4 DEF Learned
<1>2. ASSUME IInv /\ Learned, [HNext]_<<vars, learned>> PROVE (IInv /\ Learned)'
  <2>1. IInv'
    BY <1>2, NextInv DEF HNext, Next
  <2>2. ASSUME NEW n \in Nodes, NEW auth \in Auths(n) \cup {NoAuth}, ObserveSome(n, auth),
               learned' = [e \in Edges |-> learned[e] + Batch(n, auth)[e]]
        PROVE  Learned'
    <3>1. Learn(Batch(n, auth))
      BY <2>2 DEF ObserveSome, Observe
    <3> DEFINE batch == Batch(n, auth)
    <3>2. batch \in [Edges -> Nat] /\ learned' = [e \in Edges |-> learned[e] + batch[e]]
          /\ pending' = batch
      BY <2>2, <3>1, BatchType DEF Learn
    <3>3. \A e \in Edges : Known(e)' = Settled(e)
      BY <3>1 DEF Learn, Known, Settled
    <3> HIDE DEF batch
    <3> QED BY <1>2, <2>1, <3>2, <3>3, LearnedNext
  <2>3. ASSUME Learn(NonePending), learned' = learned PROVE Learned'
    <3>1. NonePending \in [Edges -> Nat] /\ pending' = NonePending
      BY <2>3 DEF Learn, NonePending
    <3>2. learned' = [e \in Edges |-> learned[e] + NonePending[e]]
      BY <1>2, <2>3 DEF Learned, NonePending
    <3>3. \A e \in Edges : Known(e)' = Settled(e)
      BY <2>3 DEF Learn, Known, Settled
    <3> QED BY <1>2, <2>1, <3>1, <3>2, <3>3, LearnedNext
  <2>4. ASSUME CommitLearning, learned' = learned PROVE Learned'
    <3>1. NonePending \in [Edges -> Nat] /\ pending' = NonePending
      BY <2>4 DEF CommitLearning, NonePending
    <3>2. learned' = [e \in Edges |-> learned[e] + NonePending[e]]
      BY <1>2, <2>4 DEF Learned, NonePending
    <3>3. ASSUME NEW e \in Edges PROVE Known(e)' = Settled(e)
      <4> DEFINE p == Projected(pending)[e]
      <4>1. /\ counts'[e] = IF p # NoCount /\ e[1] \notin Blocked(leases) THEN p ELSE counts[e]
            /\ deferred'[e] = IF e[1] \notin Blocked(leases) THEN NoCount ELSE p
        BY <2>4 DEF CommitLearning
      <4> HIDE DEF p
      <4>2. (IF deferred'[e] = NoCount THEN counts'[e] ELSE deferred'[e])
                = (IF p = NoCount THEN counts[e] ELSE p)
        BY <4>1
      <4> QED BY <4>2 DEF Known, Settled, p
    <3> QED BY <1>2, <2>1, <3>1, <3>2, <3>3, LearnedNext
  <2>5. ASSUME UNCHANGED learning, learned' = learned PROVE Learned'
    BY <1>2, <2>5 DEF learning, Learned, Settled, Projected
  <2>6. ASSUME NEW at \in Times, NEW changed \in SUBSET Nodes,
               NEW sick \in SUBSET (changed \cap Fallible), Restart(at, changed, sick)
        PROVE  Learn(NonePending)
    BY <2>6 DEF Restart, Learn
  <2>7. CASE \E n \in Nodes : \E auth \in Auths(n) \cup {NoAuth} :
                /\ ObserveSome(n, auth)
                /\ learned' = [e \in Edges |-> learned[e] + Batch(n, auth)[e]]
    BY <2>1, <2>2, <2>7
  <2>8. CASE Unobserving /\ learned' = learned
    <3>1. CASE CommitLearning
      BY <2>1, <2>4, <2>8, <3>1
    <3>2. CASE \E n \in Nodes, at \in Times : \E sick \in SickAllowed(n) : ObserveEmpty(n, at, sick)
      BY <2>1, <2>3, <2>8, <3>2 DEF ObserveEmpty
    <3>3. CASE \E at \in Times, changed \in SUBSET Nodes :
                  \E sick \in SUBSET (changed \cap Fallible) : Restart(at, changed, sick)
      BY <2>1, <2>3, <2>6, <2>8, <3>3
    <3>4. CASE \E at \in Times : Rejected(at) \/ Advance(at) \/ CountZero(at) \/ CountPositive(at)
      <4>1. UNCHANGED learning
        BY <3>4 DEF Rejected, Advance, CountZero, CountPositive
      <4> QED BY <2>1, <2>5, <2>8, <4>1
    <3> QED BY <2>8, <3>1, <3>2, <3>3, <3>4 DEF Unobserving
  <2>9. CASE UNCHANGED <<vars, learned>>
    BY <2>1, <2>5, <2>9 DEF vars
  <2> QED BY <1>2, <2>7, <2>8, <2>9 DEF HNext
<1>3. Learned => NothingLost
  BY DEF Learned, NothingLost, Settled
<1> QED BY <1>1, <1>2, <1>3, PTL DEF HSpec
=============================================================================
