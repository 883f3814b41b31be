---------------------------- MODULE PathsProofs -----------------------------
(***************************************************************************)
(* The paths and the frontier for any map, windows, limits and times.      *)
(* Fades says what a reconciliation may do to a sequence of visits: their  *)
(* authority goes, everything else stays.  Traced says where a path comes  *)
(* from: its visits are those of a path before, or newly observed.         *)
(***************************************************************************)
EXTENDS MCPaths, SequenceTheorems, FiniteSetTheorems, WellFoundedInduction, TLAPS

-----------------------------------------------------------------------------
(* Sequences of visits. *)

Trails == {r \in Seq(VisitType) : Len(r) \in 1 .. Limit}

PathType ==
    [visits : Trails, route : Trails, spatialAt : 0 .. MaxTime, confirmed : BOOLEAN,
     eligible : BOOLEAN, branches : SUBSET Trails]

Dims(u, v) ==
    /\ v \in VisitType /\ Id(v) = Id(u) /\ v.node = u.node /\ v.gen = u.gen
    /\ v.at = u.at /\ v.kind = u.kind /\ (v.active => u.active)

Fades(r, g) == g \in Trails /\ Len(g) = Len(r) /\ \A i \in 1 .. Len(r) : Dims(r[i], g[i])

LEMMA Bounds ==
    /\ Limit \in Nat /\ Limit >= 3 /\ MaxTime \in Nat /\ MaxCount \in Nat /\ NoTime = -1
    /\ NoTime \notin Nat
BY LimitAssumption DEF NoTime

LEMMA VisitParts ==
    ASSUME NEW v \in VisitType
    PROVE  /\ v.node \in Nodes /\ v.gen \in Nat \ {0} /\ v.at \in 0 .. MaxTime
           /\ v.kind \in Kinds /\ v.active \in BOOLEAN
BY DEF VisitType

LEMMA TrailParts ==
    ASSUME NEW r \in Trails
    PROVE  /\ r \in Seq(VisitType) /\ Len(r) \in Nat /\ 1 <= Len(r) /\ Len(r) <= Limit
           /\ DOMAIN r = 1 .. Len(r) /\ \A i \in 1 .. Len(r) : r[i] \in VisitType
           /\ ToSet(r) = {r[i] : i \in 1 .. Len(r)}
           /\ Last(r) = r[Len(r)] /\ Last(r) \in ToSet(r) /\ Last(r) \in VisitType
<1>1. r \in Seq(VisitType) /\ Len(r) \in 1 .. Limit
  BY DEF Trails
<1>2. Len(r) \in Nat /\ DOMAIN r = 1 .. Len(r)
  BY <1>1, LenProperties
<1>3. 1 <= Len(r) /\ Len(r) <= Limit /\ Len(r) \in 1 .. Len(r)
  BY <1>1, <1>2, Bounds
<1>4. \A i \in 1 .. Len(r) : r[i] \in VisitType
  BY <1>1, ElementOfSeq
<1>5. ToSet(r) = {r[i] : i \in 1 .. Len(r)} /\ Last(r) = r[Len(r)]
  BY <1>2 DEF ToSet, Last
<1> QED BY <1>1, <1>2, <1>3, <1>4, <1>5

LEMMA TrailOf ==
    ASSUME NEW n \in 1 .. Limit, NEW f \in [1 .. n -> VisitType]
    PROVE  f \in Trails /\ Len(f) = n
<1>1. n \in Nat
  BY Bounds
<1>2. f \in Seq(VisitType) /\ Len(f) = n
  BY <1>1
<1> QED BY <1>2 DEF Trails

LEMMA FadesOf ==
    ASSUME NEW r \in Trails, NEW g, DOMAIN g = 1 .. Len(r), g = [i \in 1 .. Len(r) |-> g[i]],
           \A i \in 1 .. Len(r) : Dims(r[i], g[i])
    PROVE  Fades(r, g)
<1>1. Len(r) \in 1 .. Limit
  BY DEF Trails
<1>2. \A i \in 1 .. Len(r) : g[i] \in VisitType
  BY DEF Dims
<1>3. g \in [1 .. Len(r) -> VisitType]
  BY <1>2
<1>4. g \in Trails /\ Len(g) = Len(r)
  BY <1>1, <1>3, TrailOf
<1> QED BY <1>4 DEF Fades

LEMMA FadesAll ==
    ASSUME NEW r, NEW g, NEW h, Fades(r, g), Fades(g, h)
    PROVE  Fades(r, h)
BY DEF Fades, Dims

LEMMA RetiredFades ==
    ASSUME NEW r \in Trails, NEW withdrawn, NEW authority
    PROVE  Fades(r, RetiredAll(r, withdrawn, authority))
<1> DEFINE g == RetiredAll(r, withdrawn, authority)
<1>1. DOMAIN r = 1 .. Len(r)
  BY TrailParts
<1>2. g = [i \in 1 .. Len(r) |-> Retired(r[i], withdrawn, authority)]
  BY <1>1 DEF RetiredAll
<1>3. ASSUME NEW i \in 1 .. Len(r) PROVE Dims(r[i], g[i])
  <2> DEFINE v == r[i]
  <2>1. v \in VisitType
    BY TrailParts
  <2>2. g[i] \in {v, [v EXCEPT !.active = FALSE]}
    BY <1>2 DEF Retired
  <2> HIDE DEF v, g
  <2>3. Dims(v, v) /\ Dims(v, [v EXCEPT !.active = FALSE])
    BY <2>1 DEF Dims, Id, VisitType
  <2> QED BY <2>2, <2>3 DEF v
<1>4. DOMAIN g = 1 .. Len(r) /\ g = [i \in 1 .. Len(r) |-> g[i]]
  BY <1>2
<1> HIDE DEF g
<1> QED BY <1>3, <1>4, FadesOf DEF g

LEMMA PrunedFades ==
    ASSUME NEW r \in Trails, NEW ph PROVE Fades(r, Pruned(r, ph))
<1> DEFINE g == Pruned(r, ph)
<1>1. DOMAIN r = 1 .. Len(r)
  BY TrailParts
<1>2. g = [i \in 1 .. Len(r) |-> [r[i] EXCEPT !.active = @ /\ BranchLive(r[i], ph)]]
  BY <1>1 DEF Pruned
<1>3. ASSUME NEW i \in 1 .. Len(r) PROVE Dims(r[i], g[i])
  <2> DEFINE v == r[i]
             b == v.active /\ BranchLive(v, ph)
  <2>1. v \in VisitType
    BY TrailParts
  <2>2. g[i] = [v EXCEPT !.active = b]
    BY <1>2
  <2>3. b \in BOOLEAN /\ (b => v.active)
    <3>1. BranchLive(v, ph) \in BOOLEAN
      BY DEF BranchLive, SameGeneration
    <3> QED BY <3>1
  <2> HIDE DEF v, g, b
  <2>4. Dims(v, [v EXCEPT !.active = b])
    BY <2>1, <2>3 DEF Dims, Id, VisitType
  <2> QED BY <2>2, <2>4 DEF v
<1>4. DOMAIN g = 1 .. Len(r) /\ g = [i \in 1 .. Len(r) |-> g[i]]
  BY <1>2
<1> HIDE DEF g
<1> QED BY <1>3, <1>4, FadesOf DEF g

-----------------------------------------------------------------------------
(* Paths. *)

PathFades(p, q) ==
    /\ q \in PathType
    /\ Fades(p.visits, q.visits) /\ Fades(p.route, q.route)
    /\ \A w \in q.branches : \E x \in p.branches : Fades(x, w)
    /\ q.eligible => p.eligible

LEMMA PathParts ==
    ASSUME NEW p \in PathType
    PROVE  /\ p.visits \in Trails /\ p.route \in Trails /\ p.branches \subseteq Trails
           /\ p.spatialAt \in 0 .. MaxTime /\ p.confirmed \in BOOLEAN /\ p.eligible \in BOOLEAN
BY DEF PathType

\* A path whose trails, branches and eligibility are replaced by fading ones.
Faded(p, v, r, e, B) == [p EXCEPT !.visits = v, !.route = r, !.eligible = e, !.branches = B]

LEMMA FadedPath ==
    ASSUME NEW p \in PathType, NEW v, Fades(p.visits, v), NEW r, Fades(p.route, r),
           NEW e \in BOOLEAN, e => p.eligible,
           NEW B, \A w \in B : \E x \in p.branches : Fades(x, w)
    PROVE  PathFades(p, Faded(p, v, r, e, B))
<1>1. v \in Trails /\ r \in Trails /\ B \subseteq Trails
  BY DEF Fades
<1> DEFINE q == Faded(p, v, r, e, B)
<1>2. q \in PathType /\ q.visits = v /\ q.route = r /\ q.eligible = e /\ q.branches = B
  BY <1>1 DEF Faded, PathType
<1> HIDE DEF q
<1>3. PathFades(p, q)
  BY <1>2 DEF PathFades
<1> QED BY <1>3 DEF q

LEMMA PathFadesAll ==
    ASSUME NEW p, NEW q, NEW s, PathFades(p, q), PathFades(q, s)
    PROVE  PathFades(p, s)
<1>1. Fades(p.visits, s.visits) /\ Fades(p.route, s.route)
  BY FadesAll DEF PathFades
<1>2. ASSUME NEW w \in s.branches PROVE \E x \in p.branches : Fades(x, w)
  <2>1. PICK y \in q.branches : Fades(y, w)
    BY <1>2 DEF PathFades
  <2>2. PICK x \in p.branches : Fades(x, y)
    BY <2>1 DEF PathFades
  <2> QED BY <2>1, <2>2, FadesAll
<1> QED BY <1>1, <1>2 DEF PathFades

LEMMA NormalizedFades ==
    ASSUME NEW p \in PathType PROVE PathFades(p, Normalized(p))
<1> DEFINE kept == KeptBranches(p)
           withdrawn == Withdrawn(p)
           authority == Ids(p.route) \cup {Id(Last(w)) : w \in kept}
           v == RetiredAll(p.visits, withdrawn, authority)
           r == RetiredAll(p.route, withdrawn, authority)
           B == {RetiredAll(w, withdrawn, authority) : w \in kept}
<1>1. kept \subseteq p.branches
  BY DEF KeptBranches
<1>2. Normalized(p) = [p EXCEPT !.visits = v, !.route = r, !.branches = B]
  BY DEF Normalized, NormalizedWith
<1> HIDE DEF kept, withdrawn, authority
<1>3. Fades(p.visits, v) /\ Fades(p.route, r)
  BY PathParts, RetiredFades
<1>4. ASSUME NEW w \in B PROVE \E x \in p.branches : Fades(x, w)
  <2>1. PICK x \in kept : w = RetiredAll(x, withdrawn, authority)
    BY <1>4
  <2>2. x \in p.branches /\ x \in Trails
    BY <1>1, PathParts
  <2> QED BY <2>1, <2>2, RetiredFades
<1> HIDE DEF v, r, B
<1>5. p.eligible \in BOOLEAN
  BY PathParts
<1>6. Normalized(p) = Faded(p, v, r, p.eligible, B)
  BY <1>2 DEF Faded, PathType
<1> QED BY <1>3, <1>4, <1>5, <1>6, FadedPath

LEMMA ReconciledFades ==
    ASSUME NEW p \in PathType, NEW ph PROVE PathFades(p, ReconciledPath(p, ph))
<1> DEFINE v == Pruned(p.visits, ph)
           r == Pruned(p.route, ph)
           e == p.eligible /\ EndpointLive(Endpoint(p), ph)
           B == {Pruned(w, ph) : w \in p.branches}
           q == Faded(p, v, r, e, B)
<1>1. ReconciledPath(p, ph) = Normalized(q)
  BY DEF ReconciledPath, Faded
<1>2. Fades(p.visits, v) /\ Fades(p.route, r)
  BY PathParts, PrunedFades
<1>3. e \in BOOLEAN /\ (e => p.eligible)
  BY PathParts DEF EndpointLive, SameGeneration
<1>4. ASSUME NEW w \in B PROVE \E x \in p.branches : Fades(x, w)
  <2>1. PICK x \in p.branches : w = Pruned(x, ph)
    BY <1>4
  <2>2. x \in Trails
    BY PathParts
  <2> QED BY <2>1, <2>2, PrunedFades
<1> HIDE DEF v, r, e, B
<1>5. PathFades(p, q)
  BY <1>2, <1>3, <1>4, FadedPath
<1> HIDE DEF q
<1>6. PathFades(q, Normalized(q))
  BY <1>5, NormalizedFades DEF PathFades
<1> QED BY <1>1, <1>5, <1>6, PathFadesAll

LEMMA ReconciledAll ==
    ASSUME NEW P \in SUBSET PathType, NEW ph
    PROVE  /\ Reconciled(P, ph) \in SUBSET PathType
           /\ \A q \in Reconciled(P, ph) : \E p \in P : PathFades(p, q)
<1>1. ASSUME NEW q \in Reconciled(P, ph) PROVE q \in PathType /\ \E p \in P : PathFades(p, q)
  <2>1. PICK p \in P : q = ReconciledPath(p, ph)
    BY <1>1 DEF Reconciled
  <2>2. PathFades(p, q)
    BY <2>1, ReconciledFades
  <2> QED BY <2>2 DEF PathFades
<1> QED BY <1>1

\* What a path that fades has was in the path before.
LEMMA FadesParts ==
    ASSUME NEW r \in Trails, NEW g, Fades(r, g)
    PROVE  /\ \A v \in ToSet(g) : \E u \in ToSet(r) : Id(u) = Id(v) /\ (v.active => u.active)
           /\ Id(Last(g)) = Id(Last(r))
<1>1. g \in Trails /\ Len(g) = Len(r) /\ \A i \in 1 .. Len(r) : Dims(r[i], g[i])
  BY DEF Fades
<1>2. ToSet(g) = {g[i] : i \in 1 .. Len(r)} /\ ToSet(r) = {r[i] : i \in 1 .. Len(r)}
      /\ Last(g) = g[Len(r)] /\ Last(r) = r[Len(r)] /\ Len(r) \in 1 .. Len(r)
  BY <1>1, TrailParts
<1> QED BY <1>1, <1>2 DEF Dims

LEMMA OccurrencesOf ==
    ASSUME NEW p
    PROVE  \A v : v \in Occurrences(p) <=> \/ v \in ToSet(p.visits) \/ v \in ToSet(p.route)
                                          \/ \E w \in p.branches : v \in ToSet(w)
BY DEF Occurrences, Records

LEMMA PathFadesParts ==
    ASSUME NEW p \in PathType, NEW q, PathFades(p, q)
    PROVE  /\ \A v \in Occurrences(q) :
                 \E u \in Occurrences(p) : Id(u) = Id(v) /\ (v.active => u.active)
           /\ Id(Endpoint(q)) = Id(Endpoint(p)) /\ (q.eligible => p.eligible)
<1>1. ASSUME NEW v \in Occurrences(q)
      PROVE  \E u \in Occurrences(p) : Id(u) = Id(v) /\ (v.active => u.active)
  <2>1. CASE v \in ToSet(q.visits)
    BY <2>1, FadesParts, PathParts, OccurrencesOf DEF PathFades
  <2>2. CASE v \in ToSet(q.route)
    BY <2>2, FadesParts, PathParts, OccurrencesOf DEF PathFades
  <2>3. CASE \E w \in q.branches : v \in ToSet(w)
    <3>1. PICK w \in q.branches : v \in ToSet(w)
      BY <2>3
    <3>2. PICK x \in p.branches : Fades(x, w)
      BY DEF PathFades
    <3>3. x \in Trails
      BY PathParts
    <3> QED BY <3>1, <3>2, <3>3, FadesParts, OccurrencesOf
  <2> QED BY <1>1, <2>1, <2>2, <2>3, OccurrencesOf
<1>2. Id(Endpoint(q)) = Id(Endpoint(p))
  BY FadesParts, PathParts DEF Endpoint, PathFades
<1> QED BY <1>1, <1>2 DEF PathFades

LEMMA PrefixTrail ==
    ASSUME NEW r \in Trails, NEW i \in 1 .. Len(r)
    PROVE  /\ SubSeq(r, 1, i) \in Trails /\ Len(SubSeq(r, 1, i)) = i
           /\ ToSet(SubSeq(r, 1, i)) \subseteq ToSet(r)
           /\ Last(SubSeq(r, 1, i)) = r[i]
<1> DEFINE g == SubSeq(r, 1, i)
<1>1. i \in Nat /\ 1 <= i /\ i <= Len(r) /\ Len(r) <= Limit /\ \A j \in 1 .. i : r[j] \in VisitType
  BY TrailParts
<1>2. /\ g \in Seq(VisitType) /\ Len(g) = i
      /\ \A j \in 1 .. i : g[j] = r[j]
  <2>1. /\ g \in Seq(VisitType) /\ Len(g) = (IF 1 <= i THEN i - 1 + 1 ELSE 0)
        /\ \A j \in 1 .. i - 1 + 1 : g[j] = r[1 + j - 1]
    BY <1>1, SubSeqProperties
  <2>2. \A j \in 1 .. i : 1 + j - 1 = j
    BY <1>1
  <2> QED BY <1>1, <2>1, <2>2
<1> HIDE DEF g
<1>3. g \in Trails
  BY <1>1, <1>2, Bounds DEF Trails
<1>4. ToSet(g) = {g[j] : j \in 1 .. i} /\ Last(g) = g[i] /\ ToSet(r) = {r[j] : j \in 1 .. Len(r)}
  BY <1>2, <1>3, TrailParts
<1>5. \A j \in 1 .. i : j \in 1 .. Len(r)
  BY <1>1
<1>6. ToSet(g) \subseteq ToSet(r) /\ Last(g) = r[i]
  BY <1>1, <1>2, <1>4, <1>5
<1> QED BY <1>2, <1>3, <1>6 DEF g

LEMMA LongerTrail ==
    ASSUME NEW r \in Trails, NEW v \in VisitType
    PROVE  LET g == LastOf(Limit, Append(r, v))
           IN  g \in Trails /\ ToSet(g) \subseteq ToSet(r) \cup {v} /\ Last(g) = v
<1> DEFINE n == Len(r)
           a == Append(r, v)
           m == IF n + 1 > Limit THEN n + 1 - Limit + 1 ELSE 1
           g == SubSeq(a, m, n + 1)
<1>1. /\ n \in Nat /\ 1 <= n /\ n <= Limit /\ Limit \in Nat /\ Limit >= 3
      /\ \A i \in 1 .. n : r[i] \in VisitType
  BY TrailParts, Bounds
<1>2. /\ a \in Seq(VisitType) /\ Len(a) = n + 1 /\ \A i \in 1 .. n : a[i] = r[i]
      /\ a[n + 1] = v
  BY TrailParts, AppendProperties
<1>3. LastOf(Limit, a) = g
  <2>1. LastOf(Limit, a)
            = SubSeq(a, IF Len(a) > Limit THEN Len(a) - Limit + 1 ELSE 1, Len(a))
    BY DEF LastOf
  <2> HIDE DEF a, n
  <2>2. Len(a) = n + 1
    BY <1>2
  <2>3. m = IF Len(a) > Limit THEN Len(a) - Limit + 1 ELSE 1
    BY <1>1, <2>2
  <2> HIDE DEF m
  <2> QED BY <2>1, <2>2, <2>3
<1>4. m \in Nat /\ 1 <= m /\ m <= n + 1 /\ n + 1 - m + 1 \in 1 .. Limit
  BY <1>1
<1> HIDE DEF m, n
<1>5. \A i \in m .. n + 1 : a[i] \in VisitType /\ a[i] \in ToSet(r) \cup {v}
  <2> SUFFICES ASSUME NEW i \in m .. n + 1
               PROVE  a[i] \in VisitType /\ a[i] \in ToSet(r) \cup {v}
    OBVIOUS
  <2>1. i = n + 1 \/ i \in 1 .. n
    BY <1>1, <1>4
  <2>2. i \in 1 .. n => r[i] \in ToSet(r)
    BY TrailParts DEF n
  <2> QED BY <1>1, <1>2, <2>1, <2>2
<1> HIDE DEF a
<1>6. /\ g \in Seq(VisitType) /\ Len(g) = n + 1 - m + 1
      /\ \A i \in 1 .. n + 1 - m + 1 : g[i] = a[m + i - 1]
  BY <1>1, <1>4, <1>5, SubSeqProperties
<1> HIDE DEF g
<1>7. g \in Trails
  BY <1>4, <1>6 DEF Trails
<1>8. \A i \in 1 .. n + 1 - m + 1 : m + i - 1 \in m .. n + 1
  BY <1>1, <1>4
<1>9. ToSet(g) = {g[i] : i \in 1 .. n + 1 - m + 1} /\ Last(g) = g[n + 1 - m + 1]
  BY <1>6, <1>7, TrailParts
<1>10. ToSet(g) \subseteq ToSet(r) \cup {v}
  BY <1>5, <1>6, <1>8, <1>9
<1>11. Last(g) = v
  <2>1. n + 1 - m + 1 \in 1 .. n + 1 - m + 1 /\ m + (n + 1 - m + 1) - 1 = n + 1
    BY <1>1, <1>4
  <2> QED BY <1>2, <1>6, <1>9, <2>1
<1> QED BY <1>3, <1>7, <1>10, <1>11 DEF a

-----------------------------------------------------------------------------
(* Where a path comes from. *)

SourcesOK(srcs, ph) ==
    /\ srcs \in [Nodes -> SourceType]
    /\ \A n \in Nodes :
          /\ srcs[n].gen <= ph[n].gen
          /\ srcs[n].origin # "none" => srcs[n].gen > 0 /\ srcs[n].at \in 0 .. MaxTime

Typed ==
    /\ now \in 0 .. MaxTime /\ count \in 0 .. MaxCount
    /\ phys \in [Nodes -> NodeState] /\ paths \in SUBSET PathType
    /\ SourcesOK(sources, phys)

\* A visit that is new, or was in a path with the authority it has.
Traceable(v) ==
    \/ Earned(v)
    \/ \E p \in paths : \E u \in Occurrences(p) : Id(u) = Id(v) /\ (v.active => u.active)

Traced(q) ==
    /\ \A v \in Occurrences(q) : Traceable(v)
    /\ q.eligible => \/ Earned(Endpoint(q))
                     \/ \E p \in paths : Id(Endpoint(p)) = Id(Endpoint(q)) /\ p.eligible

Good == {p \in PathType : Traced(p)}

LEMMA SameIds ==
    ASSUME NEW u, NEW v, Id(u) = Id(v)
    PROVE  u.node = v.node /\ u.gen = v.gen /\ (Earned(u) => Earned(v))
BY DEF Id, Earned

LEMMA GoodFades ==
    ASSUME NEW p \in Good, NEW q, PathFades(p, q) PROVE q \in Good
<1>1. p \in PathType /\ Traced(p) /\ q \in PathType
  BY DEF Good, PathFades
<1>2. ASSUME NEW v \in Occurrences(q) PROVE Traceable(v)
  <2>1. PICK u \in Occurrences(p) : Id(u) = Id(v) /\ (v.active => u.active)
    BY <1>1, PathFadesParts
  <2>2. Traceable(u)
    BY <1>1 DEF Traced
  <2>3. CASE Earned(u)
    BY <2>1, <2>3, SameIds DEF Traceable
  <2>4. CASE ~Earned(u)
    BY <2>1, <2>2, <2>4 DEF Traceable
  <2> QED BY <2>3, <2>4
<1>3. ASSUME q.eligible
      PROVE  \/ Earned(Endpoint(q))
             \/ \E o \in paths : Id(Endpoint(o)) = Id(Endpoint(q)) /\ o.eligible
  <2>1. Id(Endpoint(q)) = Id(Endpoint(p)) /\ p.eligible
    BY <1>1, <1>3, PathFadesParts
  <2> QED BY <1>1, <2>1, SameIds DEF Traced
<1> QED BY <1>1, <1>2, <1>3 DEF Good, Traced

LEMMA GoodNow ==
    ASSUME paths \in SUBSET PathType PROVE paths \subseteq Good
BY DEF Good, Traced, Traceable

LEMMA GoodReconciled ==
    ASSUME NEW P \in SUBSET Good, NEW ph PROVE Reconciled(P, ph) \subseteq Good
<1>1. P \in SUBSET PathType
  BY DEF Good
<1> QED BY <1>1, ReconciledAll, GoodFades

LEMMA NewTrails ==
    /\ \A u \in VisitType : /\ <<u>> \in Trails /\ ToSet(<<u>>) = {u} /\ Last(<<u>>) = u
    /\ \A u, v \in VisitType :
          /\ <<u, v>> \in Trails /\ ToSet(<<u, v>>) = {u, v} /\ Last(<<u, v>>) = v
<1>1. ASSUME NEW u \in VisitType
      PROVE  <<u>> \in Trails /\ ToSet(<<u>>) = {u} /\ Last(<<u>>) = u
  <2>1. <<u>> \in Seq(VisitType) /\ Len(<<u>>) = 1 /\ <<u>>[1] = u
    OBVIOUS
  <2>2. <<u>> \in Trails
    BY <2>1, Bounds DEF Trails
  <2> QED BY <2>1, <2>2, TrailParts
<1>2. ASSUME NEW u \in VisitType, NEW v \in VisitType
      PROVE  <<u, v>> \in Trails /\ ToSet(<<u, v>>) = {u, v} /\ Last(<<u, v>>) = v
  <2>1. <<u, v>> \in Seq(VisitType)
    OBVIOUS
  <2>2. Len(<<u, v>>) = 2 /\ <<u, v>>[1] = u /\ <<u, v>>[2] = v
    OBVIOUS
  <2>3. <<u, v>> \in Trails
    BY <2>1, <2>2, Bounds DEF Trails
  <2> DEFINE r == <<u, v>>
  <2>4. r \in Trails /\ Len(r) = 2 /\ r[1] = u /\ r[2] = v
    BY <2>2, <2>3
  <2> HIDE DEF r
  <2>5. ToSet(r) = {r[i] : i \in 1 .. 2} /\ Last(r) = r[2]
    BY <2>4, TrailParts
  <2>6. ToSet(r) = {u, v} /\ Last(r) = v
    BY <2>4, <2>5
  <2> QED BY <2>4, <2>6 DEF r
<1> QED BY <1>1, <1>2

\* A new path of visits that are all new.
LEMMA GoodNew ==
    ASSUME NEW r \in Trails, \A v \in ToSet(r) : Earned(v)
    PROVE  NewPath(r) \in Good
<1> DEFINE q == NewPath(r)
<1>1. Last(r) \in VisitType /\ Last(r) \in ToSet(r)
  BY TrailParts
<1>2. /\ q \in PathType /\ q.visits = r /\ q.route = r /\ q.branches = {}
  BY <1>1, VisitParts DEF NewPath, PathType
<1> HIDE DEF q
<1>3. ASSUME NEW v \in Occurrences(q) PROVE Earned(v)
  BY <1>2, OccurrencesOf
<1>4. Earned(Endpoint(q))
  BY <1>1, <1>2 DEF Endpoint
<1>5. q \in Good
  BY <1>2, <1>3, <1>4 DEF Good, Traced, Traceable
<1> QED BY <1>5 DEF q

LEMMA LeftBehindOf ==
    ASSUME NEW p \in PathType, NEW prefix, NEW w \in LeftBehind(p, prefix)
    PROVE  w \in Trails /\ ToSet(w) \subseteq ToSet(p.route)
<1>1. PICK i \in DOMAIN p.route : w = SubSeq(p.route, 1, i)
  BY DEF LeftBehind
<1>2. p.route \in Trails /\ DOMAIN p.route = 1 .. Len(p.route)
  BY PathParts, TrailParts
<1> QED BY <1>1, <1>2, PrefixTrail

\* A path whose next visit is the target.
Longer(p, v, r, s, c, B) ==
    [p EXCEPT !.visits = v, !.route = r, !.spatialAt = s, !.confirmed = c,
              !.eligible = TRUE, !.branches = B]

LEMMA GoodAdvanced ==
    ASSUME NEW c, c.path \in Good, c.prefix \in Trails,
           ToSet(c.prefix) \subseteq Occurrences(c.path),
           NEW target \in VisitType, Earned(target)
    PROVE  AdvancedPath(c, target) \in Good
<1> DEFINE p == c.path
           v == LastOf(Limit, Append(p.visits, target))
           r == LastOf(Limit, Append(c.prefix, target))
           s == IF Zone[target.node] # Zone[Endpoint(p).node] THEN target.at ELSE p.spatialAt
           f == p.confirmed \/ Confirms(r)
           B == p.branches \cup LeftBehind(p, c.prefix)
           q == Longer(p, v, r, s, f, B)
<1>1. AdvancedPath(c, target) = Normalized(q)
  BY DEF AdvancedPath, Longer
<1>2. p \in PathType /\ Traced(p)
  BY DEF Good
<1>3. v \in Trails /\ ToSet(v) \subseteq ToSet(p.visits) \cup {target}
  BY <1>2, PathParts, LongerTrail
<1>4. r \in Trails /\ ToSet(r) \subseteq ToSet(c.prefix) \cup {target} /\ Last(r) = target
  BY LongerTrail
<1>5. s \in 0 .. MaxTime
  BY <1>2, PathParts, VisitParts
<1>6. f \in BOOLEAN
  OBVIOUS
<1>7. \A w \in B : w \in Trails /\ ToSet(w) \subseteq Occurrences(p)
  <2>1. ASSUME NEW w \in p.branches PROVE w \in Trails /\ ToSet(w) \subseteq Occurrences(p)
    BY <1>2, PathParts, OccurrencesOf
  <2>2. ASSUME NEW w \in LeftBehind(p, c.prefix)
        PROVE  w \in Trails /\ ToSet(w) \subseteq Occurrences(p)
    BY <1>2, LeftBehindOf, OccurrencesOf
  <2> QED BY <2>1, <2>2
<1>8. \A u \in Occurrences(p) \cup {target} : Traceable(u)
  BY <1>2 DEF Traced, Traceable
<1>9. ToSet(p.visits) \subseteq Occurrences(p) /\ ToSet(c.prefix) \subseteq Occurrences(p)
  BY OccurrencesOf
<1> HIDE DEF p, v, r, s, f, B
<1>10. /\ q \in PathType /\ q.visits = v /\ q.route = r /\ q.branches = B
  <2>1. B \subseteq Trails
    BY <1>7
  <2> QED BY <1>2, <1>3, <1>4, <1>5, <1>6, <2>1 DEF Longer, PathType
<1> HIDE DEF q
<1>11. ASSUME NEW u \in Occurrences(q) PROVE Traceable(u)
  <2>1. u \in Occurrences(p) \cup {target}
    BY <1>3, <1>4, <1>7, <1>9, <1>10, OccurrencesOf
  <2> QED BY <1>8, <2>1
<1>12. Earned(Endpoint(q))
  BY <1>4, <1>10 DEF Endpoint
<1>13. q \in Good
  BY <1>10, <1>11, <1>12 DEF Good, Traced
<1> QED BY <1>1, <1>10, <1>13, NormalizedFades, GoodFades

LEMMA ContinuationParts ==
    ASSUME NEW ps \in SUBSET PathType, NEW target, NEW ph,
           NEW c \in Continuations(ps, target, ph)
    PROVE  /\ c.path \in ps /\ c.prefix \in Trails
           /\ ToSet(c.prefix) \subseteq Occurrences(c.path)
<1>1. c \in EligibleSources(ps, target, ph)
  BY DEF Continuations, Maximal, Arriving
<1>2. PICK p \in ps :
          \/ c = [path |-> p, prefix |-> p.route]
          \/ \E i \in 1 .. Len(p.route) - 1 : c = [path |-> p, prefix |-> SubSeq(p.route, 1, i)]
          \/ \E w \in p.branches : c = [path |-> p, prefix |-> w]
  BY <1>1 DEF EligibleSources
<1>3. p \in PathType /\ p.route \in Trails /\ p.branches \subseteq Trails
  BY PathParts
<1>4. CASE c = [path |-> p, prefix |-> p.route]
  BY <1>3, <1>4, OccurrencesOf
<1>5. CASE \E i \in 1 .. Len(p.route) - 1 : c = [path |-> p, prefix |-> SubSeq(p.route, 1, i)]
  <2>1. PICK i \in 1 .. Len(p.route) - 1 : c = [path |-> p, prefix |-> SubSeq(p.route, 1, i)]
    BY <1>5
  <2>2. i \in 1 .. Len(p.route)
    BY <1>3, TrailParts
  <2> QED BY <1>3, <2>1, <2>2, PrefixTrail, OccurrencesOf
<1>6. CASE \E w \in p.branches : c = [path |-> p, prefix |-> w]
  BY <1>3, <1>6, OccurrencesOf
<1> QED BY <1>2, <1>4, <1>5, <1>6

-----------------------------------------------------------------------------
(* The ledger. *)

Grows(ph, after) == \A n \in Nodes : ph[n].gen <= after[n].gen

SourceOK(src, s) ==
    /\ src \in SourceType /\ src.gen <= s.gen
    /\ src.origin # "none" => src.gen > 0 /\ src.at \in 0 .. MaxTime

LEMMA SourceParts ==
    ASSUME NEW srcs, NEW ph
    PROVE  SourcesOK(srcs, ph) <=>
               srcs \in [Nodes -> SourceType] /\ \A n \in Nodes : SourceOK(srcs[n], ph[n])
BY DEF SourcesOK, SourceOK

LEMMA ConsumedOK ==
    ASSUME NEW src, NEW s, SourceOK(src, s)
    PROVE  /\ SourceOK(Consumed(src), s) /\ SourceOK([src EXCEPT !.consumed = TRUE], s)
           /\ (Pending(Consumed(src)) => Consumed(src) = src)
           /\ ~Pending([src EXCEPT !.consumed = TRUE])
BY DEF SourceOK, SourceType, Consumed, Pending

LEMMA SourceLater ==
    ASSUME NEW src, NEW s \in NodeState, NEW t \in NodeState, SourceOK(src, s), s.gen <= t.gen
    PROVE  SourceOK(src, t)
<1>1. src.gen \in Nat /\ s.gen \in Nat /\ t.gen \in Nat
  BY DEF SourceOK, SourceType, NodeState
<1> QED BY <1>1 DEF SourceOK

LEMMA SourcesLater ==
    ASSUME NEW ph \in [Nodes -> NodeState], NEW after \in [Nodes -> NodeState], Grows(ph, after),
           NEW srcs, SourcesOK(srcs, ph)
    PROVE  SourcesOK(srcs, after)
<1>1. \A n \in Nodes : SourceOK(srcs[n], after[n])
  BY SourceParts, SourceLater DEF Grows
<1> QED BY <1>1, SourceParts

LEMMA SourcesReconciled ==
    ASSUME NEW ph, NEW other, NEW srcs, SourcesOK(srcs, ph)
    PROVE  /\ SourcesOK(ReconciledSources(srcs, other), ph)
           /\ \A n \in Nodes : Pending(ReconciledSources(srcs, other)[n]) =>
                  ReconciledSources(srcs, other)[n] = srcs[n]
<1> DEFINE new == ReconciledSources(srcs, other)
<1>1. ASSUME NEW n \in Nodes
      PROVE  SourceOK(new[n], ph[n]) /\ (Pending(new[n]) => new[n] = srcs[n])
  <2>1. SourceOK(srcs[n], ph[n])
    BY SourceParts
  <2>2. new[n] = srcs[n] \/ new[n] = Consumed(srcs[n])
    BY DEF ReconciledSources
  <2> QED BY <2>1, <2>2, ConsumedOK
<1>2. new = [n \in Nodes |-> new[n]]
  BY DEF ReconciledSources
<1>3. new \in [Nodes -> SourceType]
  BY <1>1, <1>2 DEF SourceOK
<1> HIDE DEF new
<1>4. SourcesOK(new, ph)
  BY <1>1, <1>3, SourceParts
<1> QED BY <1>1, <1>4 DEF new

LEMMA OneSource ==
    ASSUME NEW ph, NEW srcs, SourcesOK(srcs, ph), NEW n \in Nodes, NEW src, SourceOK(src, ph[n])
    PROVE  SourcesOK([srcs EXCEPT ![n] = src], ph)
<1> DEFINE new == [srcs EXCEPT ![n] = src]
<1>1. srcs \in [Nodes -> SourceType] /\ src \in SourceType
  BY DEF SourcesOK, SourceOK
<1>2. new \in [Nodes -> SourceType]
  BY <1>1
<1>3. \A m \in Nodes : new[m] = IF m = n THEN src ELSE srcs[m]
  BY <1>1
<1> HIDE DEF new
<1>4. \A m \in Nodes : SourceOK(new[m], ph[m])
  BY <1>3, SourceParts
<1>5. SourcesOK(new, ph)
  BY <1>2, <1>4, SourceParts
<1> QED BY <1>5 DEF new

LEMMA RecordedOK ==
    ASSUME NEW ph, NEW srcs, SourcesOK(srcs, ph), NEW v \in VisitType,
           v.gen <= ph[v.node].gen, NEW b \in BOOLEAN
    PROVE  SourcesOK(Recorded(srcs, v, b), ph)
<1> DEFINE src == [gen |-> v.gen, at |-> v.at, origin |-> OriginOf(v.kind),
                   consumed |-> b \/ v.kind # "positive"]
<1>1. v.node \in Nodes /\ v.gen \in Nat /\ v.gen > 0 /\ v.at \in 0 .. MaxTime
  BY VisitParts
<1>2. OriginOf(v.kind) \in Origins
  <2>1. v.kind = "positive" \/ v.kind = "correlated_positive" \/ v.kind = "interaction"
    BY VisitParts DEF Kinds
  <2> QED BY <2>1 DEF OriginOf, Origins
<1>3. v.at \in Nat
  BY <1>1, Bounds
<1>4. (b \/ v.kind # "positive") \in BOOLEAN
  OBVIOUS
<1>5. SourceOK(src, ph[v.node])
  BY <1>1, <1>2, <1>3, <1>4 DEF SourceOK, SourceType
<1> HIDE DEF src
<1>6. SourcesOK([srcs EXCEPT ![v.node] = src], ph)
  BY <1>1, <1>5, OneSource
<1> QED BY <1>6 DEF Recorded, src

LEMMA SpentOK ==
    ASSUME NEW ph, NEW srcs, SourcesOK(srcs, ph), NEW v \in VisitType
    PROVE  SourcesOK(Spent(srcs, v), ph)
<1> DEFINE old == srcs[v.node]
           src == IF old.gen = v.gen THEN [old EXCEPT !.consumed = TRUE] ELSE old
<1>1. v.node \in Nodes
  BY VisitParts
<1>2. SourceOK(old, ph[v.node])
  BY <1>1, SourceParts
<1>3. Spent(srcs, v) = [srcs EXCEPT ![v.node] = src]
  BY DEF Spent
<1> HIDE DEF old
<1>4. SourceOK(src, ph[v.node])
  BY <1>2, ConsumedOK
<1> HIDE DEF src
<1>5. SourcesOK([srcs EXCEPT ![v.node] = src], ph)
  BY <1>1, <1>4, OneSource
<1> QED BY <1>3, <1>5

LEMMA ForgottenOK ==
    ASSUME NEW ph, NEW srcs, SourcesOK(srcs, ph), NEW k
    PROVE  SourcesOK(Forgotten(srcs, k), ph)
<1> DEFINE new == [n \in Nodes |-> Consumed(srcs[n])]
<1>1. \A n \in Nodes : SourceOK(new[n], ph[n])
  BY SourceParts, ConsumedOK
<1>2. new \in [Nodes -> SourceType]
  BY <1>1 DEF SourceOK
<1>3. Forgotten(srcs, k) = srcs \/ Forgotten(srcs, k) = new
  BY DEF Forgotten
<1> HIDE DEF new
<1> QED BY <1>1, <1>2, <1>3, SourceParts

-----------------------------------------------------------------------------
(* The calls. *)

LEMMA SettleSafe ==
    ASSUME NEW P \in SUBSET Good, NEW srcs, SourcesOK(srcs, phys'), Settle(P, srcs, phys'),
           now' \in 0 .. MaxTime, count' \in 0 .. MaxCount, phys' \in [Nodes -> NodeState]
    PROVE  Typed' /\ paths' \subseteq Good
<1>1. paths' \subseteq Good /\ paths' \in SUBSET PathType
  BY GoodReconciled DEF Settle, Good
<1>2. SourcesOK(sources', phys')
  BY SourcesReconciled DEF Settle
<1> QED BY <1>1, <1>2 DEF Typed

\* A call that changes the physical states alone.
LEMMA PhysicalSafe ==
    ASSUME Typed, phys' \in [Nodes -> NodeState], Grows(phys, phys'),
           Settle(paths, sources, phys'), now' \in 0 .. MaxTime, UNCHANGED count
    PROVE  Typed' /\ paths' \subseteq Good
<1>1. paths \in SUBSET Good
  BY GoodNow DEF Typed
<1>2. SourcesOK(sources, phys')
  BY SourcesLater DEF Typed
<1> QED BY <1>1, <1>2, SettleSafe DEF Typed

LEMMA InstalledSafe ==
    ASSUME NEW P \in SUBSET Good, NEW q \in Good, NEW slots \in Installed(P, q)
    PROVE  slots \in SUBSET Good
BY DEF Installed, Kept

\* A generation that the call begins.
Newer(n, s) == s \in NodeState /\ s.gen = phys[n].gen + 1 /\ s.at = now

LEMMA TargetNew ==
    ASSUME Typed, NEW n \in Nodes, NEW s, Newer(n, s)
    PROVE  /\ Visit(n, s, Kind(n, s)) \in VisitType /\ Earned(Visit(n, s, Kind(n, s)))
           /\ Visit(n, s, Kind(n, s)).node = n /\ Visit(n, s, Kind(n, s)).gen = s.gen
           /\ [phys EXCEPT ![n] = s] \in [Nodes -> NodeState]
           /\ Grows(phys, [phys EXCEPT ![n] = s]) /\ [phys EXCEPT ![n] = s][n] = s
<1> DEFINE v == Visit(n, s, Kind(n, s))
<1>1. phys \in [Nodes -> NodeState] /\ SourceOK(sources[n], phys[n])
  BY SourceParts DEF Typed
<1>2. phys[n].gen \in Nat /\ sources[n].gen \in Nat /\ sources[n].gen <= phys[n].gen
  BY <1>1 DEF NodeState, SourceOK, SourceType
<1>3. s.gen \in Nat \ {0} /\ s.gen > sources[n].gen /\ phys[n].gen <= s.gen
  BY <1>2 DEF Newer
<1>4. s.at \in 0 .. MaxTime
  BY DEF Newer, Typed
<1>5. Kind(n, s) \in Kinds
  BY DEF Kind, Kinds
<1>6. v \in VisitType /\ v.node = n /\ v.gen = s.gen
  BY <1>3, <1>4, <1>5 DEF Visit, VisitType
<1> HIDE DEF v
<1>7. Earned(v)
  BY <1>3, <1>6 DEF Earned
<1>8. [phys EXCEPT ![n] = s] \in [Nodes -> NodeState] /\ [phys EXCEPT ![n] = s][n] = s
  BY <1>1 DEF Newer
<1>9. Grows(phys, [phys EXCEPT ![n] = s])
  <2>1. ASSUME NEW m \in Nodes PROVE phys[m].gen <= [phys EXCEPT ![n] = s][m].gen
    <3>1. CASE m = n
      BY <1>1, <1>3, <3>1
    <3>2. CASE m # n
      <4>1. phys[m].gen \in Int
        BY <1>1 DEF NodeState
      <4> QED BY <1>1, <3>2, <4>1
    <3> QED BY <3>1, <3>2
  <2> QED BY <2>1 DEF Grows
<1> QED BY <1>6, <1>7, <1>8, <1>9 DEF v

\* A pending origin is the visit it stands for.
LEMMA OriginNew ==
    ASSUME Typed, NEW srcs, NEW m \in Nodes, srcs = ReconciledSources(sources, phys),
           Pending(srcs[m])
    PROVE  LET v == Visit(m, srcs[m], "positive") IN v \in VisitType /\ Earned(v)
<1>1. SourceOK(sources[m], phys[m]) /\ srcs[m] = sources[m]
  <2>1. SourcesOK(sources, phys)
    BY DEF Typed
  <2>2. srcs[m] = sources[m]
    BY <2>1, SourcesReconciled
  <2> QED BY <2>1, <2>2, SourceParts
<1>2. sources[m].gen \in Nat \ {0} /\ sources[m].at \in 0 .. MaxTime
  BY <1>1 DEF SourceOK, SourceType, Pending
<1> DEFINE v == Visit(m, srcs[m], "positive")
<1>3. v \in VisitType /\ v.node = m /\ v.gen = sources[m].gen
  <2> DEFINE src == srcs[m]
  <2>1. src.gen = sources[m].gen /\ src.gen \in Nat \ {0} /\ src.at \in 0 .. MaxTime
    BY <1>1, <1>2
  <2> HIDE DEF src
  <2>2. LET u == Visit(m, src, "positive")
        IN  u \in VisitType /\ u.node = m /\ u.gen = sources[m].gen
    BY <2>1 DEF Visit, VisitType, Kinds
  <2> QED BY <2>2 DEF src
<1> HIDE DEF v
<1>4. Earned(v)
  BY <1>1, <1>3 DEF Earned
<1> QED BY <1>3, <1>4 DEF v

\* Whatever an observation selects.
LEMMA SelectSafe ==
    ASSUME Typed, phys' \in [Nodes -> NodeState], UNCHANGED <<now, count>>,
           NEW ps \in SUBSET Good, NEW srcs, srcs = ReconciledSources(sources, phys),
           SourcesOK(srcs, phys'),
           NEW target \in VisitType, Earned(target), target.gen <= phys'[target.node].gen,
           NEW adopts, Select(ps, srcs, target, phys, phys', adopts)
    PROVE  Typed' /\ paths' \subseteq Good
<1>1. now' \in 0 .. MaxTime /\ count' \in 0 .. MaxCount
  BY DEF Typed
<1>2. ps \in SUBSET PathType
  BY DEF Good
<1>3. ASSUME NEW c \in Continuations(ps, target, phys),
             Continue(ps, srcs, target, phys', c)
      PROVE  Typed' /\ paths' \subseteq Good
  <2>1. /\ c.path \in ps /\ c.prefix \in Trails /\ ToSet(c.prefix) \subseteq Occurrences(c.path)
    BY <1>2, <1>3, ContinuationParts
  <2>2. AdvancedPath(c, target) \in Good
    BY <2>1, GoodAdvanced
  <2> DEFINE new == (ps \ {c.path}) \cup {AdvancedPath(c, target)}
             ledger == Recorded(Spent(srcs, Last(c.prefix)), target, TRUE)
  <2>3. new \in SUBSET Good
    BY <2>2
  <2>4. SourcesOK(Spent(srcs, Last(c.prefix)), phys')
    BY <2>1, TrailParts, SpentOK
  <2>5. SourcesOK(ledger, phys')
    BY <2>4, RecordedOK
  <2>6. Settle(new, ledger, phys')
    BY <1>3 DEF Continue
  <2> HIDE DEF new, ledger
  <2> QED BY <1>1, <2>3, <2>5, <2>6, SettleSafe
<1>4. ASSUME NEW m \in OriginNodes(srcs, target), PairUp(ps, srcs, target, phys', m)
      PROVE  Typed' /\ paths' \subseteq Good
  <2> DEFINE v == Visit(m, srcs[m], "positive")
             ledger == Recorded([srcs EXCEPT ![m].consumed = TRUE], target, TRUE)
  <2>1. m \in Nodes /\ Pending(srcs[m])
    BY <1>4 DEF OriginNodes
  <2>2. v \in VisitType /\ Earned(v)
    BY <2>1, OriginNew
  <2>3. SourcesOK(ledger, phys')
    <3> DEFINE src == [srcs[m] EXCEPT !.consumed = TRUE]
    <3>1. SourceOK(src, phys'[m])
      BY <2>1, SourceParts, ConsumedOK
    <3>2. [srcs EXCEPT ![m].consumed = TRUE] = [srcs EXCEPT ![m] = src]
      OBVIOUS
    <3> HIDE DEF src
    <3>3. SourcesOK([srcs EXCEPT ![m] = src], phys')
      BY <2>1, <3>1, OneSource
    <3> QED BY <3>2, <3>3, RecordedOK
  <2>4. PICK slots \in Installed(ps, NewPath(<<v, target>>)) : Settle(slots, ledger, phys')
    BY <1>4 DEF PairUp
  <2> HIDE DEF v, ledger
  <2>5. NewPath(<<v, target>>) \in Good
    <3>1. <<v, target>> \in Trails /\ ToSet(<<v, target>>) = {v, target}
      BY <2>2, NewTrails
    <3> QED BY <2>2, <3>1, GoodNew
  <2>6. slots \in SUBSET Good
    BY <2>4, <2>5, InstalledSafe
  <2> QED BY <1>1, <2>3, <2>4, <2>6, SettleSafe
<1>5. ASSUME Admit(ps, srcs, target, phys') PROVE Typed' /\ paths' \subseteq Good
  <2>1. PICK slots \in Installed(ps, NewPath(<<target>>)) :
            Settle(slots, Recorded(srcs, target, TRUE), phys')
    BY <1>5 DEF Admit
  <2>2. NewPath(<<target>>) \in Good
    <3>1. <<target>> \in Trails /\ ToSet(<<target>>) = {target}
      BY NewTrails
    <3> QED BY <3>1, GoodNew
  <2>3. slots \in SUBSET Good
    BY <2>1, <2>2, InstalledSafe
  <2>4. SourcesOK(Recorded(srcs, target, TRUE), phys')
    BY RecordedOK
  <2> QED BY <1>1, <2>1, <2>3, <2>4, SettleSafe
<1>6. ASSUME Await(ps, srcs, target, phys') PROVE Typed' /\ paths' \subseteq Good
  <2>1. SourcesOK(Recorded(srcs, target, FALSE), phys')
    BY RecordedOK
  <2> QED BY <1>1, <1>6, <2>1, SettleSafe DEF Await
<1>7. \/ \E c \in Continuations(ps, target, phys) : Continue(ps, srcs, target, phys', c)
      \/ \E m \in OriginNodes(srcs, target) : PairUp(ps, srcs, target, phys', m)
      \/ Admit(ps, srcs, target, phys') \/ Await(ps, srcs, target, phys')
  BY DEF Select
<1> QED BY <1>3, <1>4, <1>5, <1>6, <1>7

LEMMA ObserveSafe ==
    ASSUME Typed, NEW n \in Nodes, NEW s, Newer(n, s), NEW adopts, ObserveEffect(n, s, adopts)
    PROVE  Typed' /\ paths' \subseteq Good
<1> DEFINE ps == Reconciled(paths, phys)
           srcs == ReconciledSources(sources, phys)
           target == Visit(n, s, Kind(n, s))
<1>1. /\ target \in VisitType /\ Earned(target) /\ target.node = n /\ target.gen = s.gen
      /\ phys' \in [Nodes -> NodeState] /\ Grows(phys, phys') /\ phys'[n] = s
      /\ UNCHANGED <<now, count>>
  BY TargetNew DEF ObserveEffect
<1>2. /\ phys \in [Nodes -> NodeState] /\ SourcesOK(sources, phys)
      /\ paths \in SUBSET PathType
      /\ now' \in 0 .. MaxTime /\ count' \in 0 .. MaxCount
  BY <1>1 DEF Typed
<1>3. SourcesOK(srcs, phys')
  <2>1. SourcesOK(sources, phys')
    BY <1>1, <1>2, SourcesLater
  <2> QED BY <2>1, SourcesReconciled
<1>4. ps \in SUBSET Good
  BY <1>2, GoodNow, GoodReconciled
<1>5. target.gen <= phys'[target.node].gen
  <2>1. s.gen \in Int
    BY DEF Newer, NodeState
  <2> QED BY <1>1, <2>1
<1>6. \/ Settle(ps, Recorded(srcs, target, TRUE), phys')
      \/ Select(ps, srcs, target, phys, phys', adopts)
  BY DEF ObserveEffect
<1> HIDE DEF ps, target
<1>7. CASE Settle(ps, Recorded(srcs, target, TRUE), phys')
  <2>1. SourcesOK(Recorded(srcs, target, TRUE), phys')
    BY <1>1, <1>3, <1>5, RecordedOK
  <2> QED BY <1>1, <1>2, <1>4, <1>7, <2>1, SettleSafe
<1>8. CASE Select(ps, srcs, target, phys, phys', adopts)
  BY <1>1, <1>3, <1>4, <1>5, <1>8, SelectSafe
<1> QED BY <1>6, <1>7, <1>8

\* What the physical changes do to one node.
\* A generation stands, or one begins now.
Since(s, t) ==
    \/ t.gen = s.gen /\ t.at = s.at /\ (t.correlated => s.correlated)
    \/ t.gen > s.gen /\ t.at = now
Same(s, t) == t \in NodeState /\ s.gen <= t.gen /\ Since(s, t)

LEMMA SameNode ==
    ASSUME NEW s \in NodeState
    PROVE  /\ Same(s, s) /\ Same(s, Released(s)) /\ Same(s, Reopened(s)) /\ Same(s, Lost(s))
           /\ Same(s, Returned(s)) /\ Same(s, Settled(s)) /\ Same(s, Uncorrelated(s))
           /\ Same(s, [Lost(s) EXCEPT !.status = "baseline"])
<1>1. s.gen \in Nat /\ s.gen <= s.gen
  BY DEF NodeState
<1>2. Same(s, s) /\ Same(s, Released(s)) /\ Same(s, Reopened(s)) /\ Same(s, Returned(s))
      /\ Same(s, Settled(s))
  BY <1>1 DEF Same, Since, NodeState, Statuses, Released, Reopened, Returned, Settled
<1>3. Same(s, Uncorrelated(s)) /\ ~Uncorrelated(s).correlated
  BY <1>1 DEF Same, Since, NodeState, Uncorrelated
<1>4. Same(s, Lost(s)) /\ Same(s, [Lost(s) EXCEPT !.status = "baseline"])
  <2> DEFINE u == Uncorrelated(s)
  <2>1. u \in NodeState /\ s.gen <= u.gen /\ Since(s, u)
    BY <1>3 DEF Same
  <2>2. Lost(s) = [u EXCEPT !.status = "unavailable"]
    BY DEF Lost
  <2>3. [Lost(s) EXCEPT !.status = "baseline"] = [u EXCEPT !.status = "baseline"]
    BY <2>1, <2>2 DEF NodeState
  <2> HIDE DEF u
  <2> QED BY <2>1, <2>2, <2>3 DEF Same, Since, NodeState, Statuses
<1> QED BY <1>2, <1>3, <1>4

LEMMA NewerNode ==
    ASSUME Typed, NEW n \in Nodes, NEW linked \in BOOLEAN
    PROVE  /\ Newer(n, Pressed(phys[n], now)) /\ Newer(n, Started(n, phys[n], now, linked))
           /\ Same(phys[n], Started(n, phys[n], now, linked))
<1>1. phys[n] \in NodeState /\ now \in 0 .. MaxTime
  BY DEF Typed
<1>2. phys[n].gen \in Nat /\ phys[n].gen + 1 \in Nat /\ now \in Nat
      /\ phys[n].gen <= phys[n].gen + 1
  BY <1>1, Bounds DEF NodeState
<1>3. (n \in PresenceNodes) \in BOOLEAN
  OBVIOUS
<1> QED BY <1>2, <1>3 DEF Newer, Same, Since, Pressed, Started, NodeState, Statuses

LEMMA OneNode ==
    ASSUME Typed, NEW n \in Nodes, NEW s, Same(phys[n], s), PhysicalChange([phys EXCEPT ![n] = s])
    PROVE  Typed' /\ paths' \subseteq Good
<1>1. phys \in [Nodes -> NodeState] /\ now \in 0 .. MaxTime
  BY DEF Typed
<1>2. phys' = [phys EXCEPT ![n] = s] /\ UNCHANGED <<now, count>>
      /\ Settle(paths, sources, phys')
  BY DEF PhysicalChange
<1>3. phys' \in [Nodes -> NodeState]
  BY <1>1, <1>2 DEF Same
<1>4. \A m \in Nodes : Same(phys[m], phys'[m])
  BY <1>1, <1>2, SameNode
<1>5. Grows(phys, phys')
  BY <1>4 DEF Grows, Same
<1> QED BY <1>1, <1>2, <1>3, <1>5, PhysicalSafe

LEMMA EachNode ==
    ASSUME Typed, phys' = [n \in Nodes |-> phys'[n]], \A n \in Nodes : Same(phys[n], phys'[n]),
           Settle(paths, sources, phys'), now' \in 0 .. MaxTime, UNCHANGED count
    PROVE  Typed' /\ paths' \subseteq Good
<1>1. phys' \in [Nodes -> NodeState]
  BY DEF Same
<1>2. Grows(phys, phys')
  BY DEF Grows, Same
<1> QED BY <1>1, <1>2, PhysicalSafe

LEMMA StartupGrows ==
    ASSUME Typed, Startup
    PROVE  /\ phys' = [n \in Nodes |-> phys'[n]] /\ \A n \in Nodes : Same(phys[n], phys'[n])
           /\ UNCHANGED <<now, count>> /\ Settle(paths, sources, phys')
<1>1. PICK read : /\ \A n \in Fallible : read[n] \in StartupStates(n, phys[n], now)
                  /\ PhysicalChange(StartupRead(read))
  BY DEF Startup
<1>2. /\ phys' = StartupRead(read) /\ UNCHANGED <<now, count>>
      /\ Settle(paths, sources, phys')
  BY <1>1 DEF PhysicalChange
<1>3. \A n \in Nodes : phys'[n] = IF n \in Fallible THEN read[n] ELSE phys[n]
  BY <1>2 DEF StartupRead
<1>4. phys' = [n \in Nodes |-> phys'[n]]
  BY <1>2 DEF StartupRead
<1>5. ASSUME NEW n \in Nodes PROVE Same(phys[n], phys'[n])
  <2>1. phys[n] \in NodeState
    BY DEF Typed
  <2>2. CASE n \in Fallible
    <3>1. phys'[n] \in StartupStates(n, phys[n], now)
      BY <1>1, <1>3, <2>2
    <3>2. phys'[n] \in {Lost(phys[n]), phys[n], [Lost(phys[n]) EXCEPT !.status = "baseline"],
                        Started(n, phys[n], now, FALSE)}
      BY <3>1 DEF StartupStates
    <3>3. Same(phys[n], Started(n, phys[n], now, FALSE))
      BY NewerNode
    <3> QED BY <2>1, <3>2, <3>3, SameNode
  <2>3. CASE n \notin Fallible
    BY <1>3, <2>1, <2>3, SameNode
  <2> QED BY <2>2, <2>3
<1> QED BY <1>2, <1>4, <1>5

LEMMA StartupSafe ==
    ASSUME Typed, Startup PROVE Typed' /\ paths' \subseteq Good
<1>1. now' \in 0 .. MaxTime
  BY StartupGrows DEF Typed
<1> QED BY <1>1, StartupGrows, EachNode

LEMMA AdvanceSafe ==
    ASSUME Typed, NEW settled \in SUBSET Nodes, Advance(settled)
    PROVE  Typed' /\ paths' \subseteq Good
<1>1. /\ phys' = [n \in Nodes |-> IF n \in settled THEN Settled(phys[n]) ELSE phys[n]]
      /\ Settle(paths, sources, phys') /\ UNCHANGED count
      /\ now' \in {now, now + 1} /\ now' <= MaxTime
  BY DEF Advance
<1>2. phys' = [n \in Nodes |-> phys'[n]]
  BY <1>1
<1>3. \A n \in Nodes : Same(phys[n], phys'[n])
  <2>1. \A n \in Nodes : phys[n] \in NodeState
    BY DEF Typed
  <2> QED BY <1>1, <2>1, SameNode
<1>4. now' \in 0 .. MaxTime
  BY <1>1, Bounds DEF Typed
<1> QED BY <1>1, <1>2, <1>3, <1>4, EachNode

LEMMA CountSafe ==
    ASSUME Typed, NEW k \in 0 .. MaxCount, SetCount(k)
    PROVE  Typed' /\ paths' \subseteq Good
<1>1. /\ count' = k /\ now' = now
      /\ paths' \in Kept(Reconciled(paths, phys), k)
      /\ sources' = Forgotten(ReconciledSources(sources, phys), k)
      /\ phys' = [n \in Nodes |-> IF k = 0 THEN Uncorrelated(phys[n]) ELSE phys[n]]
  BY DEF SetCount
<1>2. /\ phys \in [Nodes -> NodeState] /\ SourcesOK(sources, phys) /\ paths \in SUBSET PathType
      /\ now \in 0 .. MaxTime
  BY DEF Typed
<1>3. \A n \in Nodes : Same(phys[n], phys'[n])
  BY <1>1, <1>2, SameNode
<1>4. phys' \in [Nodes -> NodeState] /\ Grows(phys, phys')
  BY <1>1, <1>3 DEF Same, Grows
<1>5. SourcesOK(sources', phys')
  <2>1. SourcesOK(sources, phys')
    BY <1>2, <1>4, SourcesLater
  <2>2. SourcesOK(ReconciledSources(sources, phys), phys')
    BY <2>1, SourcesReconciled
  <2> QED BY <1>1, <2>2, ForgottenOK
<1>6. paths' \subseteq Good
  <2>1. Reconciled(paths, phys) \subseteq Good
    BY <1>2, GoodNow, GoodReconciled
  <2> QED BY <1>1, <2>1 DEF Kept
<1>7. paths' \in SUBSET PathType
  BY <1>6 DEF Good
<1> QED BY <1>1, <1>2, <1>4, <1>5, <1>6, <1>7 DEF Typed

LEMMA ObservationSafe ==
    ASSUME Typed, NEW n \in Nodes, NEW s, Newer(n, s), Observation(n, s)
    PROVE  Typed' /\ paths' \subseteq Good
<1>1. \E adopts : ObserveEffect(n, s, adopts)
  BY DEF Observation, Asked, NotAsked, EmptyHouse
<1> QED BY <1>1, ObserveSafe

LEMMA NodeSafe ==
    ASSUME Typed, NEW n \in Nodes,
           \/ FrontierPress(n) \/ FrontierPositive(n) \/ FrontierCorrelated(n)
           \/ Release(n) \/ Return(n) \/ FrontierReopen(n) \/ FrontierLose(n)
    PROVE  Typed' /\ paths' \subseteq Good
<1>1. phys[n] \in NodeState
  BY DEF Typed
<1>2. CASE FrontierPress(n) \/ FrontierPositive(n) \/ FrontierCorrelated(n)
  <2>1. \E s : Newer(n, s) /\ Observation(n, s)
    BY <1>2, NewerNode DEF FrontierPress, FrontierPositive, FrontierCorrelated
  <2> QED BY <2>1, ObservationSafe
<1>3. CASE Release(n) \/ Return(n) \/ FrontierReopen(n) \/ FrontierLose(n)
  <2>1. \E s : Same(phys[n], s) /\ PhysicalChange([phys EXCEPT ![n] = s])
    <3>1. /\ Same(phys[n], Released(phys[n])) /\ Same(phys[n], Reopened(phys[n]))
          /\ Same(phys[n], Lost(phys[n])) /\ Same(phys[n], Returned(phys[n]))
      BY <1>1, SameNode
    <3> QED BY <1>3, <3>1
            DEF Release, Return, FrontierReopen, Reopen, FrontierLose, Lose
  <2> QED BY <2>1, OneNode
<1> QED BY <1>2, <1>3

LEMMA StepSafe ==
    ASSUME Typed, FrontierNext PROVE Typed' /\ paths' \subseteq Good
<1>1. CASE \E n \in Nodes :
              \/ FrontierPress(n) \/ FrontierPositive(n) \/ FrontierCorrelated(n)
              \/ Release(n) \/ Return(n) \/ FrontierReopen(n) \/ FrontierLose(n)
  BY <1>1, NodeSafe
<1>2. CASE Startup
  BY <1>2, StartupSafe
<1>3. CASE \E settled \in SUBSET Nodes : Advance(settled)
  BY <1>3, AdvanceSafe
<1>4. CASE \E k \in 0 .. MaxCount : SetCount(k)
  BY <1>4, CountSafe
<1> QED BY <1>1, <1>2, <1>3, <1>4
        DEF FrontierNext, FrontierStartup, FrontierAdvance, FrontierCount

LEMMA StutterSafe ==
    ASSUME Typed, UNCHANGED vars PROVE Typed'
BY DEF vars, Typed, SourcesOK

LEMMA InitTyped ==
    ASSUME FrontierInit PROVE Typed
<1>1. now = 0 /\ count \in 0 .. MaxCount /\ paths = {}
      /\ phys = [n \in Nodes |-> FreshNode] /\ sources = [n \in Nodes |-> NoSource]
  BY DEF FrontierInit, Init
<1>2. FreshNode \in NodeState /\ FreshNode.gen = 0
  BY DEF FreshNode, NodeState, Statuses
<1>3. NoSource \in SourceType /\ NoSource.gen = 0 /\ NoSource.origin = "none"
  BY DEF NoSource, SourceType, Origins
<1>4. SourcesOK(sources, phys)
  BY <1>1, <1>2, <1>3 DEF SourcesOK
<1>5. now \in 0 .. MaxTime /\ phys \in [Nodes -> NodeState]
  BY <1>1, <1>2, Bounds
<1> QED BY <1>1, <1>4, <1>5 DEF Typed

\* The paths, the ledger and the physical states keep their form, and the
\* ledger is never ahead of the physical states.
THEOREM FrontierTyped == FrontierSpec => []Typed
<1>1. Typed /\ [FrontierNext]_<<vars, frontier>> => Typed'
  BY StepSafe, StutterSafe
<1> QED BY <1>1, InitTyped, PTL DEF FrontierSpec

\* Authority that was withdrawn, spent, displaced or evicted never comes back
\* to a path: a visit comes into a path as a new generation or a pending
\* origin, and what a path did before keeps at most the authority it had.
THEOREM FrontierNotRegained == FrontierSpec => AuthorityNotRegained
<1> DEFINE A == paths' \subseteq Good
<1>1. Typed /\ [FrontierNext]_<<vars, frontier>> => [A]_vars
  BY StepSafe
<1>2. A => /\ \A q \in paths' : \A v \in Occurrences(q) :
                 \/ Earned(v)
                 \/ \E p \in paths : \E u \in Occurrences(p) :
                        Id(u) = Id(v) /\ (v.active => u.active)
           /\ \A q \in paths' : q.eligible =>
                 \/ Earned(Endpoint(q))
                 \/ \E p \in paths : Id(Endpoint(p)) = Id(Endpoint(q)) /\ p.eligible
  BY DEF Good, Traced, Traceable
<1> QED BY <1>1, <1>2, FrontierTyped, PTL DEF FrontierSpec, AuthorityNotRegained

-----------------------------------------------------------------------------
(* What a reconciliation leaves. *)

AuthorityIds(p) == Ids(p.route) \cup {Id(Last(w)) : w \in p.branches}

\* Every copy of a visit has the same authority, and only what lives and is
\* authoritative has it.
Shape(p, ph) ==
    /\ \A v \in Occurrences(p) : v.active => BranchLive(v, ph) /\ Id(v) \in AuthorityIds(p)
    /\ \A u, v \in Occurrences(p) : Id(u) = Id(v) /\ u.active => v.active
    /\ p.eligible => EndpointLive(Endpoint(p), ph)
    /\ ~p.eligible => ~Endpoint(p).active
    /\ \A w \in p.branches : /\ Last(w).active /\ Last(w).kind # "interaction"
                             /\ Id(Last(w)) \in Ids(p.visits) \ Ids(p.route)

CoveredIds(p) == {Id(v) : v \in Coverage(p)}

Shaped ==
    /\ \A p \in paths : Shape(p, phys)
    /\ ReconciledSources(sources, phys) = sources

\* A token stands for the generation of a working sensor that a path covers,
\* and nothing else ends a path at its node.
TokenHeld(k) ==
    /\ k.node \in Nodes \ InteractionNodes /\ k.gen = phys[k.node].gen /\ k.gen > 0
    /\ phys[k.node].status \notin {"baseline", "unavailable"}
    /\ sources[k.node].gen = k.gen /\ sources[k.node].consumed
    /\ \E p \in paths : <<k.node, k.gen>> \in CoveredIds(p)
    /\ \A p \in paths : Endpoint(p).node = k.node => Endpoint(p).gen = k.gen /\ p.eligible

\* A candidate stands for a pending origin that no path covers.
CandidateHeld(c) ==
    /\ c.node \in Nodes \ InteractionNodes
    /\ Pending(sources[c.node]) /\ sources[c.node].gen = c.gen
    /\ c.node \notin CoveredNodes(paths)

Held ==
    /\ \A k \in tokens : TokenHeld(k)
    /\ \A c \in candidates : CandidateHeld(c)

FInv == Typed /\ Shaped /\ Held

LEMMA IdsOf ==
    ASSUME NEW r \in Trails
    PROVE  /\ Ids(r) = {Id(r[i]) : i \in 1 .. Len(r)} /\ Id(Last(r)) \in Ids(r)
           /\ \A v \in ToSet(r) : Id(v) \in Ids(r)
BY TrailParts DEF Ids

\* What retiring does to the visits of one sequence.
LEMMA RetiredImage ==
    ASSUME NEW r \in Trails, NEW W, NEW A
    PROVE  LET g == RetiredAll(r, W, A)
           IN  /\ Ids(g) = Ids(r) /\ Last(g) = Retired(Last(r), W, A)
               /\ \A v \in ToSet(g) : \E u \in ToSet(r) : v = Retired(u, W, A)
<1> DEFINE g == RetiredAll(r, W, A)
<1>1. Fades(r, g)
  BY RetiredFades
<1>2. DOMAIN r = 1 .. Len(r) /\ Len(r) \in 1 .. Len(r)
  BY TrailParts
<1>3. \A i \in 1 .. Len(r) : g[i] = Retired(r[i], W, A)
  BY <1>2 DEF RetiredAll
<1> HIDE DEF g
<1>4. g \in Trails /\ Len(g) = Len(r) /\ \A i \in 1 .. Len(r) : Id(g[i]) = Id(r[i])
  BY <1>1 DEF Fades, Dims
<1>5. Ids(g) = Ids(r)
  <2>1. Ids(g) = {Id(g[i]) : i \in 1 .. Len(r)} /\ Ids(r) = {Id(r[i]) : i \in 1 .. Len(r)}
    BY <1>4, IdsOf
  <2> QED BY <1>4, <2>1
<1>6. Last(g) = Retired(Last(r), W, A)
  BY <1>2, <1>3, <1>4, TrailParts
<1>7. \A v \in ToSet(g) : \E u \in ToSet(r) : v = Retired(u, W, A)
  <2>1. ToSet(g) = {g[i] : i \in 1 .. Len(r)} /\ \A i \in 1 .. Len(r) : r[i] \in ToSet(r)
    BY <1>4, TrailParts
  <2> QED BY <1>3, <2>1
<1> QED BY <1>5, <1>6, <1>7 DEF g

LEMMA RetiredVisit ==
    ASSUME NEW v \in VisitType, NEW W, NEW A
    PROVE  /\ Id(Retired(v, W, A)) = Id(v) /\ Retired(v, W, A).node = v.node
           /\ Retired(v, W, A).gen = v.gen /\ Retired(v, W, A).kind = v.kind
           /\ Retired(v, W, A).active <=> v.active /\ Id(v) \notin W /\ Id(v) \in A
<1> DEFINE g == [v EXCEPT !.active = FALSE]
<1>1. /\ g.node = v.node /\ g.gen = v.gen /\ g.kind = v.kind /\ ~g.active
  BY DEF VisitType
<1>2. Retired(v, W, A) = IF Id(v) \in W \/ Id(v) \notin A THEN g ELSE v
  BY DEF Retired
<1> HIDE DEF g
<1>3. CASE Id(v) \in W \/ Id(v) \notin A
  BY <1>1, <1>2, <1>3 DEF Id
<1>4. CASE ~(Id(v) \in W \/ Id(v) \notin A)
  BY <1>2, <1>4
<1> QED BY <1>3, <1>4

LEMMA OccurrenceParts ==
    ASSUME NEW p \in PathType
    PROVE  /\ \A v \in Occurrences(p) : v \in VisitType
           /\ Endpoint(p) \in Occurrences(p) /\ Endpoint(p) \in ToSet(p.route)
           /\ \A w \in p.branches : Last(w) \in Occurrences(p) /\ Last(w) \in VisitType
           /\ \A v \in ToSet(p.route) : v \in Occurrences(p)
           /\ \A v \in ToSet(p.visits) : v \in Occurrences(p)
<1>1. \A r \in Trails : ToSet(r) \subseteq VisitType /\ Last(r) \in ToSet(r)
  BY TrailParts
<1> QED BY <1>1, PathParts, OccurrencesOf DEF Endpoint

\* The authority of a path before it is normalized follows the physical states.
Lives(p, ph) ==
    /\ \A v \in Occurrences(p) : v.active => BranchLive(v, ph)
    /\ p.eligible => EndpointLive(Endpoint(p), ph)

LEMMA SameLife ==
    ASSUME NEW u, NEW v, u.node = v.node, u.gen = v.gen, NEW ph
    PROVE  (BranchLive(u, ph) <=> BranchLive(v, ph)) /\ (EndpointLive(u, ph) <=> EndpointLive(v, ph))
BY DEF BranchLive, EndpointLive, SameGeneration

LEMMA NormalizedShape ==
    ASSUME NEW p \in PathType, NEW ph, Lives(p, ph)
    PROVE  Shape(Normalized(p), ph)
<1> DEFINE K == KeptBranches(p)
           W == Withdrawn(p)
           A == Ids(p.route) \cup {Id(Last(w)) : w \in K}
           q == Normalized(p)
<1>1. K \subseteq p.branches
  BY DEF KeptBranches
<1>2. /\ q.visits = RetiredAll(p.visits, W, A) /\ q.route = RetiredAll(p.route, W, A)
      /\ q.branches = {RetiredAll(w, W, A) : w \in K} /\ q.eligible = p.eligible
  BY DEF Normalized, NormalizedWith, PathType
<1>3. q \in PathType
  BY NormalizedFades DEF PathFades
<1>4. /\ p.visits \in Trails /\ p.route \in Trails /\ p.branches \subseteq Trails
      /\ p.eligible \in BOOLEAN
  BY PathParts
<1>5. \A v \in Occurrences(p) : ~v.active => Id(v) \in W
  BY DEF Withdrawn
<1>6. ~p.eligible => Id(Endpoint(p)) \in W
  BY DEF Withdrawn
<1>7. \A w \in K : /\ Id(Last(w)) \in Ids(p.visits) \ Ids(p.route) /\ Id(Last(w)) \notin W
                   /\ Last(w).kind # "interaction" /\ Id(Last(w)) \in A
  BY DEF KeptBranches
<1> HIDE DEF q, W, K, A
<1>8. ASSUME NEW v \in Occurrences(q)
      PROVE  \E u \in Occurrences(p) : v = Retired(u, W, A)
  <2>1. CASE v \in ToSet(q.visits)
    <3>1. PICK u \in ToSet(p.visits) : v = Retired(u, W, A)
      BY <1>2, <1>4, <2>1, RetiredImage
    <3> QED BY <3>1, OccurrencesOf
  <2>2. CASE v \in ToSet(q.route)
    <3> DEFINE r == p.route
    <3>0. r \in Trails /\ v \in ToSet(RetiredAll(r, W, A))
      BY <1>2, <1>4, <2>2
    <3> HIDE DEF r
    <3>1. PICK u \in ToSet(r) : v = Retired(u, W, A)
      BY <3>0, RetiredImage
    <3> QED BY <3>1, OccurrencesOf DEF r
  <2>3. CASE \E w \in q.branches : v \in ToSet(w)
    <3>1. PICK w \in K : v \in ToSet(RetiredAll(w, W, A))
      BY <1>2, <2>3
    <3>2. w \in Trails /\ w \in p.branches
      BY <1>1, <1>4
    <3>3. PICK u \in ToSet(w) : v = Retired(u, W, A)
      BY <3>1, <3>2, RetiredImage
    <3> QED BY <3>2, <3>3, OccurrencesOf
  <2> QED BY <2>1, <2>2, <2>3, OccurrencesOf
<1>9. Ids(q.route) = Ids(p.route) /\ Ids(q.visits) = Ids(p.visits)
      /\ Endpoint(q) = Retired(Endpoint(p), W, A)
  BY <1>2, <1>4, RetiredImage DEF Endpoint
<1>10. \A w \in K : Last(RetiredAll(w, W, A)) = Retired(Last(w), W, A) /\ Last(w) \in VisitType
                    /\ Last(w) \in Occurrences(p)
  BY <1>1, <1>4, RetiredImage, OccurrenceParts
<1> DEFINE B == {Id(Last(w)) : w \in q.branches}
<1>11. B = {Id(Last(w)) : w \in K}
  <2>1. \A w \in K : Id(Last(RetiredAll(w, W, A))) = Id(Last(w))
    BY <1>10, RetiredVisit
  <2>2. ASSUME NEW x \in B PROVE x \in {Id(Last(w)) : w \in K}
    BY <1>2, <2>1
  <2>3. ASSUME NEW w \in K PROVE Id(Last(w)) \in B
    <3>1. RetiredAll(w, W, A) \in q.branches
      BY <1>2
    <3> QED BY <2>1, <3>1
  <2> HIDE DEF B
  <2> QED BY <2>2, <2>3
<1>12. AuthorityIds(q) = A
  BY <1>9, <1>11 DEF AuthorityIds, A
<1> HIDE DEF B
<1>13. ASSUME NEW v \in Occurrences(q)
       PROVE  \E u \in Occurrences(p) :
                  /\ u \in VisitType /\ Id(v) = Id(u) /\ v.node = u.node /\ v.gen = u.gen
                  /\ v.active <=> u.active /\ Id(u) \notin W /\ Id(u) \in A
  <2>1. PICK u \in Occurrences(p) : v = Retired(u, W, A)
    BY <1>8
  <2>2. u \in VisitType
    BY OccurrenceParts
  <2> QED BY <2>1, <2>2, RetiredVisit
<1>14. ASSUME NEW v \in Occurrences(q), v.active
       PROVE  BranchLive(v, ph) /\ Id(v) \in AuthorityIds(q) /\ Id(v) \notin W /\ Id(v) \in A
  <2>1. PICK u \in Occurrences(p) :
                  /\ u \in VisitType /\ Id(v) = Id(u) /\ v.node = u.node /\ v.gen = u.gen
                  /\ v.active <=> u.active /\ Id(u) \notin W /\ Id(u) \in A
    BY <1>13
  <2>2. BranchLive(u, ph)
    BY <1>14, <2>1 DEF Lives
  <2> QED BY <1>12, <1>14, <2>1, <2>2, SameLife
<1>15. ASSUME NEW u \in Occurrences(q), NEW v \in Occurrences(q), Id(u) = Id(v), u.active
       PROVE  v.active
  <2>1. Id(v) \notin W /\ Id(v) \in A
    BY <1>14, <1>15
  <2>2. PICK o \in Occurrences(p) :
            /\ Id(v) = Id(o)
            /\ v.active <=> o.active /\ Id(o) \notin W /\ Id(o) \in A
    BY <1>13
  <2>3. Id(o) \notin W /\ Id(o) \in A
    BY <2>1, <2>2
  <2>4. o.active
    BY <1>5, <2>3
  <2> QED BY <2>2, <2>3, <2>4
<1>16. Endpoint(p) \in VisitType /\ Endpoint(p) \in Occurrences(p)
  BY OccurrenceParts
<1>17. q.eligible => EndpointLive(Endpoint(q), ph)
  <2>1. Endpoint(q).node = Endpoint(p).node /\ Endpoint(q).gen = Endpoint(p).gen
    BY <1>9, <1>16, RetiredVisit
  <2> QED BY <1>2, <2>1, SameLife DEF Lives
<1>18. ~q.eligible => ~Endpoint(q).active
  BY <1>2, <1>6, <1>9, <1>16, RetiredVisit
<1>19. ASSUME NEW w \in q.branches
       PROVE  /\ Last(w).active /\ Last(w).kind # "interaction"
              /\ Id(Last(w)) \in Ids(q.visits) \ Ids(q.route)
  <2>1. PICK x \in K : w = RetiredAll(x, W, A)
    BY <1>2
  <2>2. Last(w) = Retired(Last(x), W, A) /\ Last(x) \in VisitType /\ Last(x) \in Occurrences(p)
    BY <1>10, <2>1
  <2>3. Last(x).active
    BY <1>5, <1>7, <2>2
  <2> QED BY <1>7, <1>9, <2>2, <2>3, RetiredVisit
<1>20. Shape(q, ph)
  BY <1>14, <1>15, <1>17, <1>18, <1>19 DEF Shape
<1> QED BY <1>20 DEF q

LEMMA PrunedLives ==
    ASSUME NEW r \in Trails, NEW ph
    PROVE  \A v \in ToSet(Pruned(r, ph)) : v.active => BranchLive(v, ph)
<1> DEFINE g == Pruned(r, ph)
<1>1. Fades(r, g)
  BY PrunedFades
<1>2. DOMAIN r = 1 .. Len(r) /\ \A i \in 1 .. Len(r) : r[i] \in VisitType
  BY TrailParts
<1>3. \A i \in 1 .. Len(r) : g[i] = [r[i] EXCEPT !.active = @ /\ BranchLive(r[i], ph)]
  BY <1>2 DEF Pruned
<1> HIDE DEF g
<1>4. g \in Trails /\ Len(g) = Len(r)
      /\ \A i \in 1 .. Len(r) : g[i].node = r[i].node /\ g[i].gen = r[i].gen
  BY <1>1 DEF Fades, Dims
<1>5. ToSet(g) = {g[i] : i \in 1 .. Len(r)}
  BY <1>4, TrailParts
<1>6. ASSUME NEW i \in 1 .. Len(r), g[i].active PROVE BranchLive(g[i], ph)
  <2>1. BranchLive(r[i], ph)
    BY <1>2, <1>3, <1>6 DEF VisitType
  <2> QED BY <1>4, <2>1, SameLife
<1> QED BY <1>5, <1>6 DEF g

LEMMA ReconciledShape ==
    ASSUME NEW p \in PathType, NEW ph
    PROVE  Shape(ReconciledPath(p, ph), ph)
<1> DEFINE v == Pruned(p.visits, ph)
           r == Pruned(p.route, ph)
           e == p.eligible /\ EndpointLive(Endpoint(p), ph)
           B == {Pruned(w, ph) : w \in p.branches}
           q == Faded(p, v, r, e, B)
<1>1. ReconciledPath(p, ph) = Normalized(q)
  BY DEF ReconciledPath, Faded
<1>2. Fades(p.visits, v) /\ Fades(p.route, r)
  BY PathParts, PrunedFades
<1>3. e \in BOOLEAN /\ (e => p.eligible)
  BY PathParts DEF EndpointLive, SameGeneration
<1>4. \A w \in B : \E x \in p.branches : Fades(x, w)
  <2>1. ASSUME NEW x \in p.branches PROVE Fades(x, Pruned(x, ph))
    BY PathParts, PrunedFades
  <2> QED BY <2>1
<1>5. \A o \in ToSet(v) \cup ToSet(r) : o.active => BranchLive(o, ph)
  BY PathParts, PrunedLives
<1>6. \A w \in B : \A o \in ToSet(w) : o.active => BranchLive(o, ph)
  <2>1. ASSUME NEW x \in p.branches
        PROVE  \A o \in ToSet(Pruned(x, ph)) : o.active => BranchLive(o, ph)
    BY PathParts, PrunedLives
  <2> QED BY <2>1
<1>7. e => EndpointLive(Endpoint(p), ph)
  OBVIOUS
<1> HIDE DEF v, r, e, B
<1>8. PathFades(p, q)
  BY <1>2, <1>3, <1>4, FadedPath
<1>9. q \in PathType /\ q.visits = v /\ q.route = r /\ q.eligible = e /\ q.branches = B
  BY <1>8 DEF PathFades, Faded, PathType
<1> HIDE DEF q
<1>10. \A o \in Occurrences(q) : o.active => BranchLive(o, ph)
  BY <1>5, <1>6, <1>9, OccurrencesOf
<1>11. q.eligible => EndpointLive(Endpoint(q), ph)
  <2>1. Id(Endpoint(q)) = Id(Endpoint(p))
    BY <1>8, PathFadesParts
  <2>2. Endpoint(q).node = Endpoint(p).node /\ Endpoint(q).gen = Endpoint(p).gen
    BY <2>1 DEF Id
  <2> QED BY <1>7, <1>9, <2>2, SameLife
<1>12. Lives(q, ph)
  BY <1>10, <1>11 DEF Lives
<1> QED BY <1>1, <1>9, <1>12, NormalizedShape

LEMMA TrailSelf ==
    ASSUME NEW r \in Trails
    PROVE  r = [i \in 1 .. Len(r) |-> r[i]]
<1>1. r \in [1 .. Len(r) -> VisitType]
  BY LenProperties DEF Trails
<1> QED BY <1>1

\* A trail whose visits a reconciliation has nothing to withdraw from.
LEMMA PrunedSame ==
    ASSUME NEW r \in Trails, NEW ph, \A v \in ToSet(r) : v.active => BranchLive(v, ph)
    PROVE  Pruned(r, ph) = r
<1>1. DOMAIN r = 1 .. Len(r) /\ \A i \in 1 .. Len(r) : r[i] \in VisitType /\ r[i] \in ToSet(r)
  BY TrailParts
<1>2. ASSUME NEW i \in 1 .. Len(r)
      PROVE  [r[i] EXCEPT !.active = @ /\ BranchLive(r[i], ph)] = r[i]
  <2> DEFINE v == r[i]
             b == v.active /\ BranchLive(v, ph)
  <2>1. v \in VisitType /\ (v.active => BranchLive(v, ph))
    BY <1>1
  <2>2. b = v.active
    <3>1. v.active \in BOOLEAN /\ BranchLive(v, ph) \in BOOLEAN
      BY <2>1, VisitParts DEF BranchLive, SameGeneration
    <3> QED BY <2>1, <3>1
  <2> HIDE DEF v, b
  <2>3. [v EXCEPT !.active = b] = v
    BY <2>1, <2>2 DEF VisitType
  <2> QED BY <2>3 DEF v, b
<1>3. Pruned(r, ph) = [i \in 1 .. Len(r) |-> r[i]]
  BY <1>1, <1>2 DEF Pruned
<1> QED BY <1>3, TrailSelf

LEMMA RetiredSame ==
    ASSUME NEW r \in Trails, NEW W, NEW A,
           \A v \in ToSet(r) : ~v.active \/ (Id(v) \notin W /\ Id(v) \in A)
    PROVE  RetiredAll(r, W, A) = r
<1>1. DOMAIN r = 1 .. Len(r) /\ \A i \in 1 .. Len(r) : r[i] \in VisitType /\ r[i] \in ToSet(r)
  BY TrailParts
<1>2. ASSUME NEW i \in 1 .. Len(r) PROVE Retired(r[i], W, A) = r[i]
  <2> DEFINE v == r[i]
  <2>1. v \in VisitType /\ (~v.active \/ (Id(v) \notin W /\ Id(v) \in A))
    BY <1>1
  <2> HIDE DEF v
  <2>2. ~v.active => [v EXCEPT !.active = FALSE] = v
    BY <2>1 DEF VisitType
  <2>3. Retired(v, W, A) = v
    BY <2>1, <2>2 DEF Retired
  <2> QED BY <2>3 DEF v
<1>3. RetiredAll(r, W, A) = [i \in 1 .. Len(r) |-> r[i]]
  BY <1>1, <1>2 DEF RetiredAll
<1> QED BY <1>3, TrailSelf

\* Reconciling again with the same physical states changes nothing.
LEMMA ShapeFixed ==
    ASSUME NEW p \in PathType, NEW ph, Shape(p, ph)
    PROVE  ReconciledPath(p, ph) = p
<1> DEFINE v == Pruned(p.visits, ph)
           r == Pruned(p.route, ph)
           e == p.eligible /\ EndpointLive(Endpoint(p), ph)
           B == {Pruned(w, ph) : w \in p.branches}
           q == Faded(p, v, r, e, B)
<1>1. ReconciledPath(p, ph) = Normalized(q)
  BY DEF ReconciledPath, Faded
<1>2. /\ p.visits \in Trails /\ p.route \in Trails /\ p.branches \subseteq Trails
      /\ p.eligible \in BOOLEAN
  BY PathParts
<1>3. \A o \in Occurrences(p) : o.active => BranchLive(o, ph)
  BY DEF Shape
<1>4. v = p.visits /\ r = p.route
  BY <1>2, <1>3, PrunedSame, OccurrencesOf
<1>5. B = p.branches
  <2>1. ASSUME NEW w \in p.branches PROVE Pruned(w, ph) = w
    BY <1>2, <1>3, PrunedSame, OccurrencesOf
  <2> QED BY <2>1
<1>6. e = p.eligible
  <2>1. EndpointLive(Endpoint(p), ph) \in BOOLEAN
    BY DEF EndpointLive, SameGeneration
  <2> QED BY <1>2, <2>1 DEF Shape
<1> HIDE DEF v, r, e, B
<1>7. q = p
  BY <1>4, <1>5, <1>6 DEF Faded, PathType
<1> DEFINE K == KeptBranches(p)
           W == Withdrawn(p)
           A == Ids(p.route) \cup {Id(Last(w)) : w \in K}
<1>8. ASSUME NEW o \in Occurrences(p), Id(o) \in W PROVE ~o.active
  <2>1. CASE \E u \in Occurrences(p) : ~u.active /\ Id(u) = Id(o)
    BY <2>1 DEF Shape
  <2>2. CASE ~p.eligible /\ Id(o) = Id(Endpoint(p))
    BY <2>2, OccurrenceParts DEF Shape
  <2> QED BY <1>8, <2>1, <2>2 DEF Withdrawn
<1>9. K = p.branches
  <2>1. ASSUME NEW w \in p.branches
        PROVE  /\ Id(Last(w)) \in Ids(p.visits) \ Ids(p.route) /\ Id(Last(w)) \notin W
               /\ Last(w).kind # "interaction"
    BY <1>8, OccurrenceParts DEF Shape
  <2> QED BY <2>1 DEF KeptBranches
<1>10. A = AuthorityIds(p)
  BY <1>9 DEF AuthorityIds
<1> HIDE DEF W, A
<1>11. \A o \in Occurrences(p) : ~o.active \/ (Id(o) \notin W /\ Id(o) \in A)
  BY <1>8, <1>10 DEF Shape
<1>12. RetiredAll(p.visits, W, A) = p.visits /\ RetiredAll(p.route, W, A) = p.route
  BY <1>2, <1>11, RetiredSame, OccurrencesOf
<1>13. \A w \in p.branches : RetiredAll(w, W, A) = w
  <2>1. ASSUME NEW w \in p.branches PROVE RetiredAll(w, W, A) = w
    BY <1>2, <1>11, RetiredSame, OccurrencesOf
  <2> QED BY <2>1
<1>14. Normalized(p) = [p EXCEPT !.visits = p.visits, !.route = p.route,
                                 !.branches = p.branches]
  <2>1. {RetiredAll(w, W, A) : w \in K} = p.branches
    BY <1>9, <1>13
  <2>2. Normalized(p) = NormalizedWith(p, K, W, A)
    BY DEF Normalized, W, A
  <2> HIDE DEF K
  <2> QED BY <1>12, <2>1, <2>2 DEF NormalizedWith
<1>15. Normalized(p) = p
  BY <1>14 DEF PathType
<1> QED BY <1>1, <1>7, <1>15

LEMMA SourcesFixed ==
    ASSUME NEW srcs, NEW ph
    PROVE  ReconciledSources(ReconciledSources(srcs, ph), ph) = ReconciledSources(srcs, ph)
<1> DEFINE new == ReconciledSources(srcs, ph)
<1>1. \A n \in Nodes : new[n] = IF SourceLive(n, srcs[n], ph) THEN srcs[n] ELSE Consumed(srcs[n])
  BY DEF ReconciledSources
<1>2. new = [n \in Nodes |-> new[n]]
  BY DEF ReconciledSources
<1> HIDE DEF new
<1>3. ASSUME NEW n \in Nodes
      PROVE  (IF SourceLive(n, new[n], ph) THEN new[n] ELSE Consumed(new[n])) = new[n]
  <2>1. CASE SourceLive(n, srcs[n], ph)
    BY <1>1, <2>1
  <2>2. CASE ~SourceLive(n, srcs[n], ph)
    <3>1. new[n] = Consumed(srcs[n])
      BY <1>1, <2>2
    <3> DEFINE o == srcs[n]
    <3>2. Consumed(Consumed(o)) = Consumed(o)
      <4>1. CASE Pending(o)
        <5> DEFINE t == [o EXCEPT !.consumed = TRUE]
        <5>1. Consumed(o) = t
          BY <4>1 DEF Consumed
        <5>2. "consumed" \in DOMAIN o => t.consumed = TRUE
          OBVIOUS
        <5> QED BY <5>1, <5>2 DEF Consumed, Pending
      <4>2. CASE ~Pending(o)
        BY <4>2 DEF Consumed
      <4> QED BY <4>1, <4>2
    <3> QED BY <3>1, <3>2
  <2> QED BY <2>1, <2>2
<1>4. ReconciledSources(new, ph) = [n \in Nodes |-> new[n]]
  BY <1>3 DEF ReconciledSources
<1> QED BY <1>2, <1>4 DEF new

LEMMA CoverParts ==
    ASSUME NEW p \in PathType, NEW ph, Shape(p, ph)
    PROVE  /\ CoveredIds(p)
                  = {Id(Endpoint(p))} \cup {Id(v) : v \in {u \in Occurrences(p) : u.active}}
           /\ Coverage(p) \subseteq Occurrences(p)
<1>1. Endpoint(p) \in ToSet(p.route) /\ Endpoint(p) \in Authoritative(p)
  BY OccurrenceParts DEF Authoritative
<1>2. Authoritative(p) \subseteq Occurrences(p)
  BY OccurrenceParts DEF Authoritative, Tips
<1>3. Id(Endpoint(p)) \in CoveredIds(p)
  BY <1>1 DEF CoveredIds, Coverage
<1>4. ASSUME NEW v \in Occurrences(p), v.active PROVE Id(v) \in CoveredIds(p)
  <2>1. Id(v) \in AuthorityIds(p)
    BY <1>4 DEF Shape
  <2>2. PICK u \in Authoritative(p) : Id(u) = Id(v)
    BY <2>1 DEF AuthorityIds, Authoritative, Tips, Ids
  <2>3. u.active
    BY <1>2, <1>4, <2>2 DEF Shape
  <2> QED BY <2>2, <2>3 DEF CoveredIds, Coverage
<1>5. Coverage(p) \subseteq Occurrences(p)
  BY <1>2 DEF Coverage
<1>6. ASSUME NEW x \in CoveredIds(p)
      PROVE  x = Id(Endpoint(p)) \/ \E v \in Occurrences(p) : v.active /\ Id(v) = x
  BY <1>5 DEF CoveredIds, Coverage
<1> QED BY <1>3, <1>4, <1>5, <1>6

LEMMA CoveredNode ==
    ASSUME NEW P, NEW n
    PROVE  n \in CoveredNodes(P) <=> \E p \in P : \E v \in Coverage(p) : v.node = n
BY DEF CoveredNodes

\* What a path that fades covers was covered before.
LEMMA CoverFades ==
    ASSUME NEW p \in PathType, NEW ph, Shape(p, ph), NEW after
    PROVE  CoveredIds(ReconciledPath(p, after)) \subseteq CoveredIds(p)
<1> DEFINE q == ReconciledPath(p, after)
<1>1. PathFades(p, q) /\ Shape(q, after)
  BY ReconciledFades, ReconciledShape
<1> HIDE DEF q
<1>2. q \in PathType
  BY <1>1 DEF PathFades
<1>3. ASSUME NEW x \in CoveredIds(q) PROVE x \in CoveredIds(p)
  <2>1. CASE x = Id(Endpoint(q))
    BY <1>1, <2>1, PathFadesParts, CoverParts
  <2>2. CASE \E v \in Occurrences(q) : v.active /\ Id(v) = x
    <3>1. PICK v \in Occurrences(q) : v.active /\ Id(v) = x
      BY <2>2
    <3>2. PICK u \in Occurrences(p) : Id(u) = x /\ u.active
      BY <1>1, <3>1, PathFadesParts
    <3> QED BY <3>2, CoverParts
  <2> QED BY <1>1, <1>2, <1>3, <2>1, <2>2, CoverParts
<1> QED BY <1>3 DEF q

\* The path that _advance_path normalizes.
LongerOf(c, target) ==
    Longer(c.path, LastOf(Limit, Append(c.path.visits, target)),
           LastOf(Limit, Append(c.prefix, target)),
           IF Zone[target.node] # Zone[Endpoint(c.path).node] THEN target.at
           ELSE c.path.spatialAt,
           c.path.confirmed \/ Confirms(LastOf(Limit, Append(c.prefix, target))),
           c.path.branches \cup LeftBehind(c.path, c.prefix))

Witnessed(c) ==
    c.path \in PathType /\ c.prefix \in Trails /\ ToSet(c.prefix) \subseteq Occurrences(c.path)

LEMMA LongerParts ==
    ASSUME NEW c, Witnessed(c), NEW target \in VisitType
    PROVE  LET p == c.path
               q == LongerOf(c, target)
           IN  /\ AdvancedPath(c, target) = Normalized(q)
               /\ q \in PathType /\ q.eligible = TRUE
               /\ q.visits = LastOf(Limit, Append(p.visits, target))
               /\ q.route = LastOf(Limit, Append(c.prefix, target))
               /\ q.branches = p.branches \cup LeftBehind(p, c.prefix)
               /\ q.spatialAt = IF Zone[target.node] # Zone[Endpoint(p).node] THEN target.at
                                ELSE p.spatialAt
               /\ q.confirmed = (p.confirmed \/ Confirms(q.route))
               /\ Last(q.visits) = target /\ Endpoint(q) = target
               /\ \A v \in Occurrences(q) : v \in Occurrences(p) \/ v = target
<1> DEFINE p == c.path
           v == LastOf(Limit, Append(p.visits, target))
           r == LastOf(Limit, Append(c.prefix, target))
           s == IF Zone[target.node] # Zone[Endpoint(p).node] THEN target.at ELSE p.spatialAt
           f == p.confirmed \/ Confirms(r)
           B == p.branches \cup LeftBehind(p, c.prefix)
           q == Longer(p, v, r, s, f, B)
<1>1. AdvancedPath(c, target) = Normalized(q) /\ q = LongerOf(c, target)
  BY DEF AdvancedPath, Longer, LongerOf
<1>2. p \in PathType
  BY DEF Witnessed
<1>3. v \in Trails /\ ToSet(v) \subseteq ToSet(p.visits) \cup {target} /\ Last(v) = target
  BY <1>2, PathParts, LongerTrail
<1>4. r \in Trails /\ ToSet(r) \subseteq ToSet(c.prefix) \cup {target} /\ Last(r) = target
  BY LongerTrail DEF Witnessed
<1>5. s \in 0 .. MaxTime
  BY <1>2, PathParts, VisitParts
<1>6. f \in BOOLEAN
  OBVIOUS
<1>7. \A w \in B : w \in Trails /\ ToSet(w) \subseteq Occurrences(p)
  <2>1. ASSUME NEW w \in p.branches PROVE w \in Trails /\ ToSet(w) \subseteq Occurrences(p)
    BY <1>2, PathParts, OccurrencesOf
  <2>2. ASSUME NEW w \in LeftBehind(p, c.prefix)
        PROVE  w \in Trails /\ ToSet(w) \subseteq Occurrences(p)
    BY <1>2, LeftBehindOf, OccurrencesOf
  <2> QED BY <2>1, <2>2
<1>8. ToSet(p.visits) \subseteq Occurrences(p) /\ ToSet(c.prefix) \subseteq Occurrences(p)
  BY OccurrencesOf DEF Witnessed
<1>9. s = (IF Zone[target.node] # Zone[Endpoint(c.path).node] THEN target.at
           ELSE c.path.spatialAt)
      /\ f = (c.path.confirmed \/ Confirms(r))
      /\ v = LastOf(Limit, Append(c.path.visits, target))
      /\ r = LastOf(Limit, Append(c.prefix, target))
      /\ B = c.path.branches \cup LeftBehind(c.path, c.prefix)
  OBVIOUS
<1> HIDE DEF v, r, s, f, B
<1>10. /\ q \in PathType /\ q.visits = v /\ q.route = r /\ q.branches = B
       /\ q.spatialAt = s /\ q.confirmed = f /\ q.eligible = TRUE
  <2>1. B \subseteq Trails
    BY <1>7
  <2> QED BY <1>2, <1>3, <1>4, <1>5, <1>6, <2>1 DEF Longer, PathType
<1> HIDE DEF q
<1>11. ASSUME NEW u \in Occurrences(q) PROVE u \in Occurrences(p) \/ u = target
  BY <1>3, <1>4, <1>7, <1>8, <1>10, OccurrencesOf
<1>12. Endpoint(q) = target
  BY <1>4, <1>10 DEF Endpoint
<1> HIDE DEF p
<1>13. q.confirmed = (c.path.confirmed \/ Confirms(q.route))
  BY <1>9, <1>10
<1> QED BY <1>1, <1>3, <1>9, <1>10, <1>11, <1>12, <1>13 DEF p

LEMMA AdvancedParts ==
    ASSUME NEW c, Witnessed(c), NEW target \in VisitType
    PROVE  LET q == AdvancedPath(c, target)
           IN  /\ q \in PathType /\ PathFades(LongerOf(c, target), q)
               /\ Id(Endpoint(q)) = Id(target) /\ q.eligible
               /\ \A v \in Occurrences(q) :
                     \E u \in Occurrences(c.path) \cup {target} :
                         Id(u) = Id(v) /\ (v.active => u.active)
<1> DEFINE o == LongerOf(c, target)
           q == AdvancedPath(c, target)
<1>1. /\ q = Normalized(o) /\ o \in PathType /\ o.eligible = TRUE /\ Endpoint(o) = target
      /\ \A v \in Occurrences(o) : v \in Occurrences(c.path) \/ v = target
  BY LongerParts
<1>2. q.eligible = o.eligible
  BY <1>1 DEF Normalized, NormalizedWith, PathType
<1> HIDE DEF o, q
<1>3. PathFades(o, q) /\ q \in PathType
  BY <1>1, NormalizedFades DEF PathFades
<1>4. Id(Endpoint(q)) = Id(target)
  BY <1>1, <1>3, PathFadesParts
<1>5. ASSUME NEW v \in Occurrences(q)
      PROVE  \E u \in Occurrences(c.path) \cup {target} : Id(u) = Id(v) /\ (v.active => u.active)
  BY <1>1, <1>3, PathFadesParts
<1> QED BY <1>1, <1>2, <1>3, <1>4, <1>5 DEF o, q

LEMMA CoverAdvanced ==
    ASSUME NEW c, Witnessed(c), NEW ph, Shape(c.path, ph), NEW target \in VisitType, NEW after
    PROVE  LET q == ReconciledPath(AdvancedPath(c, target), after)
           IN  /\ CoveredIds(q) \subseteq CoveredIds(c.path) \cup {Id(target)}
               /\ Id(Endpoint(q)) = Id(target)
               /\ q.eligible <=> EndpointLive(target, after)
<1> DEFINE o == AdvancedPath(c, target)
           q == ReconciledPath(o, after)
<1>1. /\ o \in PathType /\ Id(Endpoint(o)) = Id(target) /\ o.eligible
      /\ \A v \in Occurrences(o) : \E u \in Occurrences(c.path) \cup {target} :
             Id(u) = Id(v) /\ (v.active => u.active)
  BY AdvancedParts
<1> HIDE DEF o
<1>2. PathFades(o, q) /\ Shape(q, after)
  BY <1>1, ReconciledFades, ReconciledShape
<1>3. q.eligible = (o.eligible /\ EndpointLive(Endpoint(o), after))
  BY <1>1 DEF ReconciledPath, Normalized, NormalizedWith, PathType
<1> HIDE DEF q
<1>4. q \in PathType /\ Id(Endpoint(q)) = Id(target)
  BY <1>1, <1>2, PathFadesParts DEF PathFades
<1>5. c.path \in PathType
  BY DEF Witnessed
<1>6. ASSUME NEW x \in CoveredIds(q) PROVE x \in CoveredIds(c.path) \/ x = Id(target)
  <2>1. CASE x = Id(Endpoint(q))
    BY <1>4, <2>1
  <2>2. CASE \E v \in Occurrences(q) : v.active /\ Id(v) = x
    <3>1. PICK v \in Occurrences(q) : v.active /\ Id(v) = x
      BY <2>2
    <3>2. PICK u \in Occurrences(o) : Id(u) = x /\ u.active
      BY <1>1, <1>2, <3>1, PathFadesParts
    <3>3. PICK t \in Occurrences(c.path) \cup {target} : Id(t) = x /\ t.active
      BY <1>1, <3>2
    <3> QED BY <1>5, <3>3, CoverParts
  <2> QED BY <1>2, <1>4, <1>6, <2>1, <2>2, CoverParts
<1>7. EndpointLive(Endpoint(o), after) <=> EndpointLive(target, after)
  <2>1. Endpoint(o).node = target.node /\ Endpoint(o).gen = target.gen
    BY <1>1 DEF Id
  <2> QED BY <2>1, SameLife
<1> QED BY <1>1, <1>3, <1>4, <1>6, <1>7 DEF o, q

-----------------------------------------------------------------------------
(* What a covered node selects. *)

\* A set of numbers that is not empty has a least one.
LEMMA LeastOf ==
    ASSUME NEW T \in SUBSET Nat, T # {} PROVE \E n \in T : \A k \in T : n <= k
<1>1. PICK n \in T : \A k \in T : ~(<<k, n>> \in OpToRel(<, Nat))
  BY WFMin, NatLessThanWellFounded
<1>2. ASSUME NEW k \in T PROVE n <= k
  <2>1. k \in Nat /\ n \in Nat
    OBVIOUS
  <2>2. <<k, n>> \in OpToRel(<, Nat) <=> k < n
    BY <2>1 DEF OpToRel
  <2>3. ~(<<k, n>> \in OpToRel(<, Nat))
    BY <1>1, Zenon
  <2>4. ~(k < n)
    BY <2>2, <2>3, Zenon
  <2> QED BY <2>1, <2>4
<1> QED BY <1>2

LEMMA GreatestOf ==
    ASSUME NEW M \in Nat, NEW T \in SUBSET (0 .. M), T # {}
    PROVE  \E n \in T : \A k \in T : k <= n
<1> DEFINE U == {M - k : k \in T}
<1>1. U \in SUBSET Nat /\ U # {}
  <2>1. ASSUME NEW k \in T PROVE M - k \in Nat
    <3>1. k \in 0 .. M
      OBVIOUS
    <3> QED BY <3>1
  <2> QED BY <2>1
<1>2. PICK u \in U : \A k \in U : u <= k
  BY <1>1, LeastOf
<1>3. PICK n \in T : u = M - n
  BY <1>2
<1>4. ASSUME NEW k \in T PROVE k <= n
  <2>1. M - n <= M - k
    BY <1>2, <1>3
  <2>2. k \in Int /\ n \in Int
    OBVIOUS
  <2> QED BY <2>1, <2>2
<1> QED BY <1>4

LEMMA LatestOf ==
    ASSUME NEW S, S # {}, NEW M \in Nat, NEW f, NEW g,
           \A c \in S : f[c] \in 0 .. M /\ g[c] \in 0 .. M
    PROVE  \E c \in S : \A d \in S : ~LaterTuple(<<f[d], g[d]>>, <<f[c], g[c]>>)
<1> DEFINE T == {f[c] : c \in S}
<1>1. T \in SUBSET (0 .. M) /\ T # {}
  OBVIOUS
<1>2. PICK m \in T : \A k \in T : k <= m
  BY <1>1, GreatestOf
<1> DEFINE R == {c \in S : f[c] = m}
           U == {g[c] : c \in R}
<1>3. U \in SUBSET (0 .. M) /\ U # {}
  BY <1>2
<1>4. PICK u \in U : \A k \in U : k <= u
  BY <1>3, GreatestOf
<1>5. PICK c \in R : g[c] = u
  BY <1>4
<1>6. ASSUME NEW d \in S PROVE ~LaterTuple(<<f[d], g[d]>>, <<f[c], g[c]>>)
  <2>1. f[d] <= m /\ f[c] = m /\ f[d] \in Int /\ m \in Int
    BY <1>1, <1>2, <1>5
  <2>2. f[d] = m => g[d] <= u
    BY <1>4
  <2>3. g[d] \in Int /\ u \in Int
    BY <1>3, <1>4
  <2> QED BY <1>5, <2>1, <2>2, <2>3 DEF LaterTuple
<1> QED BY <1>5, <1>6

LEMMA EligibleParts ==
    ASSUME NEW ps \in SUBSET PathType, NEW target, NEW ph,
           NEW c \in EligibleSources(ps, target, ph)
    PROVE  /\ c.path \in ps /\ Witnessed(c)
           /\ \/ c.prefix = c.path.route /\ EndpointUsable(c.path, target, ph)
              \/ \E i \in 1 .. Len(c.path.route) - 1 :
                    c.prefix = SubSeq(c.path.route, 1, i) /\ c.path.route[i].active
              \/ c.prefix \in c.path.branches
<1>1. PICK p \in ps :
          \/ c = [path |-> p, prefix |-> p.route] /\ EndpointUsable(p, target, ph)
          \/ \E i \in 1 .. Len(p.route) - 1 :
                 c = [path |-> p, prefix |-> SubSeq(p.route, 1, i)] /\ p.route[i].active
          \/ \E w \in p.branches : c = [path |-> p, prefix |-> w]
  BY DEF EligibleSources
<1>2. p \in PathType /\ p.route \in Trails /\ p.branches \subseteq Trails
  BY PathParts
<1>3. CASE c = [path |-> p, prefix |-> p.route] /\ EndpointUsable(p, target, ph)
  BY <1>2, <1>3, OccurrencesOf DEF Witnessed
<1>4. CASE \E i \in 1 .. Len(p.route) - 1 :
               c = [path |-> p, prefix |-> SubSeq(p.route, 1, i)] /\ p.route[i].active
  <2>1. PICK i \in 1 .. Len(p.route) - 1 :
            c = [path |-> p, prefix |-> SubSeq(p.route, 1, i)] /\ p.route[i].active
    BY <1>4
  <2>2. i \in 1 .. Len(p.route)
    BY <1>2, TrailParts
  <2>3. c.path = p /\ c.prefix = SubSeq(p.route, 1, i)
    BY <2>1
  <2>4. Witnessed(c)
    BY <1>2, <2>2, <2>3, PrefixTrail, OccurrencesOf DEF Witnessed
  <2> QED BY <2>1, <2>3, <2>4
<1>5. CASE \E w \in p.branches : c = [path |-> p, prefix |-> w]
  BY <1>2, <1>5, OccurrencesOf DEF Witnessed
<1> QED BY <1>1, <1>3, <1>4, <1>5

LEMMA RankBound ==
    ASSUME NEW ps \in SUBSET PathType, NEW target, NEW ph, \A p \in ps : Shape(p, ph),
           NEW c \in EligibleSources(ps, target, ph)
    PROVE  Rank(c) \in 0 .. 2 * Limit
<1> DEFINE p == c.path
           tip == Id(Last(c.prefix))
           hits == {i \in DOMAIN p.visits : Id(p.visits[i]) = tip}
           steps == {i \in DOMAIN p.route : Id(p.route[i]) = tip}
<1>1. /\ p \in PathType /\ p.visits \in Trails /\ p.route \in Trails
      /\ p.branches \subseteq Trails /\ Shape(p, ph)
  BY EligibleParts, PathParts
<1>2. /\ DOMAIN p.visits = 1 .. Len(p.visits) /\ Len(p.visits) <= Limit
      /\ DOMAIN p.route = 1 .. Len(p.route) /\ Len(p.route) <= Limit
      /\ Len(p.visits) \in Nat /\ Len(p.route) \in Nat /\ Len(p.route) \in 1 .. Len(p.route)
      /\ Last(p.route) = p.route[Len(p.route)]
      /\ Ids(p.visits) = {Id(p.visits[i]) : i \in 1 .. Len(p.visits)}
  BY <1>1, TrailParts, IdsOf
<1>3. Rank(c) = IF hits # {} THEN Limit + (CHOOSE i \in hits : TRUE)
                ELSE CHOOSE i \in DOMAIN p.route : Id(p.route[i]) = tip
  BY DEF Rank
<1>4. hits # {} \/ steps # {}
  <2>1. CASE c.prefix = p.route
    BY <1>2, <2>1
  <2>2. CASE \E i \in 1 .. Len(p.route) - 1 : c.prefix = SubSeq(p.route, 1, i)
    <3>1. PICK i \in 1 .. Len(p.route) - 1 : c.prefix = SubSeq(p.route, 1, i)
      BY <2>2
    <3>2. i \in 1 .. Len(p.route)
      BY <1>2
    <3>3. Last(c.prefix) = p.route[i]
      BY <1>1, <3>1, <3>2, PrefixTrail
    <3> QED BY <1>2, <3>2, <3>3
  <2>3. CASE c.prefix \in p.branches
    <3>1. tip \in Ids(p.visits)
      BY <1>1, <2>3 DEF Shape
    <3> QED BY <1>2, <3>1
  <2> QED BY <2>1, <2>2, <2>3, EligibleParts
<1>5. CASE hits # {}
  <2>1. (CHOOSE i \in hits : TRUE) \in hits
    BY <1>5
  <2>2. (CHOOSE i \in hits : TRUE) \in 1 .. Limit
    BY <1>2, <2>1, Bounds
  <2> HIDE DEF hits
  <2> QED BY <1>3, <1>5, <2>2, Bounds
<1>6. CASE hits = {}
  <2>1. (CHOOSE i \in DOMAIN p.route : Id(p.route[i]) = tip) \in DOMAIN p.route
    BY <1>4, <1>6
  <2>2. (CHOOSE i \in DOMAIN p.route : Id(p.route[i]) = tip) \in 1 .. Limit
    BY <1>2, <2>1, Bounds
  <2> HIDE DEF hits
  <2> QED BY <1>3, <1>6, <2>2, Bounds
<1> QED BY <1>5, <1>6

\* A source that may be continued and is near the target selects something.
LEMMA SomeContinuation ==
    ASSUME NEW ps \in SUBSET PathType, NEW target, NEW ph, \A p \in ps : Shape(p, ph),
           NEW e \in EligibleSources(ps, target, ph), Reaches(e, target)
    PROVE  Continuations(ps, target, ph) # {}
<1> DEFINE near == {c \in EligibleSources(ps, target, ph) : Reaches(c, target)}
           ends == {c \in near : IsEndpoint(c)}
           late == Maximal(near, BranchKey)
           A == Arriving(ends, target)
<1>1. Continuations(ps, target, ph) =
          IF ends # {} THEN Maximal(A, EndpointKey)
          ELSE {c \in late : \A d \in late : d.path = c.path => Rank(d) <= Rank(c)}
  BY DEF Continuations
<1>2. near # {} /\ \A c \in near : c \in EligibleSources(ps, target, ph)
  OBVIOUS
<1>3. \A c \in near : UpdatedAt(c.path) \in 0 .. MaxTime /\ Last(c.prefix).at \in 0 .. MaxTime
  <2>1. ASSUME NEW c \in near
        PROVE  UpdatedAt(c.path) \in 0 .. MaxTime /\ Last(c.prefix).at \in 0 .. MaxTime
    <3>1. c.path \in PathType /\ c.prefix \in Trails
      BY <1>2, EligibleParts DEF Witnessed
    <3>2. c.path.visits \in Trails
      BY <3>1, PathParts
    <3> QED BY <3>1, <3>2, TrailParts, VisitParts DEF UpdatedAt
  <2> QED BY <2>1
<1>4. \A c \in near : Rank(c) \in 0 .. 2 * Limit
  BY <1>2, RankBound
<1>5. A \subseteq ends /\ (ends # {} => A # {})
  BY DEF Arriving
<1>6. ends \subseteq near
  OBVIOUS
<1> HIDE DEF near, ends, A
<1>7. CASE ends # {}
  <2> DEFINE f == [c \in A |-> UpdatedAt(c.path)]
             g == [c \in A |-> 0]
  <2>1. \A c \in A : f[c] = UpdatedAt(c.path) /\ g[c] = 0
    OBVIOUS
  <2>2. \A c \in A : f[c] \in 0 .. MaxTime /\ g[c] \in 0 .. MaxTime
    BY <1>3, <1>5, <1>6, <2>1, Bounds
  <2> HIDE DEF f, g
  <2>3. PICK c \in A : \A d \in A : ~LaterTuple(<<f[d], g[d]>>, <<f[c], g[c]>>)
    BY <1>5, <1>7, <2>2, Bounds, LatestOf
  <2>4. \A d \in A : EndpointKey(d) = <<f[d], g[d]>>
    BY <2>1 DEF EndpointKey
  <2>5. c \in Maximal(A, EndpointKey)
    BY <2>3, <2>4 DEF Maximal
  <2> QED BY <1>1, <1>7, <2>5
<1>8. CASE ends = {}
  <2> DEFINE f == [c \in near |-> Last(c.prefix).at]
             g == [c \in near |-> UpdatedAt(c.path)]
  <2>1. \A c \in near : f[c] = Last(c.prefix).at /\ g[c] = UpdatedAt(c.path)
    OBVIOUS
  <2>2. \A c \in near : f[c] \in 0 .. MaxTime /\ g[c] \in 0 .. MaxTime
    BY <1>3, <2>1
  <2> HIDE DEF f, g
  <2>3. PICK c \in near : \A d \in near : ~LaterTuple(<<f[d], g[d]>>, <<f[c], g[c]>>)
    BY <1>2, <2>2, Bounds, LatestOf
  <2>4. \A d \in near : BranchKey(d) = <<f[d], g[d]>>
    BY <2>1 DEF BranchKey
  <2>5. c \in late /\ late \subseteq near
    BY <2>3, <2>4 DEF Maximal
  <2> DEFINE S == {d \in late : d.path = c.path}
             T == {Rank(d) : d \in S}
  <2> HIDE DEF late
  <2>6. T \in SUBSET (0 .. 2 * Limit) /\ T # {}
    BY <1>4, <2>5
  <2>7. 2 * Limit \in Nat
    BY Bounds
  <2>8. PICK r \in T : \A k \in T : k <= r
    BY <2>6, <2>7, GreatestOf
  <2>9. PICK b \in S : Rank(b) = r
    BY <2>8
  <2>10. \A d \in late : d.path = b.path => Rank(d) <= Rank(b)
    BY <2>8, <2>9
  <2>11. b \in late
    BY <2>9
  <2> QED BY <1>1, <1>8, <2>10, <2>11 DEF late
<1> QED BY <1>7, <1>8

\* What a path covers is continued by an observation one step away.
LEMMA CoveredContinues ==
    ASSUME NEW ps \in SUBSET PathType, NEW target, NEW ph, \A p \in ps : Shape(p, ph),
           NEW p \in ps, NEW v \in Coverage(p), Step(v.node, target.node),
           v = Endpoint(p) => EndpointUsable(p, target, ph)
    PROVE  Continuations(ps, target, ph) # {}
<1>1. p \in PathType /\ p.route \in Trails /\ p.branches \subseteq Trails
  BY PathParts
<1>2. CASE v = Endpoint(p)
  <2> DEFINE c == [path |-> p, prefix |-> p.route]
  <2>1. c \in EligibleSources(ps, target, ph)
    BY <1>2 DEF EligibleSources
  <2>2. Reaches(c, target)
    BY <1>2 DEF Reaches, Endpoint
  <2> QED BY <2>1, <2>2, SomeContinuation
<1>3. CASE v # Endpoint(p) /\ v \in ToSet(p.route)
  <2>1. v.active
    BY <1>3 DEF Coverage
  <2>2. PICK i \in 1 .. Len(p.route) : v = p.route[i]
    BY <1>1, <1>3, TrailParts
  <2>3. i \in 1 .. Len(p.route) - 1 /\ p.route[i].active
    BY <1>1, <1>3, <2>1, <2>2, TrailParts DEF Endpoint
  <2> DEFINE c == [path |-> p, prefix |-> SubSeq(p.route, 1, i)]
  <2>4. c \in EligibleSources(ps, target, ph)
    BY <2>3 DEF EligibleSources
  <2>5. Last(SubSeq(p.route, 1, i)) = v
    BY <1>1, <2>2, PrefixTrail
  <2>6. Reaches(c, target)
    BY <2>5 DEF Reaches
  <2> QED BY <2>4, <2>6, SomeContinuation
<1>4. CASE v \in Tips(p)
  <2>1. PICK w \in p.branches : v = Last(w)
    BY <1>4 DEF Tips
  <2> DEFINE c == [path |-> p, prefix |-> w]
  <2>2. c \in EligibleSources(ps, target, ph)
    BY <2>1 DEF EligibleSources
  <2>3. Reaches(c, target)
    BY <2>1 DEF Reaches
  <2> QED BY <2>2, <2>3, SomeContinuation
<1> QED BY <1>2, <1>3, <1>4 DEF Coverage, Authoritative

\* An observation where a path covers the node is one of its visitor.
LEMMA SameNodeContinues ==
    ASSUME NEW ps \in SUBSET PathType, NEW target, NEW ph, \A p \in ps : Shape(p, ph),
           target.node \in CoveredNodes(ps)
    PROVE  Continuations(ps, target, ph) # {}
<1>1. PICK p \in ps : \E v \in Coverage(p) : v.node = target.node
  BY CoveredNode
<1>2. PICK v \in Coverage(p) : v.node = target.node
  BY <1>1
<1>3. Step(v.node, target.node)
  BY <1>2 DEF Step
<1>4. v = Endpoint(p) => EndpointUsable(p, target, ph)
  BY <1>2 DEF EndpointUsable
<1> QED BY <1>3, <1>4, CoveredContinues

-----------------------------------------------------------------------------
(* What an observation leaves. *)

\* A record of the ledger that a call may only spend.
Wears(src, t) ==
    /\ t \in SourceType /\ t.gen = src.gen /\ t.at = src.at /\ t.origin = src.origin
    /\ src.consumed => t.consumed

LEMMA ConsumedWears ==
    ASSUME NEW src \in SourceType
    PROVE  Wears(src, src) /\ Wears(src, Consumed(src)) /\ Wears(src, [src EXCEPT !.consumed = TRUE])
BY DEF Wears, SourceType, Consumed

LEMMA WearsAgain ==
    ASSUME NEW a, NEW b, NEW c, Wears(a, b), Wears(b, c) PROVE Wears(a, c)
BY DEF Wears

LEMMA ReconciledWears ==
    ASSUME NEW srcs \in [Nodes -> SourceType], NEW ph, NEW n \in Nodes
    PROVE  Wears(srcs[n], ReconciledSources(srcs, ph)[n])
<1>1. ReconciledSources(srcs, ph)[n] = srcs[n] \/ ReconciledSources(srcs, ph)[n] = Consumed(srcs[n])
  BY DEF ReconciledSources
<1> QED BY <1>1, ConsumedWears

LEMMA SpentWears ==
    ASSUME NEW srcs \in [Nodes -> SourceType], NEW v \in VisitType
    PROVE  /\ Spent(srcs, v) \in [Nodes -> SourceType]
           /\ \A m \in Nodes : Wears(srcs[m], Spent(srcs, v)[m])
<1> DEFINE old == srcs[v.node]
           src == IF old.gen = v.gen THEN [old EXCEPT !.consumed = TRUE] ELSE old
<1>1. v.node \in Nodes /\ old \in SourceType
  BY VisitParts
<1>2. Spent(srcs, v) = [srcs EXCEPT ![v.node] = src]
  BY DEF Spent
<1>3. Wears(old, src)
  <2> HIDE DEF old
  <2> QED BY <1>1, ConsumedWears
<1>4. src \in SourceType
  BY <1>3 DEF Wears
<1> HIDE DEF src
<1> QED BY <1>1, <1>2, <1>3, <1>4, ConsumedWears

LEMMA OriginWears ==
    ASSUME NEW srcs \in [Nodes -> SourceType], NEW n \in Nodes
    PROVE  LET new == [srcs EXCEPT ![n].consumed = TRUE]
           IN  /\ new \in [Nodes -> SourceType]
               /\ \A m \in Nodes : Wears(srcs[m], new[m])
<1> DEFINE src == [srcs[n] EXCEPT !.consumed = TRUE]
<1>1. Wears(srcs[n], src)
  BY ConsumedWears
<1>2. src \in SourceType
  BY <1>1 DEF Wears
<1>3. [srcs EXCEPT ![n].consumed = TRUE] = [srcs EXCEPT ![n] = src]
  OBVIOUS
<1> HIDE DEF src
<1> QED BY <1>1, <1>2, <1>3, ConsumedWears

LEMMA RecordedWears ==
    ASSUME NEW srcs \in [Nodes -> SourceType], NEW v \in VisitType, NEW b \in BOOLEAN
    PROVE  LET new == Recorded(srcs, v, b)
           IN  /\ new \in [Nodes -> SourceType]
               /\ \A m \in Nodes : m # v.node => new[m] = srcs[m]
               /\ new[v.node] = [gen |-> v.gen, at |-> v.at, origin |-> OriginOf(v.kind),
                                 consumed |-> (b \/ v.kind # "positive")]
<1> DEFINE src == [gen |-> v.gen, at |-> v.at, origin |-> OriginOf(v.kind),
                   consumed |-> b \/ v.kind # "positive"]
<1>1. v.node \in Nodes /\ v.gen \in Nat /\ v.at \in 0 .. MaxTime
  BY VisitParts
<1>2. OriginOf(v.kind) \in Origins
  <2>1. v.kind = "positive" \/ v.kind = "correlated_positive" \/ v.kind = "interaction"
    BY VisitParts DEF Kinds
  <2> QED BY <2>1 DEF OriginOf, Origins
<1>3. v.at \in Nat
  BY <1>1, Bounds
<1>4. src \in SourceType
  BY <1>1, <1>2, <1>3 DEF SourceType
<1>5. Recorded(srcs, v, b) = [srcs EXCEPT ![v.node] = src]
  BY DEF Recorded
<1>6. src = [gen |-> v.gen, at |-> v.at, origin |-> OriginOf(v.kind),
             consumed |-> (b \/ v.kind # "positive")]
  OBVIOUS
<1> HIDE DEF src
<1> QED BY <1>1, <1>4, <1>5, <1>6

\* Reconciling with the states that the paths are reconciled with.
LEMMA PathsFixed ==
    ASSUME Typed, Shaped PROVE Reconciled(paths, phys) = paths
<1>1. \A p \in paths : ReconciledPath(p, phys) = p
  BY ShapeFixed DEF Typed, Shaped
<1> QED BY <1>1 DEF Reconciled

\* How an observation of n ends.
Ends(ps, srcs) == Settle(ps, srcs, phys')
Emptied(target) == count = 0 /\ Ends(paths, Recorded(sources, target, TRUE))
Went(target, c) ==
    /\ c.path \in paths /\ Witnessed(c)
    /\ Ends((paths \ {c.path}) \cup {AdvancedPath(c, target)},
            Recorded(Spent(sources, Last(c.prefix)), target, TRUE))
OriginVisit(m) == Visit(m, sources[m], "positive")
Paired(target, m, S) ==
    /\ S \in Kept(paths, count - 1)
    /\ Ends(S \cup {NewPath(<<OriginVisit(m), target>>)},
            Recorded([sources EXCEPT ![m].consumed = TRUE], target, TRUE))
Admitted(target, S) ==
    /\ S \in Kept(paths, count - 1)
    /\ Ends(S \cup {NewPath(<<target>>)}, Recorded(sources, target, TRUE))
Awaited(target) == Ends(paths, Recorded(sources, target, FALSE))

Unexplained(target) == Continuations(paths, target, phys) = {} /\ OriginNodes(sources, target) = {}

Outcome(target, adopts) ==
    \/ Emptied(target)
    \/ count # 0 /\ \E c \in Continuations(paths, target, phys) : Went(target, c)
    \/ /\ count # 0 /\ Continuations(paths, target, phys) = {}
       /\ \E m \in OriginNodes(sources, target) :
             OriginVisit(m) \in VisitType /\ \E S : Paired(target, m, S)
    \/ /\ count # 0 /\ Unexplained(target)
       /\ target.kind = "interaction" \/ (target.kind = "positive" /\ adopts)
       /\ \E S : Admitted(target, S)
    \/ /\ count # 0 /\ Unexplained(target)
       /\ ~(target.kind = "interaction" \/ (target.kind = "positive" /\ adopts))
       /\ Awaited(target)

LEMMA ObserveOutcome ==
    ASSUME Typed, Shaped, NEW n \in Nodes, NEW s, NEW adopts, ObserveEffect(n, s, adopts)
    PROVE  /\ Outcome(Visit(n, s, Kind(n, s)), adopts)
           /\ phys' = [phys EXCEPT ![n] = s] /\ UNCHANGED <<now, count>>
<1> DEFINE target == Visit(n, s, Kind(n, s))
<1>1. Reconciled(paths, phys) = paths /\ ReconciledSources(sources, phys) = sources
  BY PathsFixed DEF Shaped
<1>2. phys' = [phys EXCEPT ![n] = s] /\ UNCHANGED <<now, count>>
  BY DEF ObserveEffect
<1>3. IF count = 0 THEN Settle(paths, Recorded(sources, target, TRUE), phys')
      ELSE Select(paths, sources, target, phys, phys', adopts)
  BY <1>1, <1>2 DEF ObserveEffect
<1> HIDE DEF target
<1>4. ASSUME count = 0 PROVE Outcome(target, adopts)
  BY <1>3, <1>4 DEF Outcome, Emptied, Ends
<1>5. ASSUME count # 0 PROVE Outcome(target, adopts)
  <2>1. Select(paths, sources, target, phys, phys', adopts)
    BY <1>3, <1>5
  <2>2. paths \in SUBSET PathType
    BY DEF Typed
  <2>3. CASE \E c \in Continuations(paths, target, phys) :
                Continue(paths, sources, target, phys', c)
    <3>1. PICK c \in Continuations(paths, target, phys) :
              Continue(paths, sources, target, phys', c)
      BY <2>3
    <3>2. c.path \in paths /\ Witnessed(c)
      BY <2>2, <3>1, ContinuationParts DEF Witnessed
    <3>3. Went(target, c)
      BY <3>1, <3>2 DEF Went, Continue, Ends
    <3> QED BY <1>5, <3>3 DEF Outcome
  <2>4. CASE /\ Continuations(paths, target, phys) = {}
             /\ \E m \in OriginNodes(sources, target) :
                    PairUp(paths, sources, target, phys', m)
    <3>1. PICK m \in OriginNodes(sources, target) :
              PairUp(paths, sources, target, phys', m)
      BY <2>4
    <3>2. m \in Nodes /\ Pending(sources[m])
      BY <3>1 DEF OriginNodes
    <3>3. OriginVisit(m) \in VisitType
      BY <1>1, <3>2, OriginNew DEF OriginVisit
    <3>4. \E S : Paired(target, m, S)
      BY <3>1 DEF PairUp, Installed, Paired, Ends, OriginVisit
    <3> QED BY <1>5, <2>4, <3>1, <3>3, <3>4 DEF Outcome
  <2>5. CASE /\ Unexplained(target)
             /\ target.kind = "interaction" \/ (target.kind = "positive" /\ adopts)
             /\ Admit(paths, sources, target, phys')
    <3>1. \E S : Admitted(target, S)
      BY <2>5 DEF Admit, Installed, Admitted, Ends
    <3> QED BY <1>5, <2>5, <3>1 DEF Outcome
  <2>6. CASE /\ Unexplained(target)
             /\ ~(target.kind = "interaction" \/ (target.kind = "positive" /\ adopts))
             /\ Await(paths, sources, target, phys')
    BY <1>5, <2>6 DEF Outcome, Await, Awaited, Ends
  <2> QED BY <2>1, <2>3, <2>4, <2>5, <2>6 DEF Select, Unexplained
<1> QED BY <1>2, <1>4, <1>5 DEF target

LEMMA NewPathParts ==
    ASSUME NEW r \in Trails
    PROVE  LET q == NewPath(r)
           IN  /\ q \in PathType /\ q.visits = r /\ q.route = r /\ q.branches = {}
               /\ q.eligible /\ ~q.confirmed /\ q.spatialAt = Last(r).at
               /\ Occurrences(q) = ToSet(r) /\ Endpoint(q) = Last(r)
<1> DEFINE q == NewPath(r)
<1>1. Last(r) \in VisitType /\ Last(r) \in ToSet(r)
  BY TrailParts
<1>2. /\ q \in PathType /\ q.visits = r /\ q.route = r /\ q.branches = {}
      /\ q.eligible /\ ~q.confirmed /\ q.spatialAt = Last(r).at
  BY <1>1, VisitParts DEF NewPath, PathType
<1> HIDE DEF q
<1>3. Occurrences(q) = ToSet(r)
  <2>1. \A v \in Occurrences(q) : v \in ToSet(r)
    BY <1>2, OccurrencesOf
  <2>2. \A v \in ToSet(r) : v \in Occurrences(q)
    BY <1>2, OccurrencesOf
  <2> QED BY <2>1, <2>2
<1>4. Endpoint(q) = Last(r)
  BY <1>2 DEF Endpoint
<1> QED BY <1>2, <1>3, <1>4 DEF q

\* A new path after the reconciliation that ends the call.
LEMMA CoverNew ==
    ASSUME NEW r \in Trails, NEW after
    PROVE  LET q == ReconciledPath(NewPath(r), after)
           IN  /\ PathFades(NewPath(r), q) /\ Shape(q, after) /\ Fades(r, q.route)
               /\ Fades(r, q.visits)
               /\ \A x \in CoveredIds(q) : \E v \in ToSet(r) : x = Id(v)
               /\ Id(Endpoint(q)) = Id(Last(r)) /\ q.eligible = EndpointLive(Last(r), after)
<1> DEFINE o == NewPath(r)
           q == ReconciledPath(o, after)
<1>1. /\ o \in PathType /\ o.eligible /\ o.route = r /\ o.visits = r
      /\ Occurrences(o) = ToSet(r) /\ Endpoint(o) = Last(r)
  BY NewPathParts
<1>2. PathFades(o, q) /\ Shape(q, after)
  BY <1>1, ReconciledFades, ReconciledShape
<1>3. q.eligible = (o.eligible /\ EndpointLive(Endpoint(o), after))
  BY <1>1 DEF ReconciledPath, Normalized, NormalizedWith, PathType
<1> HIDE DEF o, q
<1>4. q \in PathType /\ Id(Endpoint(q)) = Id(Last(r)) /\ Fades(r, q.route) /\ Fades(r, q.visits)
  BY <1>1, <1>2, PathFadesParts DEF PathFades
<1>5. ASSUME NEW x \in CoveredIds(q) PROVE \E v \in ToSet(r) : x = Id(v)
  <2>1. PICK v \in Coverage(q) : x = Id(v)
    BY DEF CoveredIds
  <2>2. v \in Occurrences(q)
    BY <1>2, <1>4, <2>1, CoverParts
  <2> QED BY <1>1, <1>2, <2>1, <2>2, PathFadesParts
<1>6. q.eligible = EndpointLive(Last(r), after)
  <2>1. EndpointLive(Last(r), after) \in BOOLEAN
    BY DEF EndpointLive, SameGeneration
  <2> QED BY <1>1, <1>3, <2>1
<1> QED BY <1>2, <1>4, <1>5, <1>6 DEF o, q

LEMMA EndsShaped ==
    ASSUME NEW P \in SUBSET PathType, NEW srcs, Ends(P, srcs)
    PROVE  /\ Shaped' /\ \A q \in paths' : \E p \in P : q = ReconciledPath(p, phys')
           /\ \A p \in P : ReconciledPath(p, phys') \in paths'
<1>1. paths' = Reconciled(P, phys') /\ sources' = ReconciledSources(srcs, phys')
  BY DEF Ends, Settle
<1>2. ReconciledSources(sources', phys') = sources'
  BY <1>1, SourcesFixed
<1>3. \A q \in paths' : \E p \in P : q = ReconciledPath(p, phys')
  BY <1>1 DEF Reconciled
<1>4. \A q \in paths' : Shape(q, phys')
  BY <1>3, ReconciledShape
<1>5. \A p \in P : ReconciledPath(p, phys') \in paths'
  BY <1>1 DEF Reconciled
<1> QED BY <1>2, <1>3, <1>4, <1>5 DEF Shaped

LEMMA EndsLedger ==
    ASSUME NEW old \in [Nodes -> SourceType], NEW target \in VisitType, NEW b \in BOOLEAN,
           \A m \in Nodes : Wears(sources[m], old[m]), NEW P, Ends(P, Recorded(old, target, b))
    PROVE  /\ \A m \in Nodes : m # target.node => Wears(sources[m], sources'[m])
           /\ \A m \in Nodes : m # target.node => Wears(old[m], sources'[m])
           /\ Wears([gen |-> target.gen, at |-> target.at, origin |-> OriginOf(target.kind),
                     consumed |-> (b \/ target.kind # "positive")], sources'[target.node])
<1> DEFINE new == Recorded(old, target, b)
<1>1. /\ new \in [Nodes -> SourceType] /\ \A m \in Nodes : m # target.node => new[m] = old[m]
      /\ new[target.node] = [gen |-> target.gen, at |-> target.at,
                             origin |-> OriginOf(target.kind),
                             consumed |-> (b \/ target.kind # "positive")]
  BY RecordedWears
<1>2. sources' = ReconciledSources(new, phys')
  BY DEF Ends, Settle
<1> HIDE DEF new
<1>3. \A m \in Nodes : Wears(new[m], sources'[m])
  BY <1>1, <1>2, ReconciledWears
<1>4. \A m \in Nodes : m # target.node => Wears(sources[m], sources'[m])
  BY <1>1, <1>3, WearsAgain
<1>5. target.node \in Nodes
  BY VisitParts
<1>6. Wears(new[target.node], sources'[target.node])
  BY <1>3, <1>5
<1> QED BY <1>1, <1>3, <1>4, <1>6

LEMMA CoveredIn ==
    ASSUME NEW P, NEW p \in P, NEW v, Id(v) \in CoveredIds(p) PROVE v.node \in CoveredNodes(P)
<1>1. PICK u \in Coverage(p) : Id(u) = Id(v)
  BY DEF CoveredIds
<1>2. u.node = v.node
  BY <1>1 DEF Id
<1> QED BY <1>1, <1>2, CoveredNode

\* The states of the paths that an outcome reconciles.
Frame(target) ==
    /\ Shaped'
    /\ \A m \in Nodes : m # target.node => Wears(sources[m], sources'[m])
    /\ sources'[target.node].gen = target.gen
    /\ \A q \in paths' :
          \/ \E p \in paths : q = ReconciledPath(p, phys')
          \/ Id(Endpoint(q)) = Id(target) /\ q.eligible = EndpointLive(target, phys')

Reaching(target) ==
    \A x \in CoveredNodes(paths') :
        \/ x \in CoveredNodes(paths) \/ x = target.node
        \/ OriginNodes(sources, target) # {} /\ x \in SpentNodes(target)

LEMMA FadedCover ==
    ASSUME Typed, Shaped, NEW p \in paths, NEW v \in Coverage(ReconciledPath(p, phys'))
    PROVE  v.node \in CoveredNodes(paths)
<1>1. Id(v) \in CoveredIds(ReconciledPath(p, phys'))
  BY DEF CoveredIds
<1>2. Id(v) \in CoveredIds(p)
  BY <1>1, CoverFades DEF Typed, Shaped
<1> QED BY <1>2, CoveredIn

LEMMA EmptiedFrame ==
    ASSUME Typed, Shaped, NEW target \in VisitType, NEW b \in BOOLEAN,
           Ends(paths, Recorded(sources, target, b))
    PROVE  Frame(target) /\ Reaching(target)
<1>1. paths \in SUBSET PathType /\ sources \in [Nodes -> SourceType]
  BY DEF Typed, SourcesOK
<1>2. Shaped' /\ \A q \in paths' : \E p \in paths : q = ReconciledPath(p, phys')
  BY <1>1, EndsShaped
<1>3. /\ \A m \in Nodes : m # target.node => Wears(sources[m], sources'[m])
      /\ sources'[target.node].gen = target.gen
  <2>1. \A m \in Nodes : Wears(sources[m], sources[m])
    BY <1>1, ConsumedWears
  <2> DEFINE src == [gen |-> target.gen, at |-> target.at, origin |-> OriginOf(target.kind),
                     consumed |-> (b \/ target.kind # "positive")]
  <2>2. \A m \in Nodes : m # target.node => Wears(sources[m], sources'[m])
    BY <1>1, <2>1, EndsLedger
  <2>3. Wears(src, sources'[target.node])
    BY <1>1, <2>1, EndsLedger
  <2>4. src.gen = target.gen
    OBVIOUS
  <2> HIDE DEF src
  <2> QED BY <2>2, <2>3, <2>4 DEF Wears
<1>4. Reaching(target)
  <2>1. ASSUME NEW x \in CoveredNodes(paths') PROVE x \in CoveredNodes(paths)
    <3>1. PICK q \in paths' : \E v \in Coverage(q) : v.node = x
      BY CoveredNode
    <3> QED BY <1>2, <3>1, FadedCover
  <2> QED BY <2>1 DEF Reaching
<1> QED BY <1>2, <1>3, <1>4 DEF Frame

LEMMA WentFrame ==
    ASSUME Typed, Shaped, NEW target \in VisitType, NEW c, Went(target, c)
    PROVE  Frame(target) /\ Reaching(target)
<1> DEFINE new == AdvancedPath(c, target)
           P == (paths \ {c.path}) \cup {new}
           old == Spent(sources, Last(c.prefix))
<1>1. paths \in SUBSET PathType /\ sources \in [Nodes -> SourceType]
  BY DEF Typed, SourcesOK
<1>2. c.path \in paths /\ Witnessed(c) /\ Ends(P, Recorded(old, target, TRUE))
  BY DEF Went
<1>3. new \in PathType
  BY <1>2, AdvancedParts
<1>4. Shaped' /\ \A q \in paths' : \E p \in P : q = ReconciledPath(p, phys')
  BY <1>1, <1>2, <1>3, EndsShaped
<1>5. old \in [Nodes -> SourceType] /\ \A m \in Nodes : Wears(sources[m], old[m])
  <2>1. Last(c.prefix) \in VisitType
    BY <1>2, TrailParts DEF Witnessed
  <2> QED BY <1>1, <2>1, SpentWears
<1>6. Shape(c.path, phys)
  BY <1>2 DEF Shaped
<1> DEFINE r == ReconciledPath(new, phys')
<1>7. /\ CoveredIds(r) \subseteq CoveredIds(c.path) \cup {Id(target)}
      /\ Id(Endpoint(r)) = Id(target) /\ r.eligible = EndpointLive(target, phys')
  <2>1. r \in PathType
    BY <1>3, ReconciledFades DEF PathFades
  <2>2. r.eligible \in BOOLEAN /\ EndpointLive(target, phys') \in BOOLEAN
    BY <2>1, PathParts DEF EndpointLive, SameGeneration
  <2> QED BY <1>2, <1>6, <2>2, CoverAdvanced
<1> HIDE DEF old, new
<1>8. /\ \A m \in Nodes : m # target.node => Wears(sources[m], sources'[m])
      /\ sources'[target.node].gen = target.gen
  <2> DEFINE src == [gen |-> target.gen, at |-> target.at, origin |-> OriginOf(target.kind),
                     consumed |-> (TRUE \/ target.kind # "positive")]
  <2>1. \A m \in Nodes : m # target.node => Wears(sources[m], sources'[m])
    BY <1>2, <1>5, EndsLedger
  <2>2. Wears(src, sources'[target.node])
    BY <1>2, <1>5, EndsLedger
  <2>3. src.gen = target.gen
    OBVIOUS
  <2> HIDE DEF src
  <2> QED BY <2>1, <2>2, <2>3 DEF Wears
<1>9. Reaching(target)
  <2>1. ASSUME NEW x \in CoveredNodes(paths'), x # target.node PROVE x \in CoveredNodes(paths)
    <3>1. PICK q \in paths' : \E v \in Coverage(q) : v.node = x
      BY <2>1, CoveredNode
    <3>2. PICK v \in Coverage(q) : v.node = x
      BY <3>1
    <3>3. PICK p \in P : q = ReconciledPath(p, phys')
      BY <1>4, <3>1
    <3>4. CASE p \in paths
      BY <3>2, <3>3, <3>4, FadedCover
    <3>5. CASE p = new
      <4>1. Id(v) \in CoveredIds(r)
        BY <3>2, <3>3, <3>5 DEF CoveredIds
      <4>2. Id(v) \in CoveredIds(c.path)
        BY <1>7, <2>1, <3>2, <4>1 DEF Id
      <4> QED BY <1>2, <3>2, <4>2, CoveredIn
    <3> QED BY <3>3, <3>4, <3>5
  <2> QED BY <2>1 DEF Reaching
<1> QED BY <1>4, <1>7, <1>8, <1>9 DEF Frame

\* What installing a new path leaves.
LEMMA InstalledFrame ==
    ASSUME Typed, Shaped, NEW target \in VisitType, NEW r \in Trails, Last(r) = target,
           NEW S \in SUBSET paths, NEW old \in [Nodes -> SourceType],
           \A m \in Nodes : Wears(sources[m], old[m]),
           Ends(S \cup {NewPath(r)}, Recorded(old, target, TRUE))
    PROVE  /\ Frame(target)
           /\ ReconciledPath(NewPath(r), phys') \in paths'
           /\ sources'[target.node].consumed
           /\ \A q \in paths' : \/ q = ReconciledPath(NewPath(r), phys')
                                \/ \E p \in S : q = ReconciledPath(p, phys')
           /\ \A x \in CoveredNodes(paths') :
                 x \in CoveredNodes(paths) \/ \E v \in ToSet(r) : v.node = x
<1> DEFINE P == S \cup {NewPath(r)}
           new == ReconciledPath(NewPath(r), phys')
<1>1. paths \in SUBSET PathType
  BY DEF Typed
<1>2. P \in SUBSET PathType
  BY <1>1, NewPathParts
<1>3. /\ Shaped' /\ \A q \in paths' : \E p \in P : q = ReconciledPath(p, phys')
      /\ new \in paths'
  BY <1>2, EndsShaped
<1>4. /\ Id(Endpoint(new)) = Id(target) /\ new.eligible = EndpointLive(target, phys')
      /\ \A x \in CoveredIds(new) : \E v \in ToSet(r) : x = Id(v)
  BY CoverNew
<1>5. \A q \in paths' : q = new \/ \E p \in S : q = ReconciledPath(p, phys')
  BY <1>3
<1> HIDE DEF new
<1>6. /\ \A m \in Nodes : m # target.node => Wears(sources[m], sources'[m])
      /\ sources'[target.node].gen = target.gen /\ sources'[target.node].consumed
  <2> DEFINE src == [gen |-> target.gen, at |-> target.at, origin |-> OriginOf(target.kind),
                     consumed |-> (TRUE \/ target.kind # "positive")]
  <2>1. \A m \in Nodes : m # target.node => Wears(sources[m], sources'[m])
    BY EndsLedger
  <2>2. Wears(src, sources'[target.node])
    BY EndsLedger
  <2>3. src.gen = target.gen /\ src.consumed
    OBVIOUS
  <2> HIDE DEF src
  <2> QED BY <2>1, <2>2, <2>3 DEF Wears
<1>7. Frame(target)
  BY <1>3, <1>4, <1>5, <1>6 DEF Frame
<1>8. ASSUME NEW x \in CoveredNodes(paths')
      PROVE  x \in CoveredNodes(paths) \/ \E v \in ToSet(r) : v.node = x
  <2>1. PICK q \in paths' : \E v \in Coverage(q) : v.node = x
    BY CoveredNode
  <2>2. PICK v \in Coverage(q) : v.node = x
    BY <2>1
  <2>3. CASE q = new
    <3>1. Id(v) \in CoveredIds(new)
      BY <2>2, <2>3 DEF CoveredIds
    <3>2. PICK u \in ToSet(r) : Id(v) = Id(u)
      BY <1>4, <3>1
    <3> QED BY <2>2, <3>2 DEF Id
  <2>4. CASE \E p \in S : q = ReconciledPath(p, phys')
    BY <2>2, <2>4, FadedCover
  <2> QED BY <1>5, <2>3, <2>4
<1> QED BY <1>3, <1>5, <1>6, <1>7, <1>8 DEF new

LEMMA AdmittedFrame ==
    ASSUME Typed, Shaped, NEW target \in VisitType, NEW S, Admitted(target, S)
    PROVE  /\ Frame(target) /\ Reaching(target)
           /\ ReconciledPath(NewPath(<<target>>), phys') \in paths'
           /\ sources'[target.node].consumed
           /\ \A q \in paths' : \/ q = ReconciledPath(NewPath(<<target>>), phys')
                                \/ \E p \in paths : q = ReconciledPath(p, phys')
<1>1. /\ S \in SUBSET paths /\ sources \in [Nodes -> SourceType]
      /\ Ends(S \cup {NewPath(<<target>>)}, Recorded(sources, target, TRUE))
  BY DEF Typed, SourcesOK, Admitted, Kept
<1>2. <<target>> \in Trails /\ ToSet(<<target>>) = {target} /\ Last(<<target>>) = target
  BY NewTrails
<1>3. \A m \in Nodes : Wears(sources[m], sources[m])
  BY <1>1, ConsumedWears
<1> DEFINE r == <<target>>
<1>4. r \in Trails /\ ToSet(r) = {target} /\ Last(r) = target
      /\ Ends(S \cup {NewPath(r)}, Recorded(sources, target, TRUE))
  BY <1>1, <1>2
<1>5. r = <<target>>
  OBVIOUS
<1> HIDE DEF r
<1>6. /\ Frame(target) /\ ReconciledPath(NewPath(r), phys') \in paths'
      /\ sources'[target.node].consumed
      /\ \A q \in paths' : \/ q = ReconciledPath(NewPath(r), phys')
                           \/ \E p \in S : q = ReconciledPath(p, phys')
      /\ \A x \in CoveredNodes(paths') :
            x \in CoveredNodes(paths) \/ \E v \in ToSet(r) : v.node = x
  BY <1>1, <1>3, <1>4, InstalledFrame
<1>7. Reaching(target)
  BY <1>4, <1>6 DEF Reaching
<1> QED BY <1>1, <1>5, <1>6, <1>7

\* A pending origin is the current generation of its sensor.
LEMMA PendingLive ==
    ASSUME Typed, Shaped, NEW n \in Nodes, Pending(sources[n])
    PROVE  sources[n].gen = phys[n].gen /\ KnownOn(phys[n])
<1>1. sources[n] \in SourceType
  BY DEF Typed, SourcesOK
<1>2. sources[n] = IF SourceLive(n, sources[n], phys) THEN sources[n] ELSE Consumed(sources[n])
  BY DEF Shaped, ReconciledSources
<1>3. ~Pending(Consumed(sources[n]))
  BY <1>1 DEF Consumed, Pending, SourceType
<1>4. SourceLive(n, sources[n], phys)
  BY <1>2, <1>3
<1> QED BY <1>4 DEF SourceLive

LEMMA PairedFrame ==
    ASSUME Typed, Shaped, NEW target \in VisitType, NEW m \in OriginNodes(sources, target),
           OriginVisit(m) \in VisitType, NEW S, Paired(target, m, S),
           phys'[m] = phys[m]
    PROVE  Frame(target) /\ Reaching(target)
<1> DEFINE old == [sources EXCEPT ![m].consumed = TRUE]
           u == OriginVisit(m)
           r == <<u, target>>
<1>1. /\ S \in SUBSET paths /\ sources \in [Nodes -> SourceType]
      /\ Ends(S \cup {NewPath(r)}, Recorded(old, target, TRUE))
  BY DEF Typed, SourcesOK, Paired, Kept
<1>2. m \in Nodes /\ Pending(sources[m])
  BY DEF OriginNodes
<1>3. old \in [Nodes -> SourceType] /\ \A k \in Nodes : Wears(sources[k], old[k])
  BY <1>1, <1>2, OriginWears
<1>4. r \in Trails /\ ToSet(r) = {u, target} /\ Last(r) = target
  BY NewTrails
<1>5. Len(r) = 2 /\ r[1] = u /\ u.node = m /\ u.gen = sources[m].gen
  BY DEF OriginVisit, Visit
<1> HIDE DEF r, old, u
<1> DEFINE new == ReconciledPath(NewPath(r), phys')
<1>6. /\ Frame(target) /\ new \in paths'
      /\ \A x \in CoveredNodes(paths') :
            x \in CoveredNodes(paths) \/ \E v \in ToSet(r) : v.node = x
  BY <1>1, <1>3, <1>4, InstalledFrame
<1>7. Fades(r, new.route) /\ Id(Endpoint(new)) = Id(target)
  BY <1>4, CoverNew
<1> HIDE DEF new
<1>8. m \in SpentNodes(target)
  <2> DEFINE t == new.route
  <2>1. Len(t) = 2 /\ Dims(r[1], t[1])
    BY <1>5, <1>7 DEF Fades
  <2>2. t[1].node = m /\ t[1].gen = sources[m].gen
    BY <1>5, <2>1 DEF Dims
  <2>3. SameGeneration(t[1], phys')
    BY <1>2, <2>2, PendingLive DEF SameGeneration
  <2>4. t \in {p.route : p \in {q \in paths' : Id(Endpoint(q)) = Id(target)}}
    BY <1>6, <1>7
  <2>5. t[Len(t) - 1] = t[1] /\ Len(t) > 1
    BY <2>1
  <2> HIDE DEF t
  <2>6. t[1] \in {x[Len(x) - 1] : x \in {q \in {p.route : p \in {q \in paths' :
                     Id(Endpoint(q)) = Id(target)}} : Len(q) > 1}}
    BY <2>4, <2>5
  <2> QED BY <2>2, <2>3, <2>6 DEF SpentNodes
<1>9. Reaching(target)
  <2>1. OriginNodes(sources, target) # {}
    OBVIOUS
  <2> QED BY <1>4, <1>5, <1>6, <1>8, <2>1 DEF Reaching
<1> QED BY <1>6, <1>9

LEMMA OutcomeFrame ==
    ASSUME Typed, Shaped, NEW target \in VisitType, NEW adopts, Outcome(target, adopts),
           \A m \in Nodes : m # target.node => phys'[m] = phys[m]
    PROVE  Frame(target) /\ Reaching(target)
<1>1. CASE Emptied(target)
  BY <1>1, EmptiedFrame DEF Emptied
<1>2. CASE \E c : Went(target, c)
  BY <1>2, WentFrame
<1>3. CASE \E m \in OriginNodes(sources, target) :
               OriginVisit(m) \in VisitType /\ \E S : Paired(target, m, S)
  <2>1. PICK m \in OriginNodes(sources, target) :
               OriginVisit(m) \in VisitType /\ \E S : Paired(target, m, S)
    BY <1>3
  <2>2. m \in Nodes /\ m # target.node
    BY DEF OriginNodes
  <2> QED BY <2>1, <2>2, PairedFrame
<1>4. CASE \E S : Admitted(target, S)
  BY <1>4, AdmittedFrame
<1>5. CASE Awaited(target)
  BY <1>5, EmptiedFrame DEF Awaited
<1> QED BY <1>1, <1>2, <1>3, <1>4, <1>5 DEF Outcome

-----------------------------------------------------------------------------
(* Tokens and candidates. *)

LEMMA TokenStays ==
    ASSUME Typed, Shaped, Typed', Shaped', NEW k, TokenHeld(k),
           phys'[k.node].gen = phys[k.node].gen,
           phys'[k.node].status \notin {"baseline", "unavailable"},
           Wears(sources[k.node], sources'[k.node]),
           \A q \in paths' : Endpoint(q).node = k.node =>
               \E p \in paths : q = ReconciledPath(p, phys'),
           k.node \notin RetiredNodes(paths', sources')
    PROVE  TokenHeld(k)'
<1>1. /\ k.node \in Nodes \ InteractionNodes /\ k.gen = phys[k.node].gen /\ k.gen > 0
      /\ sources[k.node].gen = k.gen /\ sources[k.node].consumed
      /\ \A p \in paths : Endpoint(p).node = k.node => Endpoint(p).gen = k.gen /\ p.eligible
  BY DEF TokenHeld
<1>2. sources'[k.node].gen = k.gen /\ sources'[k.node].consumed
  BY <1>1 DEF Wears
<1>3. paths \in SUBSET PathType /\ paths' \in SUBSET PathType
  BY DEF Typed
<1>4. ASSUME NEW q \in paths', Endpoint(q).node = k.node
      PROVE  Endpoint(q).gen = k.gen /\ q.eligible
  <2>1. PICK p \in paths : q = ReconciledPath(p, phys')
    BY <1>4
  <2>2. p \in PathType /\ PathFades(p, q)
    BY <1>3, <2>1, ReconciledFades
  <2>3. Id(Endpoint(q)) = Id(Endpoint(p))
    BY <2>2, PathFadesParts
  <2>4. Endpoint(p).node = k.node /\ Endpoint(p).gen = k.gen /\ p.eligible
        /\ Endpoint(q).gen = k.gen
    BY <1>1, <1>4, <2>3 DEF Id
  <2>5. EndpointLive(Endpoint(p), phys')
    BY <1>1, <2>4 DEF EndpointLive, SameGeneration
  <2>6. q.eligible = (p.eligible /\ EndpointLive(Endpoint(p), phys'))
    BY <2>1, <2>2 DEF ReconciledPath, Normalized, NormalizedWith, PathType
  <2> QED BY <2>4, <2>5, <2>6
<1>5. k.node \in CoveredNodes(paths')
  BY <1>1, <1>2 DEF RetiredNodes
<1>6. PICK q \in paths' : \E v \in Coverage(q) : v.node = k.node
  BY <1>5, CoveredNode
<1>7. PICK v \in Coverage(q) : v.node = k.node
  BY <1>6
<1>8. v.gen = k.gen
  <2>1. CASE v = Endpoint(q)
    BY <1>4, <1>7, <2>1
  <2>2. CASE v # Endpoint(q)
    <3>1. v.active /\ v \in Occurrences(q)
      BY <1>3, <1>6, <1>7, <2>2, CoverParts DEF Coverage, Shaped
    <3>2. BranchLive(v, phys')
      BY <1>6, <3>1 DEF Shaped, Shape
    <3> QED BY <1>1, <1>7, <3>2 DEF BranchLive, SameGeneration
  <2> QED BY <2>1, <2>2
<1>9. <<k.node, k.gen>> \in CoveredIds(q)
  BY <1>7, <1>8 DEF CoveredIds, Id
<1> QED BY <1>1, <1>2, <1>4, <1>6, <1>9 DEF TokenHeld

LEMMA CandidateStays ==
    ASSUME NEW c, CandidateHeld(c), Typed', Wears(sources[c.node], sources'[c.node]),
           c.node \notin CoveredNodes(paths'),
           c.node \notin RetiredNodes(paths', sources')
    PROVE  CandidateHeld(c)'
<1>1. /\ c.node \in Nodes \ InteractionNodes /\ Pending(sources[c.node])
      /\ sources[c.node].gen = c.gen
  BY DEF CandidateHeld
<1>2. ~sources'[c.node].consumed
  BY <1>1 DEF RetiredNodes
<1>3. sources'[c.node].origin = "ordinary" /\ sources'[c.node].gen = c.gen
  BY <1>1 DEF Wears, Pending
<1> QED BY <1>1, <1>2, <1>3 DEF CandidateHeld, Pending

\* A token of another node is left alone by an observation.
LEMMA TokenPassed ==
    ASSUME Typed, Shaped, Typed', NEW target \in VisitType, Frame(target),
           \A m \in Nodes : m # target.node => phys'[m] = phys[m],
           NEW k, TokenHeld(k), k.node # target.node,
           k.node \notin RetiredNodes(paths', sources')
    PROVE  TokenHeld(k)'
<1>1. k.node \in Nodes /\ phys[k.node].status \notin {"baseline", "unavailable"}
  BY DEF TokenHeld
<1>2. /\ phys'[k.node] = phys[k.node] /\ Wears(sources[k.node], sources'[k.node]) /\ Shaped'
  BY <1>1 DEF Frame
<1>3. ASSUME NEW q \in paths', Endpoint(q).node = k.node
      PROVE  \E p \in paths : q = ReconciledPath(p, phys')
  <2>1. Id(Endpoint(q)) # Id(target)
    BY <1>3 DEF Id
  <2> QED BY <1>3, <2>1 DEF Frame
<1> QED BY <1>1, <1>2, <1>3, TokenStays

LEMMA CandidatePassed ==
    ASSUME Typed, Shaped, Typed', NEW target \in VisitType, Frame(target), Reaching(target),
           NEW c, CandidateHeld(c), c.node # target.node,
           OriginNodes(sources, target) # {} => c.node \notin SpentNodes(target),
           c.node \notin RetiredNodes(paths', sources')
    PROVE  CandidateHeld(c)'
<1>1. c.node \in Nodes /\ c.node \notin CoveredNodes(paths)
  BY DEF CandidateHeld
<1>2. Wears(sources[c.node], sources'[c.node])
  BY <1>1 DEF Frame
<1>3. c.node \notin CoveredNodes(paths')
  BY <1>1 DEF Reaching
<1> QED BY <1>2, <1>3, CandidateStays

\* A pending origin near the target explains it.
LEMMA SomeOrigin ==
    ASSUME Typed, NEW n \in Nodes, NEW target, n # target.node, Pending(sources[n]),
           Step(n, target.node)
    PROVE  OriginNodes(sources, target) # {}
<1> DEFINE near == {m \in Nodes \ {target.node} : Pending(sources[m]) /\ Step(m, target.node)}
           T == {sources[m].at : m \in near}
<1>1. \A m \in near : sources[m].at \in 0 .. MaxTime
  BY DEF Pending, Typed, SourcesOK
<1>2. T \in SUBSET (0 .. MaxTime)
  BY <1>1
<1>3. T # {}
  OBVIOUS
<1>4. PICK t \in T : \A k \in T : k <= t
  BY <1>2, <1>3, Bounds, GreatestOf
<1>5. PICK m \in near : sources[m].at = t
  BY <1>4
<1>6. \A k \in near : sources[k].at <= sources[m].at
  BY <1>4, <1>5
<1>7. OriginNodes(sources, target) = {k \in near : \A j \in near : sources[j].at <= sources[k].at}
  BY DEF OriginNodes
<1> HIDE DEF near
<1> QED BY <1>5, <1>6, <1>7

\* What the frontier holds never supports a target that the paths do not
\* explain: only the boundary authorizes it.
LEMMA BoundaryOnly ==
    ASSUME Typed, Shaped, Held, NEW target, ~Explained(paths, sources, target, phys),
           NEW ts \in SUBSET tokens, NEW cs \in SUBSET candidates
    PROVE  /\ ~TokenSupports(target, ts) /\ Lent(target, ts, cs) = {}
           /\ Authorizes(target, ts, cs) <=>
                  target.kind = "positive" /\ AtBoundary(target.node)
           /\ target.node \notin CoveredNodes(paths) /\ Unexplained(target)
<1>1. /\ Continuations(paths, target, phys) = {} /\ OriginNodes(sources, target) = {}
      /\ target.kind # "interaction"
  BY DEF Explained
<1>2. paths \in SUBSET PathType /\ \A p \in paths : Shape(p, phys)
  BY DEF Typed, Shaped
<1>3. target.node \notin CoveredNodes(paths)
  BY <1>1, <1>2, SameNodeContinues
<1>4. ASSUME NEW k \in tokens, Beside(k, target) PROVE FALSE
  <2>1. TokenHeld(k)
    BY DEF Held
  <2>2. PICK p \in paths : <<k.node, k.gen>> \in CoveredIds(p)
    BY <2>1 DEF TokenHeld
  <2>3. PICK v \in Coverage(p) : Id(v) = <<k.node, k.gen>>
    BY <2>2 DEF CoveredIds
  <2>4. v.node = k.node /\ Step(v.node, target.node)
    BY <1>4, <2>3 DEF Id, Beside
  <2>5. v = Endpoint(p) => EndpointUsable(p, target, phys)
    BY <2>1, <2>4 DEF TokenHeld, EndpointUsable, Shaped, Shape
  <2> QED BY <1>1, <1>2, <2>4, <2>5, CoveredContinues
<1>5. ASSUME NEW c \in candidates, Beside(c, target) PROVE FALSE
  <2>1. CandidateHeld(c)
    BY DEF Held
  <2>2. c.node \in Nodes /\ Pending(sources[c.node])
    BY <2>1 DEF CandidateHeld
  <2>3. c.node # target.node /\ Step(c.node, target.node)
    BY <1>5 DEF Beside
  <2> QED BY <1>1, <2>2, <2>3, SomeOrigin
<1>6. ~TokenSupports(target, ts)
  BY <1>4 DEF TokenSupports, Live
<1>7. Lent(target, ts, cs) = {}
  BY <1>5 DEF Lent
<1> QED BY <1>1, <1>3, <1>6, <1>7 DEF Authorizes, Unexplained

\* A generation that begins is on, or has just been pressed.
Begins(n, s) ==
    /\ Newer(n, s) /\ s.status \in {"asserted", "clearing"}
    /\ n \notin InteractionNodes => s.status = "asserted"
    /\ n \in InteractionNodes => ~s.correlated

TargetOf(n, s) == Visit(n, s, Kind(n, s))

LEMMA TargetParts ==
    ASSUME Typed, NEW n \in Nodes, NEW s, Begins(n, s)
    PROVE  /\ TargetOf(n, s) \in VisitType /\ TargetOf(n, s).node = n
           /\ TargetOf(n, s).gen = s.gen /\ TargetOf(n, s).gen > 0
           /\ TargetOf(n, s).kind = "positive" => n \notin InteractionNodes
           /\ TargetOf(n, s).kind # "interaction" => n \notin InteractionNodes
           /\ TargetOf(n, s).at = now /\ TargetOf(n, s).active
<1>1. TargetOf(n, s) \in VisitType /\ TargetOf(n, s).node = n /\ TargetOf(n, s).gen = s.gen
  <2>1. Newer(n, s)
    BY DEF Begins
  <2>2. /\ Visit(n, s, Kind(n, s)) \in VisitType /\ Visit(n, s, Kind(n, s)).node = n
        /\ Visit(n, s, Kind(n, s)).gen = s.gen
    BY <2>1, TargetNew
  <2> QED BY <2>2 DEF TargetOf
<1>2. TargetOf(n, s).gen > 0
  BY <1>1, VisitParts
<1>3. TargetOf(n, s).kind = Kind(n, s) /\ TargetOf(n, s).at = s.at /\ TargetOf(n, s).active
  BY DEF TargetOf, Visit
<1> QED BY <1>1, <1>2, <1>3 DEF Kind, Begins, Newer

LEMMA ObservedFrame ==
    ASSUME Typed, Shaped, NEW n \in Nodes, NEW s, Begins(n, s), NEW adopts,
           ObserveEffect(n, s, adopts)
    PROVE  /\ Typed' /\ Frame(TargetOf(n, s)) /\ Reaching(TargetOf(n, s))
           /\ Outcome(TargetOf(n, s), adopts)
           /\ \A m \in Nodes : m # n => phys'[m] = phys[m]
           /\ phys'[n] = s /\ UNCHANGED <<now, count>>
<1>1. Typed'
  BY ObserveSafe DEF Begins
<1>2. Outcome(TargetOf(n, s), adopts) /\ phys' = [phys EXCEPT ![n] = s] /\ UNCHANGED <<now, count>>
  BY ObserveOutcome DEF TargetOf
<1>3. (\A m \in Nodes : m # n => phys'[m] = phys[m]) /\ phys'[n] = s
  BY <1>2 DEF Typed
<1> QED BY <1>1, <1>2, <1>3, TargetParts, OutcomeFrame

LEMMA NotAskedHeld ==
    ASSUME FInv, NEW n \in Nodes, NEW s, Begins(n, s), NotAsked(n, s)
    PROVE  FInv'
<1> DEFINE target == TargetOf(n, s)
<1>1. Typed /\ Shaped /\ Held
  BY DEF FInv
<1>2. ObserveEffect(n, s, FALSE) /\ Selected(target)
  BY DEF NotAsked, TargetOf
<1>3. /\ Typed' /\ Frame(target) /\ Reaching(target)
      /\ \A m \in Nodes : m # n => phys'[m] = phys[m]
  BY <1>1, <1>2, ObservedFrame
<1>4. target \in VisitType /\ target.node = n
  BY <1>1, TargetParts
<1> HIDE DEF target
<1>5. /\ tokens' = Without(Without(tokens, SpentNodes(target)), RetiredNodes(paths', sources'))
      /\ candidates' =
            Without(Without(candidates, SpentNodes(target)), RetiredNodes(paths', sources'))
  BY <1>2 DEF Selected, Leave
<1>6. target.node \in SpentNodes(target)
  BY DEF SpentNodes
<1>7. ASSUME NEW k \in tokens' PROVE TokenHeld(k)'
  <2>1. k \in tokens /\ k.node \notin SpentNodes(target)
        /\ k.node \notin RetiredNodes(paths', sources')
    BY <1>5 DEF Without
  <2> QED BY <1>1, <1>3, <1>4, <1>6, <2>1, TokenPassed DEF Held
<1>8. ASSUME NEW c \in candidates' PROVE CandidateHeld(c)'
  <2>1. c \in candidates /\ c.node \notin SpentNodes(target)
        /\ c.node \notin RetiredNodes(paths', sources')
    BY <1>5 DEF Without
  <2> QED BY <1>1, <1>3, <1>4, <1>6, <2>1, CandidatePassed DEF Held
<1> QED BY <1>3, <1>7, <1>8 DEF FInv, Held, Frame

LEMMA EmptyHouseHeld ==
    ASSUME FInv, NEW n \in Nodes, NEW s, Begins(n, s), EmptyHouse(n, s)
    PROVE  FInv'
<1>1. Typed' /\ Shaped'
  BY ObservedFrame DEF FInv, EmptyHouse, Frame
<1>2. tokens' = {} /\ candidates' = {}
  BY DEF EmptyHouse, Leave, Without
<1> QED BY <1>1, <1>2 DEF FInv, Held

\* The token of a positive that the boundary authorizes.
LEMMA TokenBegins ==
    ASSUME Typed, Shaped, NEW n \in Nodes, NEW s, Begins(n, s),
           TargetOf(n, s).kind = "positive", Unexplained(TargetOf(n, s)),
           n \notin CoveredNodes(paths),
           NEW S, Admitted(TargetOf(n, s), S), phys'[n] = s, Typed'
    PROVE  TokenHeld(Token(TargetOf(n, s)))'
<1> DEFINE target == TargetOf(n, s)
           new == ReconciledPath(NewPath(<<target>>), phys')
           k == Token(target)
<1>1. target \in VisitType /\ target.node = n /\ target.gen = s.gen /\ n \notin InteractionNodes
      /\ s.gen > 0
  BY TargetParts
<1>2. Admitted(target, S)
  OBVIOUS
<1> HIDE DEF target
<1>3. /\ Frame(target) /\ new \in paths' /\ sources'[target.node].consumed
      /\ \A q \in paths' : q = new \/ \E p \in paths : q = ReconciledPath(p, phys')
  BY <1>1, <1>2, AdmittedFrame
<1>4. /\ Id(Endpoint(new)) = Id(target) /\ new.eligible = EndpointLive(target, phys')
  BY <1>1, NewTrails, CoverNew
<1>5. k.node = n /\ k.gen = s.gen
  BY <1>1 DEF Token
<1> HIDE DEF new, k
<1>6. s.status \notin {"baseline", "unavailable"}
  BY DEF Begins
<1>7. EndpointLive(target, phys')
  BY <1>1, <1>6 DEF EndpointLive, SameGeneration
<1>8. sources'[n].gen = s.gen /\ Shaped'
  BY <1>1, <1>3 DEF Frame
<1>9. paths \in SUBSET PathType /\ new \in PathType /\ Shape(new, phys')
  BY <1>3, <1>8 DEF Typed, Shaped
<1>10. <<k.node, k.gen>> \in CoveredIds(new)
  BY <1>1, <1>4, <1>5, <1>9, CoverParts DEF Id
<1>11. ASSUME NEW q \in paths', Endpoint(q).node = n
       PROVE  Endpoint(q).gen = s.gen /\ q.eligible
  <2>1. CASE q = new
    BY <1>1, <1>4, <1>7, <2>1 DEF Id
  <2>2. CASE \E p \in paths : q = ReconciledPath(p, phys')
    <3>1. PICK p \in paths : q = ReconciledPath(p, phys')
      BY <2>2
    <3>2. Id(Endpoint(q)) = Id(Endpoint(p))
      BY <1>9, <3>1, ReconciledFades, PathFadesParts
    <3>3. Endpoint(p) \in Coverage(p) /\ Endpoint(p).node = n
      BY <1>9, <1>11, <3>2, OccurrenceParts DEF Id, Coverage, Authoritative
    <3>4. n \in CoveredNodes(paths)
      BY <3>1, <3>3, CoveredNode
    <3> QED BY <3>4
  <2> QED BY <1>3, <2>1, <2>2
<1>12. TokenHeld(k)'
  BY <1>1, <1>3, <1>5, <1>6, <1>8, <1>10, <1>11 DEF TokenHeld
<1> QED BY <1>12 DEF k, target

LEMMA CandidateBegins ==
    ASSUME Typed, Shaped, NEW n \in Nodes, NEW s, Begins(n, s),
           TargetOf(n, s).kind = "positive", n \notin CoveredNodes(paths),
           Awaited(TargetOf(n, s)), phys'[n] = s, Typed'
    PROVE  CandidateHeld(Candidate(TargetOf(n, s)))'
<1> DEFINE target == TargetOf(n, s)
           c == Candidate(target)
<1>1. target \in VisitType /\ target.node = n /\ target.gen = s.gen /\ n \notin InteractionNodes
      /\ target.kind = "positive" /\ Awaited(target)
  BY TargetParts
<1> HIDE DEF target
<1>2. c.node = n /\ c.gen = s.gen
  BY <1>1 DEF Candidate
<1> HIDE DEF c
<1>3. sources \in [Nodes -> SourceType] /\ paths \in SUBSET PathType
  BY DEF Typed, SourcesOK
<1> DEFINE new == Recorded(sources, target, FALSE)
<1>4. new[n] = [gen |-> target.gen, at |-> target.at, origin |-> OriginOf(target.kind),
                consumed |-> (FALSE \/ target.kind # "positive")]
  BY <1>1, <1>3, RecordedWears
<1>5. sources' = ReconciledSources(new, phys') /\ Ends(paths, new)
  BY <1>1 DEF Awaited, Ends, Settle
<1> HIDE DEF new
<1>6. new[n].gen = s.gen /\ Pending(new[n])
  <2>1. OriginOf(target.kind) = "ordinary"
    BY <1>1 DEF OriginOf
  <2> DEFINE spent == FALSE \/ target.kind # "positive"
  <2>2. new[n] = [gen |-> target.gen, at |-> target.at, origin |-> "ordinary",
                  consumed |-> spent]
    BY <1>4, <2>1
  <2>3. spent = FALSE
    BY <1>1
  <2> HIDE DEF spent
  <2>4. new[n].gen = target.gen /\ new[n].origin = "ordinary" /\ new[n].consumed = FALSE
    BY <2>2, <2>3
  <2> QED BY <1>1, <2>4 DEF Pending
<1>7. SourceLive(n, new[n], phys')
  BY <1>1, <1>6 DEF SourceLive, KnownOn, Begins
<1>8. sources'[n] = new[n]
  BY <1>5, <1>7 DEF ReconciledSources
<1>9. \A q \in paths' : \E p \in paths : q = ReconciledPath(p, phys')
  BY <1>3, <1>5, EndsShaped
<1>10. n \notin CoveredNodes(paths')
  <2>1. ASSUME NEW q \in paths', NEW v \in Coverage(q) PROVE v.node # n
    BY <1>9, FadedCover
  <2> QED BY <2>1, CoveredNode
<1>11. CandidateHeld(c)'
  BY <1>1, <1>2, <1>6, <1>8, <1>10 DEF CandidateHeld
<1> QED BY <1>11 DEF c, target

\* What follows when the frontier is asked.
LEMMA AskedParts ==
    ASSUME FInv, NEW n \in Nodes, NEW s, Begins(n, s), Asked(n, s)
    PROVE  LET target == TargetOf(n, s)
               ordinary == target.kind = "positive"
           IN  /\ target.kind # "interaction" /\ target.node = n /\ target \in VisitType
               /\ Unexplained(target) /\ n \notin CoveredNodes(paths)
               /\ Typed' /\ Frame(target) /\ Reaching(target) /\ phys'[n] = s
               /\ \A m \in Nodes : m # n => phys'[m] = phys[m]
               /\ UNCHANGED <<now, count>> /\ count # 0
               /\ IF ordinary /\ AtBoundary(n) THEN \E S : Admitted(target, S)
                  ELSE Awaited(target)
               /\ \A k \in tokens' :
                     /\ k.node \notin RetiredNodes(paths', sources')
                     /\ k \in tokens \/ (ordinary /\ AtBoundary(n) /\ k = Token(target))
               /\ \A c \in candidates' :
                     /\ c.node \notin RetiredNodes(paths', sources')
                     /\ \/ c \in candidates /\ (ordinary => Zone[c.node] # Zone[n])
                        \/ ordinary /\ ~AtBoundary(n) /\ c = Candidate(target)
<1> DEFINE target == TargetOf(n, s)
           ordinary == target.kind = "positive"
           first == RetiredFirst(target, [phys EXCEPT ![n] = s])
           ts == Without(tokens, first)
           cs == Without(candidates, first)
           adopts == Authorizes(target, ts, cs)
<1>1. Typed /\ Shaped /\ Held
  BY DEF FInv
<1>2. /\ count > 0 /\ ~Explained(paths, sources, target, phys)
      /\ ObserveEffect(n, s, adopts) /\ Answered(target, ts, cs)
  BY DEF Asked, TargetOf
<1>3. target.node = n /\ target \in VisitType
  BY <1>1, TargetParts
<1>4. target.kind # "interaction"
  BY <1>2 DEF Explained
<1>5. ts \in SUBSET tokens /\ cs \in SUBSET candidates
  BY DEF Without
<1> HIDE DEF target, ts, cs
<1>6. /\ Lent(target, ts, cs) = {} /\ (adopts <=> (ordinary /\ AtBoundary(n)))
      /\ n \notin CoveredNodes(paths) /\ Unexplained(target)
  BY <1>1, <1>2, <1>3, <1>5, BoundaryOnly
<1>7. /\ Typed' /\ Frame(target) /\ Reaching(target) /\ Outcome(target, adopts)
      /\ \A m \in Nodes : m # n => phys'[m] = phys[m]
      /\ phys'[n] = s /\ UNCHANGED <<now, count>>
  BY <1>1, <1>2, ObservedFrame DEF target
<1>8. count # 0
  BY <1>2
<1>9. /\ tokens' = Without(ts \cup {Token(c) : c \in Lent(target, ts, cs)}
                               \cup (IF adopts /\ ordinary THEN {Token(target)} ELSE {}),
                           RetiredNodes(paths', sources'))
      /\ candidates' =
            Without((IF adopts \/ ordinary
                     THEN {c \in cs \ Lent(target, ts, cs) : Zone[c.node] # Zone[target.node]}
                     ELSE cs)
                        \cup (IF ordinary /\ ~adopts THEN {Candidate(target)} ELSE {}),
                    RetiredNodes(paths', sources'))
  BY <1>2 DEF Answered, Leave
<1> HIDE DEF adopts
<1>10. IF ordinary /\ AtBoundary(n) THEN \E S : Admitted(target, S) ELSE Awaited(target)
  <2>1. ~Emptied(target) /\ Continuations(paths, target, phys) = {}
        /\ OriginNodes(sources, target) = {}
    BY <1>6, <1>8 DEF Unexplained, Emptied
  <2>2. \/ (ordinary /\ adopts) /\ \E S : Admitted(target, S)
        \/ ~(ordinary /\ adopts) /\ Awaited(target)
    BY <1>4, <1>7, <2>1 DEF Outcome
  <2> HIDE DEF ordinary
  <2> QED BY <1>6, <2>2
<1> HIDE DEF ordinary
<1>11. ASSUME NEW k \in tokens'
       PROVE  /\ k.node \notin RetiredNodes(paths', sources')
              /\ k \in tokens \/ (ordinary /\ AtBoundary(n) /\ k = Token(target))
  <2> DEFINE new == IF adopts /\ ordinary THEN {Token(target)} ELSE {}
  <2>1. tokens' = Without(ts \cup {} \cup new, RetiredNodes(paths', sources'))
    BY <1>6, <1>9
  <2>2. \A x \in new : ordinary /\ AtBoundary(n) /\ x = Token(target)
    BY <1>6
  <2> HIDE DEF new
  <2> QED BY <1>5, <2>1, <2>2 DEF Without
<1>12. ASSUME NEW c \in candidates'
       PROVE  /\ c.node \notin RetiredNodes(paths', sources')
              /\ \/ c \in candidates /\ (ordinary => Zone[c.node] # Zone[n])
                 \/ ordinary /\ ~AtBoundary(n) /\ c = Candidate(target)
  BY <1>3, <1>5, <1>6, <1>9 DEF Without
<1> QED BY <1>3, <1>4, <1>6, <1>7, <1>8, <1>10, <1>11, <1>12 DEF target, ordinary

LEMMA AskedHeld ==
    ASSUME FInv, NEW n \in Nodes, NEW s, Begins(n, s), Asked(n, s)
    PROVE  FInv'
<1> DEFINE target == TargetOf(n, s)
           ordinary == target.kind = "positive"
<1>1. Typed /\ Shaped /\ Held
  BY DEF FInv
<1>2. /\ target.kind # "interaction" /\ target.node = n /\ target \in VisitType
      /\ Unexplained(target) /\ n \notin CoveredNodes(paths)
      /\ Typed' /\ Frame(target) /\ Reaching(target) /\ phys'[n] = s
      /\ \A m \in Nodes : m # n => phys'[m] = phys[m]
      /\ IF ordinary /\ AtBoundary(n) THEN \E S : Admitted(target, S) ELSE Awaited(target)
      /\ \A k \in tokens' :
            /\ k.node \notin RetiredNodes(paths', sources')
            /\ k \in tokens \/ (ordinary /\ AtBoundary(n) /\ k = Token(target))
      /\ \A c \in candidates' :
            /\ c.node \notin RetiredNodes(paths', sources')
            /\ \/ c \in candidates /\ (ordinary => Zone[c.node] # Zone[n])
               \/ ordinary /\ ~AtBoundary(n) /\ c = Candidate(target)
  BY AskedParts
<1>3. ordinary /\ AtBoundary(n) => TokenHeld(Token(target))'
  <2>1. ASSUME ordinary, AtBoundary(n) PROVE TokenHeld(Token(target))'
    <3>1. PICK S : Admitted(target, S)
      BY <1>2, <2>1
    <3> QED BY <1>1, <1>2, <2>1, <3>1, TokenBegins
  <2> QED BY <2>1
<1>4. ordinary /\ ~AtBoundary(n) => CandidateHeld(Candidate(target))'
  BY <1>1, <1>2, CandidateBegins
<1>5. ~ordinary => /\ \A q \in paths' : \E p \in paths : q = ReconciledPath(p, phys')
                   /\ sources'[n].consumed
  <2>1. ASSUME ~ordinary
        PROVE  /\ \A q \in paths' : \E p \in paths : q = ReconciledPath(p, phys')
               /\ sources'[n].consumed
    <3>1. Ends(paths, Recorded(sources, target, FALSE))
      BY <1>2, <2>1 DEF Awaited
    <3>2. paths \in SUBSET PathType /\ sources \in [Nodes -> SourceType]
      BY <1>1 DEF Typed, SourcesOK
    <3>3. \A m \in Nodes : Wears(sources[m], sources[m])
      BY <3>2, ConsumedWears
    <3> DEFINE spent == FALSE \/ target.kind # "positive"
               src == [gen |-> target.gen, at |-> target.at, origin |-> OriginOf(target.kind),
                       consumed |-> spent]
    <3>4. Wears(src, sources'[target.node])
      BY <1>2, <3>1, <3>2, <3>3, EndsLedger
    <3>5. spent
      BY <2>1
    <3> HIDE DEF spent
    <3>6. src.consumed
      BY <3>5
    <3> HIDE DEF src
    <3>7. sources'[n].consumed
      BY <1>2, <3>4, <3>6 DEF Wears
    <3> QED BY <3>1, <3>2, <3>7, EndsShaped
  <2> QED BY <2>1
<1> HIDE DEF target, ordinary
<1>6. ASSUME NEW k \in tokens' PROVE TokenHeld(k)'
  <2>1. CASE k \in tokens
    <3>1. TokenHeld(k) /\ k.node \notin RetiredNodes(paths', sources')
      BY <1>1, <1>2, <2>1 DEF Held
    <3>2. PICK p \in paths : <<k.node, k.gen>> \in CoveredIds(p)
      BY <3>1 DEF TokenHeld
    <3>3. PICK v \in Coverage(p) : Id(v) = <<k.node, k.gen>>
      BY <3>2 DEF CoveredIds
    <3>4. k.node \in CoveredNodes(paths)
      BY <3>3, CoveredNode DEF Id
    <3>5. k.node # target.node
      BY <1>2, <3>4
    <3> QED BY <1>1, <1>2, <3>1, <3>5, TokenPassed
  <2>2. CASE k \notin tokens
    BY <1>2, <1>3, <2>2
  <2> QED BY <2>1, <2>2
<1>7. ASSUME NEW c \in candidates' PROVE CandidateHeld(c)'
  <2>1. CASE c \in candidates /\ (ordinary => Zone[c.node] # Zone[n])
    <3>1. CandidateHeld(c) /\ c.node \notin RetiredNodes(paths', sources')
      BY <1>1, <1>2, <2>1 DEF Held
    <3>2. CASE c.node = n
      <4>1. ~ordinary
        BY <2>1, <3>2
      <4>2. n \notin CoveredNodes(paths')
        <5>1. ASSUME NEW q \in paths', NEW v \in Coverage(q) PROVE v.node # n
          BY <1>1, <1>2, <1>5, <4>1, FadedCover
        <5> QED BY <5>1, CoveredNode
      <4>3. n \in RetiredNodes(paths', sources')
        BY <1>5, <4>1, <4>2 DEF RetiredNodes
      <4> QED BY <3>1, <3>2, <4>3
    <3>3. CASE c.node # n
      <4>1. OriginNodes(sources, target) = {}
        BY <1>2 DEF Unexplained
      <4> QED BY <1>1, <1>2, <3>1, <3>3, <4>1, CandidatePassed
    <3> QED BY <3>2, <3>3
  <2>2. CASE ordinary /\ ~AtBoundary(n) /\ c = Candidate(target)
    BY <1>4, <2>2
  <2> QED BY <1>2, <2>1, <2>2
<1> QED BY <1>2, <1>6, <1>7 DEF FInv, Held, Frame

\* Calls that observe nothing only withdraw.
LEMMA QuietHeld ==
    ASSUME FInv, Typed', Ends(paths, sources),
           \A k \in tokens' :
              /\ k.node \notin RetiredNodes(paths', sources')
              /\ \E o \in tokens : k.node = o.node /\ k.gen = o.gen
              /\ phys'[k.node].gen = phys[k.node].gen
              /\ phys[k.node].status \notin {"baseline", "unavailable"} =>
                     phys'[k.node].status \notin {"baseline", "unavailable"},
           \A c \in candidates' : c \in candidates /\ c.node \notin RetiredNodes(paths', sources')
    PROVE  FInv'
<1>1. Typed /\ Shaped /\ Held
  BY DEF FInv
<1>2. paths \in SUBSET PathType /\ sources \in [Nodes -> SourceType]
  BY <1>1 DEF Typed, SourcesOK
<1>3. Shaped' /\ \A q \in paths' : \E p \in paths : q = ReconciledPath(p, phys')
  BY <1>2, EndsShaped
<1>4. \A m \in Nodes : Wears(sources[m], sources'[m])
  <2>1. sources' = ReconciledSources(sources, phys')
    BY DEF Ends, Settle
  <2> QED BY <1>2, <2>1, ReconciledWears
<1>5. ASSUME NEW k \in tokens' PROVE TokenHeld(k)'
  <2>1. PICK o \in tokens : k.node = o.node /\ k.gen = o.gen
    OBVIOUS
  <2>2. TokenHeld(o)
    BY <1>1 DEF Held
  <2>3. TokenHeld(k)
    BY <2>1, <2>2 DEF TokenHeld
  <2>4. k.node \in Nodes /\ phys'[k.node].status \notin {"baseline", "unavailable"}
    BY <2>3 DEF TokenHeld
  <2> QED BY <1>1, <1>3, <1>4, <2>3, <2>4, TokenStays
<1>6. ASSUME NEW c \in candidates' PROVE CandidateHeld(c)'
  <2>1. CandidateHeld(c) /\ c.node \in Nodes /\ c.node \notin CoveredNodes(paths)
    BY <1>1 DEF Held, CandidateHeld
  <2>2. c.node \notin CoveredNodes(paths')
    <3>1. ASSUME NEW q \in paths', NEW v \in Coverage(q) PROVE v.node # c.node
      BY <1>1, <1>3, <2>1, FadedCover
    <3> QED BY <3>1, CoveredNode
  <2> QED BY <1>4, <2>1, <2>2, CandidateStays
<1> QED BY <1>3, <1>5, <1>6 DEF FInv, Held

LEMMA OneQuiet ==
    ASSUME Typed, NEW n \in Nodes, NEW s, PhysicalChange([phys EXCEPT ![n] = s])
    PROVE  /\ Ends(paths, sources) /\ phys'[n] = s /\ UNCHANGED <<now, count>>
           /\ \A m \in Nodes : m # n => phys'[m] = phys[m]
<1>1. phys' = [phys EXCEPT ![n] = s] /\ Settle(paths, sources, [phys EXCEPT ![n] = s])
      /\ UNCHANGED <<now, count>>
  BY DEF PhysicalChange
<1>2. Ends(paths, sources)
  BY <1>1 DEF Ends
<1> QED BY <1>1, <1>2 DEF Typed

LEMMA TokenNode ==
    ASSUME FInv, NEW k \in tokens
    PROVE  k.node \in Nodes /\ phys[k.node].status \notin {"baseline", "unavailable"}
BY DEF FInv, Held, TokenHeld

LEMMA KeepHeld ==
    ASSUME FInv, NEW n \in Nodes, (Release(n) \/ Return(n)) /\ Keep
    PROVE  FInv'
<1>1. Typed /\ Typed'
  BY NodeSafe DEF FInv
<1>2. phys[n] \in NodeState
  BY <1>1 DEF Typed
<1>3. PICK s : /\ PhysicalChange([phys EXCEPT ![n] = s])
               /\ s.gen = phys[n].gen
               /\ phys[n].status # "unavailable" => s.status \notin {"baseline", "unavailable"}
  <2>1. CASE Release(n)
    <3>1. Released(phys[n]).gen = phys[n].gen /\ Released(phys[n]).status = "clearing"
      BY <1>2 DEF Released, NodeState
    <3>2. PhysicalChange([phys EXCEPT ![n] = Released(phys[n])])
      BY <2>1 DEF Release
    <3> QED BY <3>1, <3>2
  <2>2. CASE Return(n)
    <3>1. Returned(phys[n]).gen = phys[n].gen /\ phys[n].status = "unavailable"
      BY <1>2, <2>2 DEF Returned, NodeState, Return, CanReturn
    <3>2. PhysicalChange([phys EXCEPT ![n] = Returned(phys[n])])
      BY <2>2 DEF Return
    <3> QED BY <3>1, <3>2
  <2> QED BY <2>1, <2>2
<1>4. /\ Ends(paths, sources) /\ phys'[n] = s
      /\ \A m \in Nodes : m # n => phys'[m] = phys[m]
  BY <1>1, <1>3, OneQuiet
<1>5. /\ tokens' = Without(tokens, RetiredNodes(paths', sources'))
      /\ candidates' = Without(candidates, RetiredNodes(paths', sources'))
  BY DEF Keep, Leave
<1>6. ASSUME NEW k \in tokens'
      PROVE  /\ k.node \notin RetiredNodes(paths', sources')
             /\ \E o \in tokens : k.node = o.node /\ k.gen = o.gen
             /\ phys'[k.node].gen = phys[k.node].gen
             /\ phys[k.node].status \notin {"baseline", "unavailable"} =>
                    phys'[k.node].status \notin {"baseline", "unavailable"}
  <2>1. k \in tokens /\ k.node \notin RetiredNodes(paths', sources')
    BY <1>5 DEF Without
  <2>2. k.node \in Nodes
    BY <2>1, TokenNode
  <2> QED BY <1>3, <1>4, <2>1, <2>2
<1>7. \A c \in candidates' : c \in candidates /\ c.node \notin RetiredNodes(paths', sources')
  BY <1>5 DEF Without
<1> QED BY <1>1, <1>4, <1>6, <1>7, QuietHeld

LEMMA ReopenHeld ==
    ASSUME FInv, NEW n \in Nodes, FrontierReopen(n)
    PROVE  FInv'
<1>1. Typed /\ Typed'
  BY NodeSafe DEF FInv
<1>2. phys[n] \in NodeState
  BY <1>1 DEF Typed
<1> DEFINE s == Reopened(phys[n])
           ts == {IF Reopens(k, n) THEN ReopenedToken(k) ELSE k : k \in tokens}
<1>3. s.gen = phys[n].gen /\ s.status = "asserted"
  BY <1>2 DEF Reopened, NodeState
<1>4. /\ Ends(paths, sources) /\ phys'[n] = s
      /\ \A m \in Nodes : m # n => phys'[m] = phys[m]
  <2>1. PhysicalChange([phys EXCEPT ![n] = s])
    BY DEF FrontierReopen, Reopen
  <2> QED BY <1>1, <2>1, OneQuiet
<1> HIDE DEF s
<1>5. /\ tokens' = Without(ts, RetiredNodes(paths', sources'))
      /\ candidates' = Without(candidates, RetiredNodes(paths', sources'))
  BY DEF FrontierReopen, Leave
<1>6. \A k \in ts : \E o \in tokens : k = o \/ k = ReopenedToken(o)
  OBVIOUS
<1>7. ASSUME NEW o PROVE ReopenedToken(o).node = o.node /\ ReopenedToken(o).gen = o.gen
  BY DEF ReopenedToken
<1> HIDE DEF ts
<1>8. ASSUME NEW k \in tokens'
      PROVE  /\ k.node \notin RetiredNodes(paths', sources')
             /\ \E o \in tokens : k.node = o.node /\ k.gen = o.gen
             /\ phys'[k.node].gen = phys[k.node].gen
             /\ phys[k.node].status \notin {"baseline", "unavailable"} =>
                    phys'[k.node].status \notin {"baseline", "unavailable"}
  <2>1. k \in ts /\ k.node \notin RetiredNodes(paths', sources')
    BY <1>5 DEF Without
  <2>2. PICK o \in tokens : k.node = o.node /\ k.gen = o.gen
    BY <1>6, <1>7, <2>1
  <2>3. k.node \in Nodes
    BY <2>2, TokenNode
  <2> QED BY <1>3, <1>4, <2>1, <2>2, <2>3
<1>9. \A c \in candidates' : c \in candidates /\ c.node \notin RetiredNodes(paths', sources')
  BY <1>5 DEF Without
<1> QED BY <1>1, <1>4, <1>8, <1>9, QuietHeld

\* Calls that change several sensors: the tokens of those that change
\* otherwise than by a clear are removed first.
LEMMA ManyHeld ==
    ASSUME FInv, Typed', Ends(paths, sources), NEW ts, NEW cs,
           ts \subseteq tokens, cs \subseteq candidates, Leave(ts, cs),
           \A k \in ts : /\ phys'[k.node].gen = phys[k.node].gen
                         /\ \/ phys'[k.node] = phys[k.node]
                            \/ phys'[k.node].status = "clear"
    PROVE  FInv'
<1>1. /\ tokens' = Without(ts, RetiredNodes(paths', sources'))
      /\ candidates' = Without(cs, RetiredNodes(paths', sources'))
  BY DEF Leave
<1>2. ASSUME NEW k \in tokens'
      PROVE  /\ k.node \notin RetiredNodes(paths', sources')
             /\ \E o \in tokens : k.node = o.node /\ k.gen = o.gen
             /\ phys'[k.node].gen = phys[k.node].gen
             /\ phys[k.node].status \notin {"baseline", "unavailable"} =>
                    phys'[k.node].status \notin {"baseline", "unavailable"}
  <2>1. k \in ts /\ k.node \notin RetiredNodes(paths', sources')
    BY <1>1 DEF Without
  <2> QED BY <2>1
<1>3. \A c \in candidates' : c \in candidates /\ c.node \notin RetiredNodes(paths', sources')
  BY <1>1 DEF Without
<1> QED BY <1>2, <1>3, QuietHeld

LEMMA LoseHeld ==
    ASSUME FInv, NEW n \in Nodes, FrontierLose(n)
    PROVE  FInv'
<1>1. Typed /\ Typed'
  BY NodeSafe DEF FInv
<1>2. Ends(paths, sources) /\ \A m \in Nodes : m # n => phys'[m] = phys[m]
  BY <1>1, OneQuiet DEF FrontierLose, Lose
<1> DEFINE ts == Without(tokens, {n})
           cs == Without(candidates, {n})
<1>3. Leave(ts, cs)
  BY DEF FrontierLose
<1>4. ts \subseteq tokens /\ cs \subseteq candidates /\ \A k \in ts : k.node # n
  BY DEF Without
<1> HIDE DEF ts, cs
<1>5. \A k \in ts : k.node \in Nodes
  BY <1>4, TokenNode
<1> QED BY <1>1, <1>2, <1>3, <1>4, <1>5, ManyHeld

LEMMA StartupHeld ==
    ASSUME FInv, FrontierStartup PROVE FInv'
<1>1. Typed /\ Typed' /\ Startup
  BY StartupSafe DEF FInv, FrontierStartup
<1>2. Ends(paths, sources)
  BY <1>1 DEF Startup, PhysicalChange, Ends
<1> DEFINE ts == Without(tokens, ChangedNodes)
           cs == Without(candidates, ChangedNodes)
<1>3. Leave(ts, cs)
  BY DEF FrontierStartup
<1>4. /\ ts \subseteq tokens /\ cs \subseteq candidates
      /\ \A k \in ts : k.node \in Nodes => phys'[k.node] = phys[k.node]
  BY DEF Without, ChangedNodes
<1> HIDE DEF ts, cs
<1>5. \A k \in ts : k.node \in Nodes
  BY <1>4, TokenNode
<1> QED BY <1>1, <1>2, <1>3, <1>4, <1>5, ManyHeld

LEMMA AdvanceHeld ==
    ASSUME FInv, NEW settled \in SUBSET Nodes, FrontierAdvance(settled)
    PROVE  FInv'
<1>1. Typed /\ Typed' /\ Advance(settled)
  BY AdvanceSafe DEF FInv, FrontierAdvance
<1>2. /\ Ends(paths, sources)
      /\ phys' = [n \in Nodes |-> IF n \in settled THEN Settled(phys[n]) ELSE phys[n]]
  BY <1>1 DEF Advance, Ends
<1> DEFINE ts == Aged(tokens, now')
           cs == Open(candidates, now')
<1>3. Leave(ts, cs)
  BY DEF FrontierAdvance
<1>4. ts \subseteq tokens /\ cs \subseteq candidates
  BY DEF Aged, Open
<1> HIDE DEF ts, cs
<1>5. ASSUME NEW k \in ts
      PROVE  /\ phys'[k.node].gen = phys[k.node].gen
             /\ phys'[k.node] = phys[k.node] \/ phys'[k.node].status = "clear"
  <2>1. k.node \in Nodes
    BY <1>4, TokenNode
  <2>2. phys[k.node] \in NodeState
    BY <1>1, <2>1 DEF Typed
  <2>3. /\ Settled(phys[k.node]).gen = phys[k.node].gen
        /\ Settled(phys[k.node]).status = "clear"
    BY <2>2 DEF Settled, NodeState
  <2> QED BY <1>2, <2>1, <2>3
<1> QED BY <1>1, <1>2, <1>3, <1>4, <1>5, ManyHeld

LEMMA ShapeSame ==
    ASSUME NEW p \in PathType, NEW ph, Shape(p, ph), NEW after,
           \A n \in Nodes : ph[n].gen = after[n].gen /\ ph[n].status = after[n].status
    PROVE  Shape(p, after)
<1>1. \A v \in Occurrences(p) : v.node \in Nodes
  BY OccurrenceParts, VisitParts
<1>2. \A v \in Occurrences(p) : /\ BranchLive(v, ph) => BranchLive(v, after)
                                /\ EndpointLive(v, ph) => EndpointLive(v, after)
  BY <1>1 DEF BranchLive, EndpointLive, SameGeneration
<1>3. Endpoint(p) \in Occurrences(p)
  BY OccurrenceParts
<1> QED BY <1>2, <1>3 DEF Shape

LEMMA CountParts ==
    ASSUME Typed, Shaped, NEW k \in 0 .. MaxCount, SetCount(k)
    PROVE  /\ Typed' /\ Shaped' /\ paths' \in Kept(paths, k) /\ paths' \subseteq paths
           /\ count' = k /\ now' = now
           /\ \A n \in Nodes : /\ phys'[n].gen = phys[n].gen /\ phys'[n].status = phys[n].status
                               /\ phys'[n].at = phys[n].at
           /\ k # 0 => phys' = phys /\ sources' = sources
           /\ k = 0 => /\ \A n \in Nodes : phys'[n] = Uncorrelated(phys[n])
                       /\ \A n \in Nodes : sources'[n] = Consumed(sources[n])
<1>1. Reconciled(paths, phys) = paths /\ ReconciledSources(sources, phys) = sources
  BY PathsFixed DEF Shaped
<1>2. /\ paths' \in Kept(paths, k) /\ sources' = Forgotten(sources, k)
      /\ phys' = [n \in Nodes |-> IF k = 0 THEN Uncorrelated(phys[n]) ELSE phys[n]]
      /\ count' = k /\ now' = now
  BY <1>1 DEF SetCount
<1>3. Typed'
  BY CountSafe
<1>4. paths' \subseteq paths
  BY <1>2 DEF Kept
<1>5. phys \in [Nodes -> NodeState] /\ paths \in SUBSET PathType
      /\ sources \in [Nodes -> SourceType]
  BY DEF Typed, SourcesOK
<1>6. ASSUME NEW n \in Nodes
      PROVE  /\ phys'[n].gen = phys[n].gen /\ phys'[n].status = phys[n].status
             /\ phys'[n].at = phys[n].at
  BY <1>2, <1>5 DEF Uncorrelated, NodeState
<1>7. \A p \in paths' : Shape(p, phys')
  BY <1>4, <1>5, <1>6, ShapeSame DEF Shaped
<1>8. k # 0 => phys' = phys /\ sources' = sources
  BY <1>2, <1>5 DEF Forgotten
<1>9. k = 0 => /\ \A n \in Nodes : phys'[n] = Uncorrelated(phys[n])
               /\ \A n \in Nodes : sources'[n] = Consumed(sources[n])
  BY <1>2 DEF Forgotten
<1>10. ReconciledSources(sources', phys') = sources'
  <2>1. CASE k # 0
    BY <1>1, <1>8, <2>1
  <2>2. CASE k = 0
    <3>1. ASSUME NEW n \in Nodes PROVE Consumed(sources'[n]) = sources'[n]
      <4>1. sources[n] \in SourceType /\ sources'[n] = Consumed(sources[n])
        BY <1>5, <1>9, <2>2
      <4> QED BY <4>1 DEF Consumed, Pending, SourceType
    <3>2. sources' = [n \in Nodes |-> sources'[n]]
      BY <1>2, <2>2 DEF Forgotten
    <3> DEFINE new == sources'
    <3> HIDE DEF new
    <3>3. ReconciledSources(new, phys') = [n \in Nodes |-> new[n]]
      BY <3>1 DEF ReconciledSources, new
    <3> QED BY <3>2, <3>3 DEF new
  <2> QED BY <2>1, <2>2
<1>11. Shaped'
  BY <1>7, <1>10 DEF Shaped
<1> QED BY <1>2, <1>3, <1>4, <1>6, <1>8, <1>9, <1>11

LEMMA CountHeld ==
    ASSUME FInv, NEW k \in 0 .. MaxCount, FrontierCount(k)
    PROVE  FInv'
<1>1. Typed /\ Shaped /\ Held /\ SetCount(k)
  BY DEF FInv, FrontierCount
<1>2. /\ Typed' /\ Shaped' /\ paths' \subseteq paths
      /\ k # 0 => phys' = phys /\ sources' = sources
  BY <1>1, CountParts
<1>3. CASE k = 0
  <2>1. tokens' = {} /\ candidates' = {}
    BY <1>3 DEF FrontierCount, Leave, Without
  <2> QED BY <1>2, <2>1 DEF FInv, Held
<1>4. CASE k # 0
  <2>1. /\ tokens' = Without(tokens, RetiredNodes(paths', sources'))
        /\ candidates' = Without(candidates, RetiredNodes(paths', sources'))
    BY <1>4 DEF FrontierCount, Leave
  <2>2. phys' = phys /\ sources' = sources
    BY <1>2, <1>4
  <2>3. \A n \in Nodes : Wears(sources[n], sources'[n])
    BY <1>1, <2>2, ConsumedWears DEF Typed, SourcesOK
  <2>4. \A q \in paths' : q = ReconciledPath(q, phys') /\ q \in paths
    BY <1>1, <1>2, <2>2, ShapeFixed DEF Typed, Shaped
  <2>5. ASSUME NEW t \in tokens' PROVE TokenHeld(t)'
    <3>1. TokenHeld(t) /\ t.node \notin RetiredNodes(paths', sources')
      BY <1>1, <2>1 DEF Held, Without
    <3>2. t.node \in Nodes /\ phys[t.node].status \notin {"baseline", "unavailable"}
      BY <3>1 DEF TokenHeld
    <3> QED BY <1>1, <1>2, <2>2, <2>3, <2>4, <3>1, <3>2, TokenStays
  <2>6. ASSUME NEW c \in candidates' PROVE CandidateHeld(c)'
    <3>1. CandidateHeld(c) /\ c.node \notin RetiredNodes(paths', sources')
      BY <1>1, <2>1 DEF Held, Without
    <3>2. c.node \in Nodes /\ c.node \notin CoveredNodes(paths)
      BY <3>1 DEF CandidateHeld
    <3>3. c.node \notin CoveredNodes(paths')
      BY <1>2, <3>2, CoveredNode
    <3> QED BY <1>2, <2>3, <3>1, <3>2, <3>3, CandidateStays
  <2> QED BY <1>2, <2>5, <2>6 DEF FInv, Held
<1> QED BY <1>3, <1>4

LEMMA BeginsNode ==
    ASSUME Typed, NEW n \in Nodes, NEW linked \in BOOLEAN
    PROVE  /\ n \notin InteractionNodes => Begins(n, Started(n, phys[n], now, linked))
           /\ n \in InteractionNodes => Begins(n, Pressed(phys[n], now))
<1>1. Newer(n, Pressed(phys[n], now)) /\ Newer(n, Started(n, phys[n], now, linked))
  BY NewerNode
<1>2. /\ Pressed(phys[n], now).status = "clearing" /\ ~Pressed(phys[n], now).correlated
      /\ Started(n, phys[n], now, linked).status = "asserted"
  BY DEF Pressed, Started
<1> QED BY <1>1, <1>2 DEF Begins

LEMMA ObservationBegins ==
    ASSUME Typed, NEW n \in Nodes,
           FrontierPress(n) \/ FrontierPositive(n) \/ FrontierCorrelated(n)
    PROVE  \E s : Begins(n, s) /\ Observation(n, s)
<1>1. CASE FrontierPress(n)
  <2>1. n \in InteractionNodes /\ Observation(n, Pressed(phys[n], now))
    BY <1>1 DEF FrontierPress, CanPress
  <2> QED BY <2>1, BeginsNode
<1>2. CASE FrontierPositive(n)
  <2>1. n \notin InteractionNodes /\ Observation(n, Started(n, phys[n], now, FALSE))
    BY <1>2 DEF FrontierPositive, CanStart
  <2> QED BY <2>1, BeginsNode
<1>3. CASE FrontierCorrelated(n)
  <2>1. n \notin InteractionNodes /\ Observation(n, Started(n, phys[n], now, TRUE))
    BY <1>3 DEF FrontierCorrelated, CanStart
  <2> QED BY <2>1, BeginsNode
<1> QED BY <1>1, <1>2, <1>3

LEMMA StepHeld ==
    ASSUME FInv, FrontierNext PROVE FInv'
<1>1. Typed
  BY DEF FInv
<1>2. CASE \E n \in Nodes : FrontierPress(n) \/ FrontierPositive(n) \/ FrontierCorrelated(n)
  <2>1. PICK n \in Nodes : FrontierPress(n) \/ FrontierPositive(n) \/ FrontierCorrelated(n)
    BY <1>2
  <2>2. PICK s : Begins(n, s) /\ Observation(n, s)
    BY <1>1, <2>1, ObservationBegins
  <2> QED BY <2>2, AskedHeld, NotAskedHeld, EmptyHouseHeld DEF Observation
<1>3. CASE \E n \in Nodes : (Release(n) \/ Return(n)) /\ Keep
  BY <1>3, KeepHeld
<1>4. CASE \E n \in Nodes : FrontierReopen(n) \/ FrontierLose(n)
  BY <1>4, ReopenHeld, LoseHeld
<1>5. CASE FrontierStartup
  BY <1>5, StartupHeld
<1>6. CASE \E settled \in SUBSET Nodes : FrontierAdvance(settled)
  BY <1>6, AdvanceHeld
<1>7. CASE \E k \in 0 .. MaxCount : FrontierCount(k)
  BY <1>7, CountHeld
<1> QED BY <1>2, <1>3, <1>4, <1>5, <1>6, <1>7 DEF FrontierNext

LEMMA InitHeld ==
    ASSUME FrontierInit PROVE Shaped /\ Held
<1>1. /\ paths = {} /\ tokens = {} /\ candidates = {}
      /\ sources = [n \in Nodes |-> NoSource]
  BY DEF FrontierInit, Init
<1>2. Consumed(NoSource) = NoSource
  BY DEF Consumed, Pending, NoSource
<1>3. ReconciledSources(sources, phys) = sources
  BY <1>1, <1>2 DEF ReconciledSources
<1> QED BY <1>1, <1>3 DEF Shaped, Held

LEMMA StutterHeld ==
    ASSUME FInv, UNCHANGED <<vars, frontier>> PROVE FInv'
<1>1. UNCHANGED vars /\ UNCHANGED <<tokens, candidates>>
  BY DEF frontier
<1>2. Typed'
  BY <1>1, StutterSafe DEF FInv
<1>3. Shaped'
  BY <1>1 DEF FInv, Shaped, vars
<1>4. Held'
  BY <1>1 DEF FInv, Held, TokenHeld, CandidateHeld, vars
<1> QED BY <1>2, <1>3, <1>4 DEF FInv

\* Each call leaves the paths and the ledger as a reconciliation would, and
\* what the frontier holds bound to them.
THEOREM FrontierHeld == FrontierSpec => []FInv
<1>1. FrontierInit => FInv
  BY InitTyped, InitHeld DEF FInv
<1>2. FInv /\ [FrontierNext]_<<vars, frontier>> => FInv'
  BY StepHeld, StutterHeld
<1> QED BY <1>1, <1>2, PTL DEF FrontierSpec

\* The frontier and the paths never hold two authorities for one observation:
\* what a token stands for is where a path locates its occupant, and what a
\* candidate stands for is still a pending origin of the ledger.
THEOREM FrontierOneAuthority == FrontierSpec => []OneAuthority
<1>1. FInv => OneAuthority
  <2>1. ASSUME FInv PROVE OneAuthority
    <3>1. ASSUME NEW k \in tokens
          PROVE  \E p \in paths : \E v \in Coverage(p) : Id(v) = <<k.node, k.gen>>
      BY <2>1 DEF FInv, Held, TokenHeld, CoveredIds
    <3>2. ASSUME NEW c \in candidates
          PROVE  Pending(sources[c.node]) /\ sources[c.node].gen = c.gen
      BY <2>1 DEF FInv, Held, CandidateHeld
    <3> QED BY <3>1, <3>2 DEF OneAuthority
  <2> QED BY <2>1
<1> QED BY <1>1, FrontierHeld, PTL

-----------------------------------------------------------------------------
(* What begins a path. *)

\* The visits that are kept when one more is added.
LEMMA LongerItems ==
    ASSUME NEW r \in Trails, NEW v \in VisitType
    PROVE  LET g == LastOf(Limit, Append(r, v))
           IN  /\ Len(r) < Limit => /\ Len(g) = Len(r) + 1 /\ g[Len(r) + 1] = v
                                    /\ \A i \in 1 .. Len(r) : g[i] = r[i]
               /\ Len(r) = Limit => /\ Len(g) = Limit /\ g[Limit] = v
                                    /\ \A i \in 1 .. Limit - 1 : g[i] = r[i + 1]
<1> DEFINE n == Len(r)
           a == Append(r, v)
           g == LastOf(Limit, a)
<1>1. /\ n \in Nat /\ 1 <= n /\ n <= Limit /\ Limit \in Nat /\ Limit >= 3
      /\ \A i \in 1 .. n : r[i] \in VisitType
  BY TrailParts, Bounds
<1>2. /\ a \in Seq(VisitType) /\ Len(a) = n + 1 /\ \A i \in 1 .. n : a[i] = r[i]
      /\ a[n + 1] = v
  BY TrailParts, AppendProperties
<1>3. g = SubSeq(a, IF Len(a) > Limit THEN Len(a) - Limit + 1 ELSE 1, Len(a))
  BY DEF LastOf
<1> HIDE DEF a, g, n
<1>4. \A i \in 1 .. n + 1 : a[i] \in VisitType
  <2>1. ASSUME NEW i \in 1 .. n + 1 PROVE a[i] \in VisitType
    <3>1. i = n + 1 \/ i \in 1 .. n
      BY <1>1
    <3> QED BY <1>1, <1>2, <3>1
  <2> QED BY <2>1
<1>5. CASE n < Limit
  <2>1. g = SubSeq(a, 1, n + 1)
    BY <1>1, <1>2, <1>3, <1>5
  <2>2. /\ Len(g) = (IF 1 <= n + 1 THEN n + 1 - 1 + 1 ELSE 0)
        /\ \A i \in 1 .. n + 1 - 1 + 1 : g[i] = a[1 + i - 1]
    BY <1>1, <1>4, <2>1, SubSeqProperties
  <2>3. Len(g) = n + 1
    BY <1>1, <2>2
  <2>4. \A i \in 1 .. n + 1 : g[i] = a[i]
    <3>1. \A i \in 1 .. n + 1 : i \in 1 .. n + 1 - 1 + 1 /\ 1 + i - 1 = i
      BY <1>1
    <3> QED BY <2>2, <3>1
  <2>5. n + 1 \in 1 .. n + 1 /\ \A i \in 1 .. n : i \in 1 .. n + 1
    BY <1>1
  <2> QED BY <1>1, <1>2, <1>5, <2>3, <2>4, <2>5 DEF a, g, n
<1>6. CASE n = Limit
  <2>1. g = SubSeq(a, 2, n + 1)
    <3>1. n + 1 > Limit /\ n + 1 - Limit + 1 = 2
      BY <1>1, <1>6
    <3>2. g = SubSeq(a, IF n + 1 > Limit THEN n + 1 - Limit + 1 ELSE 1, n + 1)
      BY <1>1, <1>2, <1>3
    <3>3. (IF n + 1 > Limit THEN n + 1 - Limit + 1 ELSE 1) = 2
      BY <3>1
    <3> QED BY <3>2, <3>3
  <2>2. /\ Len(g) = n + 1 - 2 + 1
        /\ \A i \in 1 .. n + 1 - 2 + 1 : g[i] = a[2 + i - 1]
    <3> DEFINE m == n + 1
    <3>1. 2 \in Nat /\ m \in Nat /\ \A i \in 2 .. m : a[i] \in VisitType
      BY <1>1, <1>4
    <3>2. 2 <= m
      BY <1>1
    <3> HIDE DEF m
    <3>3. /\ Len(SubSeq(a, 2, m)) = (IF 2 <= m THEN m - 2 + 1 ELSE 0)
          /\ \A i \in 1 .. m - 2 + 1 : SubSeq(a, 2, m)[i] = a[2 + i - 1]
      BY <3>1, SubSeqProperties
    <3>4. /\ Len(g) = m - 2 + 1
          /\ \A i \in 1 .. m - 2 + 1 : g[i] = a[2 + i - 1]
      BY <2>1, <3>2, <3>3 DEF m
    <3> QED BY <1>1, <3>4 DEF m
  <2>3. Len(g) = Limit
    BY <1>1, <1>6, <2>2
  <2>4. \A i \in 1 .. Limit : g[i] = a[i + 1]
    <3>1. \A i \in 1 .. Limit : i \in 1 .. n + 1 - 2 + 1 /\ 2 + i - 1 = i + 1
      BY <1>1, <1>6
    <3> QED BY <2>2, <3>1
  <2>5. \A i \in 1 .. Limit - 1 : i \in 1 .. Limit /\ i + 1 \in 1 .. n
    BY <1>1, <1>6
  <2>6. Limit \in 1 .. Limit /\ Limit + 1 = n + 1
    BY <1>1, <1>6
  <2>7. g[Limit] = v
    BY <1>2, <2>4, <2>6
  <2>8. \A i \in 1 .. Limit - 1 : g[i] = r[i + 1]
    BY <1>2, <2>4, <2>5
  <2> QED BY <1>1, <1>6, <2>3, <2>7, <2>8 DEF a, g, n
<1> QED BY <1>1, <1>5, <1>6

\* Where the paths after an observation come from.
Slot(q, target, adopts) ==
    \/ \E p \in paths : q = ReconciledPath(p, phys')
    \/ \E c : /\ c.path \in paths /\ Witnessed(c)
              /\ q = ReconciledPath(AdvancedPath(c, target), phys')
    \/ \E u \in VisitType : q = ReconciledPath(NewPath(<<u, target>>), phys')
    \/ /\ q = ReconciledPath(NewPath(<<target>>), phys') /\ \E S : Admitted(target, S)
       /\ target.kind = "interaction" \/ (target.kind = "positive" /\ adopts)

LEMMA OutcomeSlots ==
    ASSUME Typed, Shaped, NEW target \in VisitType, NEW adopts, Outcome(target, adopts),
           NEW q \in paths'
    PROVE  Slot(q, target, adopts)
<1>1. paths \in SUBSET PathType
  BY DEF Typed
<1>2. CASE Emptied(target)
  BY <1>1, <1>2, EndsShaped DEF Emptied, Slot
<1>3. CASE \E c : Went(target, c)
  <2>1. PICK c : Went(target, c)
    BY <1>3
  <2> DEFINE P == (paths \ {c.path}) \cup {AdvancedPath(c, target)}
  <2>2. /\ c.path \in paths /\ Witnessed(c)
        /\ Ends(P, Recorded(Spent(sources, Last(c.prefix)), target, TRUE))
    BY <2>1 DEF Went
  <2>3. P \in SUBSET PathType
    BY <1>1, <2>2, AdvancedParts
  <2>4. PICK p \in P : q = ReconciledPath(p, phys')
    BY <2>2, <2>3, EndsShaped
  <2> QED BY <2>2, <2>4 DEF Slot
<1>4. CASE \E m \in OriginNodes(sources, target) :
               OriginVisit(m) \in VisitType /\ \E S : Paired(target, m, S)
  <2>1. PICK m \in OriginNodes(sources, target) :
            OriginVisit(m) \in VisitType /\ \E S : Paired(target, m, S)
    BY <1>4
  <2>0. PICK S : Paired(target, m, S)
    BY <2>1
  <2> DEFINE u == OriginVisit(m)
             P == S \cup {NewPath(<<u, target>>)}
  <2>2. P \in SUBSET PathType
    BY <1>1, <2>0, <2>1, NewTrails, NewPathParts DEF Paired, Kept
  <2>3. PICK p \in P : q = ReconciledPath(p, phys')
    BY <2>0, <2>2, EndsShaped DEF Paired
  <2>4. S \subseteq paths
    BY <2>0 DEF Paired, Kept
  <2> QED BY <2>1, <2>3, <2>4 DEF Slot
<1>5. CASE /\ \E S : Admitted(target, S)
           /\ target.kind = "interaction" \/ (target.kind = "positive" /\ adopts)
  <2>1. PICK S : Admitted(target, S)
    BY <1>5
  <2> DEFINE P == S \cup {NewPath(<<target>>)}
  <2>2. S \subseteq paths
    BY <2>1 DEF Admitted, Kept
  <2>3. P \in SUBSET PathType
    BY <1>1, <2>2, NewTrails, NewPathParts
  <2>4. PICK p \in P : q = ReconciledPath(p, phys')
    BY <2>1, <2>3, EndsShaped DEF Admitted
  <2> QED BY <1>5, <2>1, <2>2, <2>4 DEF Slot
<1>6. CASE Awaited(target)
  BY <1>1, <1>6, EndsShaped DEF Awaited, Slot
<1> QED BY <1>2, <1>3, <1>4, <1>5, <1>6 DEF Outcome

\* A path of one visit that no path before has is one that was admitted.
LEMMA SingleSeeded ==
    ASSUME Typed, Shaped, NEW target \in VisitType, NEW adopts, Outcome(target, adopts),
           NEW q \in paths', Len(q.visits) = 1, ~Located(Endpoint(q))
    PROVE  /\ \E S : Admitted(target, S)
           /\ target.kind = "interaction" \/ (target.kind = "positive" /\ adopts)
           /\ Endpoint(q).node = target.node /\ Endpoint(q).kind = target.kind
<1>1. Slot(q, target, adopts)
  BY OutcomeSlots
<1>2. ASSUME NEW p \in paths PROVE q # ReconciledPath(p, phys')
  <2>1. p \in PathType
    BY DEF Typed
  <2>2. Endpoint(p) \in Occurrences(p)
        /\ Id(Endpoint(ReconciledPath(p, phys'))) = Id(Endpoint(p))
    BY <2>1, OccurrenceParts, ReconciledFades, PathFadesParts
  <2> QED BY <2>2 DEF Located
<1>3. ASSUME NEW p \in PathType, q = ReconciledPath(p, phys') PROVE Len(p.visits) = 1
  BY <1>3, ReconciledFades DEF PathFades, Fades
<1>4. ASSUME NEW c, c.path \in paths, Witnessed(c)
      PROVE  q # ReconciledPath(AdvancedPath(c, target), phys')
  <2> DEFINE o == AdvancedPath(c, target)
             g == LastOf(Limit, Append(c.path.visits, target))
  <2>1. o \in PathType /\ PathFades(LongerOf(c, target), o)
    BY <1>4, AdvancedParts
  <2>2. LongerOf(c, target).visits = g
    BY <1>4, LongerParts
  <2>3. c.path.visits \in Trails
    BY <1>4, PathParts DEF Witnessed
  <2>4. Len(g) > 1
    <3>1. Len(c.path.visits) \in 1 .. Limit /\ Limit >= 3 /\ Limit \in Nat
      BY <2>3, Bounds DEF Trails
    <3>2. CASE Len(c.path.visits) < Limit
      BY <2>3, <3>1, <3>2, LongerItems
    <3>3. CASE Len(c.path.visits) = Limit
      BY <2>3, <3>1, <3>3, LongerItems
    <3> QED BY <3>1, <3>2, <3>3
  <2> HIDE DEF g, o
  <2>5. Len(o.visits) = Len(g)
    BY <2>1, <2>2 DEF PathFades, Fades
  <2>6. ASSUME q = ReconciledPath(o, phys') PROVE FALSE
    <3>1. Len(o.visits) = 1
      BY <1>3, <2>1, <2>6
    <3> QED BY <2>4, <2>5, <3>1
  <2> QED BY <2>6 DEF o
<1>5. ASSUME NEW u \in VisitType PROVE q # ReconciledPath(NewPath(<<u, target>>), phys')
  <2> DEFINE r == <<u, target>>
  <2>1. r \in Trails
    BY NewTrails
  <2>2. Len(r) = 2
    OBVIOUS
  <2> HIDE DEF r
  <2>3. NewPath(r) \in PathType /\ Len(NewPath(r).visits) = 2
    BY <2>1, <2>2, NewPathParts
  <2> QED BY <1>3, <2>3 DEF r
<1>6. /\ q = ReconciledPath(NewPath(<<target>>), phys') /\ \E S : Admitted(target, S)
      /\ target.kind = "interaction" \/ (target.kind = "positive" /\ adopts)
  BY <1>1, <1>2, <1>4, <1>5 DEF Slot
<1>7. Endpoint(q).node = target.node /\ Endpoint(q).kind = target.kind
  <2> DEFINE r == <<target>>
  <2>1. r \in Trails
    BY NewTrails
  <2>2. Len(r) = 1 /\ r[1] = target
    OBVIOUS
  <2> HIDE DEF r
  <2>3. Fades(r, q.route)
    BY <1>6, <2>1, CoverNew DEF r
  <2>4. q.route \in Trails /\ Len(q.route) = 1 /\ Dims(target, q.route[1])
    BY <2>2, <2>3 DEF Fades
  <2>5. Endpoint(q) = q.route[1]
    BY <2>4, TrailParts DEF Endpoint
  <2> QED BY <2>4, <2>5 DEF Dims
<1> QED BY <1>6, <1>7

LEMMA LocatedKept ==
    ASSUME Typed, NEW p \in paths, NEW q, q = ReconciledPath(p, phys')
    PROVE  Located(Endpoint(q))
<1>1. p \in PathType
  BY DEF Typed
<1>2. Endpoint(p) \in Occurrences(p) /\ Id(Endpoint(q)) = Id(Endpoint(p))
  BY <1>1, OccurrenceParts, ReconciledFades, PathFadesParts
<1> QED BY <1>2 DEF Located

\* Calls without an observation.
QuietCall ==
    \/ \E n \in Nodes : Release(n) \/ Return(n) \/ FrontierReopen(n) \/ FrontierLose(n)
    \/ FrontierStartup
    \/ \E settled \in SUBSET Nodes : FrontierAdvance(settled)

LEMMA QuietEnds ==
    ASSUME QuietCall PROVE Ends(paths, sources) /\ UNCHANGED count
<1>1. CASE \E n \in Nodes : Release(n) \/ Return(n) \/ FrontierReopen(n) \/ FrontierLose(n)
  <2>1. \E ph : PhysicalChange(ph)
    BY <1>1 DEF Release, Return, FrontierReopen, Reopen, FrontierLose, Lose
  <2> QED BY <2>1 DEF PhysicalChange, Ends
<1>2. CASE FrontierStartup
  BY <1>2 DEF FrontierStartup, Startup, PhysicalChange, Ends
<1>3. CASE \E settled \in SUBSET Nodes : FrontierAdvance(settled)
  BY <1>3 DEF FrontierAdvance, Advance, Ends
<1> QED BY <1>1, <1>2, <1>3 DEF QuietCall

\* The calls, apart.
LEMMA StepCases ==
    ASSUME Typed, FrontierNext
    PROVE  \/ \E n \in Nodes : \E s : Begins(n, s) /\ Observation(n, s)
           \/ QuietCall
           \/ \E k \in 0 .. MaxCount : FrontierCount(k)
<1>1. CASE \E n \in Nodes : FrontierPress(n) \/ FrontierPositive(n) \/ FrontierCorrelated(n)
  BY <1>1, ObservationBegins
<1> QED BY <1>1 DEF FrontierNext, QuietCall

SeededAlone(q) == Len(q.visits) = 1 /\ Endpoint(q).kind = "positive" /\ ~Located(Endpoint(q))

LEMMA ObservedSeeds ==
    ASSUME FInv, NEW n \in Nodes, NEW s, Begins(n, s), Observation(n, s),
           NEW q \in paths', SeededAlone(q)
    PROVE  AtBoundary(Endpoint(q).node)
<1> DEFINE target == TargetOf(n, s)
<1>1. Typed /\ Shaped /\ Len(q.visits) = 1 /\ Endpoint(q).kind = "positive"
      /\ ~Located(Endpoint(q))
  BY DEF FInv, SeededAlone
<1>2. target \in VisitType /\ target.node = n
  BY <1>1, TargetParts
<1>3. CASE Asked(n, s)
  <2>1. PICK adopts : Outcome(target, adopts)
    BY <1>1, <1>3, ObservedFrame DEF Asked
  <2>2. Endpoint(q).node = target.node /\ Endpoint(q).kind = target.kind
    BY <1>1, <1>2, <2>1, SingleSeeded
  <2>3. IF target.kind = "positive" /\ AtBoundary(n) THEN \E S : Admitted(target, S)
        ELSE Awaited(target)
    BY <1>3, AskedParts
  <2>4. CASE AtBoundary(n)
    BY <1>2, <2>2, <2>4
  <2>5. CASE ~AtBoundary(n)
    <3>1. Awaited(target)
      BY <2>3, <2>5
    <3>2. \E p \in paths : q = ReconciledPath(p, phys')
      BY <1>1, <3>1, EndsShaped DEF Awaited, Typed
    <3> QED BY <1>1, <3>2, LocatedKept
  <2> QED BY <2>4, <2>5
<1>4. CASE NotAsked(n, s) \/ EmptyHouse(n, s)
  <2>1. Outcome(target, FALSE)
    BY <1>1, <1>4, ObservedFrame DEF NotAsked, EmptyHouse
  <2>2. target.kind = "interaction" /\ Endpoint(q).kind = target.kind
    BY <1>1, <1>2, <2>1, SingleSeeded
  <2> QED BY <1>1, <2>2
<1> QED BY <1>3, <1>4 DEF Observation

LEMMA StepSeeds ==
    ASSUME FInv, FrontierNext, NEW q \in paths', SeededAlone(q)
    PROVE  AtBoundary(Endpoint(q).node)
<1>1. Typed /\ Shaped /\ ~Located(Endpoint(q))
  BY DEF FInv, SeededAlone
<1>2. CASE \E n \in Nodes : \E s : Begins(n, s) /\ Observation(n, s)
  BY <1>2, ObservedSeeds
<1>3. CASE QuietCall
  <2>1. \E p \in paths : q = ReconciledPath(p, phys')
    BY <1>1, <1>3, QuietEnds, EndsShaped DEF Typed
  <2> QED BY <1>1, <2>1, LocatedKept
<1>4. CASE \E k \in 0 .. MaxCount : FrontierCount(k)
  <2>1. q \in paths
    BY <1>1, <1>4, CountParts DEF FrontierCount
  <2>2. Endpoint(q) \in Occurrences(q)
    BY <1>1, <2>1, OccurrenceParts DEF Typed
  <2> QED BY <1>1, <2>1, <2>2 DEF Located
<1> QED BY <1>1, <1>2, <1>3, <1>4, StepCases

\* The authority of a generation that a path left behind seeds no other path:
\* a positive alone begins a path only at an entry, soon after the count rose
\* from zero.
THEOREM FrontierTokensSeedNothing == FrontierSpec => TokensSeedNothing
<1> DEFINE A == \A q \in paths' :
                    Len(q.visits) = 1 /\ Endpoint(q).kind = "positive" /\ ~Located(Endpoint(q)) =>
                        AtBoundary(Endpoint(q).node)
<1>1. FInv /\ [FrontierNext]_<<vars, frontier>> => [A]_<<vars, frontier>>
  BY StepSeeds DEF SeededAlone
<1> QED BY <1>1, FrontierHeld, PTL DEF FrontierSpec, TokensSeedNothing

-----------------------------------------------------------------------------
(* No more paths than slots. *)

Bounded == IsFiniteSet(paths) /\ Cardinality(paths) <= count

LEMMA ReconciledBounded ==
    ASSUME NEW P, IsFiniteSet(P), NEW k \in Nat, Cardinality(P) <= k, NEW ph
    PROVE  IsFiniteSet(Reconciled(P, ph)) /\ Cardinality(Reconciled(P, ph)) <= k
<1> DEFINE f == [p \in P |-> ReconciledPath(p, ph)]
           T == Reconciled(P, ph)
<1>1. f \in Surjection(P, T)
  BY DEF Surjection, Reconciled
<1> HIDE DEF f, T
<1>2. IsFiniteSet(T) /\ Cardinality(T) <= Cardinality(P)
  BY <1>1, FS_Surjection
<1>3. Cardinality(T) \in Nat /\ Cardinality(P) \in Nat
  BY <1>2, FS_CardinalityType
<1>4. Cardinality(T) <= k
  BY <1>2, <1>3
<1> QED BY <1>2, <1>4 DEF T

LEMMA EndsBounded ==
    ASSUME NEW P, IsFiniteSet(P), NEW k \in Nat, Cardinality(P) <= k, NEW srcs, Ends(P, srcs)
    PROVE  IsFiniteSet(paths') /\ Cardinality(paths') <= k
<1>1. paths' = Reconciled(P, phys')
  BY DEF Ends, Settle
<1> QED BY <1>1, ReconciledBounded

LEMMA KeptBounded ==
    ASSUME NEW P, IsFiniteSet(P), NEW k \in Nat, NEW S \in Kept(P, k)
    PROVE  S \subseteq P /\ IsFiniteSet(S) /\ Cardinality(S) \in Nat /\ Cardinality(S) <= k
<1>1. S \subseteq P /\ Cardinality(S) = IF Cardinality(P) < k THEN Cardinality(P) ELSE k
  BY DEF Kept
<1>2. IsFiniteSet(S) /\ Cardinality(P) \in Nat
  BY <1>1, FS_Subset, FS_CardinalityType
<1> QED BY <1>1, <1>2

\* A slot that is free, or was freed, takes a new path.
LEMMA InstalledBounded ==
    ASSUME Bounded, count \in Nat \ {0}, NEW S \in Kept(paths, count - 1), NEW q
    PROVE  /\ S \subseteq paths /\ IsFiniteSet(S \cup {q})
           /\ Cardinality(S \cup {q}) <= count
<1>1. count - 1 \in Nat
  OBVIOUS
<1>2. S \subseteq paths /\ IsFiniteSet(S) /\ Cardinality(S) \in Nat /\ Cardinality(S) <= count - 1
  BY <1>1, KeptBounded DEF Bounded
<1>3. /\ IsFiniteSet(S \cup {q})
      /\ Cardinality(S \cup {q}) = IF q \in S THEN Cardinality(S) ELSE Cardinality(S) + 1
  BY <1>2, FS_AddElement
<1> QED BY <1>2, <1>3

LEMMA ReplacedBounded ==
    ASSUME Bounded, count \in Nat, NEW p \in paths, NEW q
    PROVE  /\ IsFiniteSet((paths \ {p}) \cup {q})
           /\ Cardinality((paths \ {p}) \cup {q}) <= count
<1> DEFINE R == paths \ {p}
<1>1. IsFiniteSet(R) /\ Cardinality(R) = Cardinality(paths) - 1
  BY FS_RemoveElement DEF Bounded
<1>2. Cardinality(R) \in Nat /\ Cardinality(paths) \in Nat /\ Cardinality(paths) <= count
  BY <1>1, FS_CardinalityType DEF Bounded
<1> HIDE DEF R
<1>3. /\ IsFiniteSet(R \cup {q})
      /\ Cardinality(R \cup {q}) = IF q \in R THEN Cardinality(R) ELSE Cardinality(R) + 1
  BY <1>1, FS_AddElement
<1>4. Cardinality(R \cup {q}) <= count
  BY <1>1, <1>2, <1>3
<1> QED BY <1>3, <1>4 DEF R

LEMMA OutcomeBounded ==
    ASSUME Typed, Bounded, NEW target, NEW adopts, Outcome(target, adopts), UNCHANGED count
    PROVE  Bounded'
<1>1. count \in Nat
  BY Bounds DEF Typed
<1>2. ASSUME NEW P, IsFiniteSet(P), Cardinality(P) <= count, NEW srcs, Ends(P, srcs)
      PROVE  Bounded'
  BY <1>1, <1>2, EndsBounded DEF Bounded
<1>3. CASE Emptied(target) \/ Awaited(target)
  BY <1>2, <1>3 DEF Emptied, Awaited, Bounded
<1>4. CASE \E c : Went(target, c)
  BY <1>1, <1>2, <1>4, ReplacedBounded DEF Went
<1>5. CASE count # 0 /\ \E m, S : Paired(target, m, S)
  BY <1>1, <1>2, <1>5, InstalledBounded DEF Paired
<1>6. CASE count # 0 /\ \E S : Admitted(target, S)
  BY <1>1, <1>2, <1>6, InstalledBounded DEF Admitted
<1> QED BY <1>3, <1>4, <1>5, <1>6 DEF Outcome

LEMMA ObservationOutcome ==
    ASSUME Typed, Shaped, NEW n \in Nodes, NEW s, Begins(n, s), Observation(n, s)
    PROVE  \E adopts : Outcome(TargetOf(n, s), adopts) /\ ObserveEffect(n, s, adopts)
<1>1. \E adopts : ObserveEffect(n, s, adopts)
  BY DEF Observation, Asked, NotAsked, EmptyHouse
<1> QED BY <1>1, ObservedFrame

LEMMA StepBounded ==
    ASSUME FInv, Bounded, FrontierNext PROVE Bounded'
<1>1. Typed /\ Shaped /\ count \in Nat
  BY Bounds DEF FInv, Typed
<1>2. CASE \E n \in Nodes : \E s : Begins(n, s) /\ Observation(n, s)
  <2>0. PICK n \in Nodes : \E s : Begins(n, s) /\ Observation(n, s)
    BY <1>2
  <2>1. PICK s : Begins(n, s) /\ Observation(n, s)
    BY <2>0
  <2>2. PICK adopts : Outcome(TargetOf(n, s), adopts) /\ ObserveEffect(n, s, adopts)
    BY <1>1, <2>1, ObservationOutcome
  <2>3. UNCHANGED count
    BY <2>2 DEF ObserveEffect
  <2> QED BY <1>1, <2>2, <2>3, OutcomeBounded
<1>3. CASE QuietCall
  BY <1>1, <1>3, QuietEnds, EndsBounded DEF Bounded
<1>4. CASE \E k \in 0 .. MaxCount : FrontierCount(k)
  <2>1. PICK k \in 0 .. MaxCount : SetCount(k)
    BY <1>4 DEF FrontierCount
  <2>2. paths' \in Kept(paths, k) /\ count' = k /\ k \in Nat
    BY <1>1, <2>1, CountParts, Bounds
  <2> QED BY <2>2, KeptBounded DEF Bounded
<1> QED BY <1>1, <1>2, <1>3, <1>4, StepCases

-----------------------------------------------------------------------------
(* One person who walks from sensor to sensor. *)

\* The person stands where the one path ends, and the path can go on from there.
Followed ==
    /\ walker = "nowhere" => paths = {}
    /\ walker # "unknown" => \A p, q \in paths : p = q
    /\ walker \notin {"nowhere", "unknown"} =>
           \A p \in paths : Endpoint(p).node = walker /\ p.eligible

WInv == FInv /\ Bounded /\ Followed

\* The node that begins a generation is the only one that does.
LEMMA BegunOne ==
    ASSUME Typed, NEW n \in Nodes, NEW s, Begins(n, s),
           \A m \in Nodes : m # n => phys'[m] = phys[m], phys'[n] = s
    PROVE  Begun = {n}
<1>1. \A m \in Nodes : phys[m].gen \in Nat
  BY DEF Typed, NodeState
<1>2. phys'[n].gen > phys[n].gen
  BY <1>1 DEF Begins, Newer
<1>3. \A m \in Nodes : m # n => ~(phys'[m].gen > phys[m].gen)
  BY <1>1
<1> QED BY <1>2, <1>3 DEF Begun

\* An observation that the person caused continues the path, if there is one.
LEMMA WalkContinues ==
    ASSUME Typed, Shaped, Followed, walker # "unknown", NEW target, Walked(target.node),
           Continuations(paths, target, phys) = {}
    PROVE  paths = {}
<1>1. CASE walker = "nowhere"
  BY <1>1 DEF Followed
<1>2. CASE walker # "nowhere"
  <2>1. ASSUME NEW p \in paths PROVE FALSE
    <3>1. Endpoint(p).node = walker /\ p.eligible /\ Step(walker, target.node)
      BY <1>2 DEF Followed, Walked
    <3>2. paths \in SUBSET PathType /\ \A q \in paths : Shape(q, phys)
      BY DEF Typed, Shaped
    <3>3. EndpointUsable(p, target, phys)
      BY <3>1, <3>2 DEF EndpointUsable, Shape
    <3>4. Endpoint(p) \in Coverage(p)
      <4>1. p \in PathType
        BY <3>2
      <4>2. Endpoint(p) \in ToSet(p.route)
        BY <4>1, OccurrenceParts
      <4> QED BY <4>2 DEF Coverage, Authoritative
    <3> QED BY <3>1, <3>2, <3>3, <3>4, CoveredContinues
  <2> QED BY <2>1
<1> QED BY <1>1, <1>2

\* The path of an observation that has just begun can go on.
LEMMA TargetLive ==
    ASSUME Typed, NEW n \in Nodes, NEW s, Begins(n, s), phys'[n] = s
    PROVE  EndpointLive(TargetOf(n, s), phys')
<1>1. TargetOf(n, s).node = n /\ TargetOf(n, s).gen = s.gen
  BY TargetParts
<1>2. s.status \notin {"baseline", "unavailable"}
  BY DEF Begins
<1> QED BY <1>1, <1>2 DEF EndpointLive, SameGeneration

LEMMA OutcomeFollowed ==
    ASSUME Typed, Shaped, Bounded, Followed, walker # "unknown", NEW target \in VisitType,
           Walked(target.node), NEW adopts, Outcome(target, adopts), EndpointLive(target, phys')
    PROVE  /\ \A p, q \in paths' : p = q
           /\ \A p \in paths' : Endpoint(p).node = target.node /\ p.eligible
<1>1. paths \in SUBSET PathType /\ \A p \in paths : Shape(p, phys)
  BY DEF Typed, Shaped
<1>2. ASSUME NEW o \in PathType, NEW srcs, Ends({o}, srcs),
             Id(Endpoint(ReconciledPath(o, phys'))) = Id(target),
             ReconciledPath(o, phys').eligible
      PROVE  /\ \A p, q \in paths' : p = q
             /\ \A p \in paths' : Endpoint(p).node = target.node /\ p.eligible
  <2>1. \A q \in paths' : q = ReconciledPath(o, phys')
    BY <1>2, EndsShaped
  <2>2. Endpoint(ReconciledPath(o, phys')).node = target.node
    BY <1>2 DEF Id
  <2> QED BY <1>2, <2>1, <2>2
<1>3. ASSUME NEW r \in Trails, Last(r) = target, NEW S, S \subseteq paths, NEW srcs,
             Ends(S \cup {NewPath(r)}, srcs), Continuations(paths, target, phys) = {}
      PROVE  /\ \A p, q \in paths' : p = q
             /\ \A p \in paths' : Endpoint(p).node = target.node /\ p.eligible
  <2> DEFINE o == NewPath(r)
  <2>1. S \cup {o} = {o}
    BY <1>3, WalkContinues
  <2>2. Id(Endpoint(ReconciledPath(o, phys'))) = Id(target) /\ ReconciledPath(o, phys').eligible
    BY <1>3, CoverNew
  <2>3. o \in PathType
    BY NewPathParts
  <2> HIDE DEF o
  <2> QED BY <1>2, <1>3, <2>1, <2>2, <2>3 DEF o
<1>4. ASSUME NEW srcs, Ends({}, srcs)
      PROVE  /\ \A p, q \in paths' : p = q
             /\ \A p \in paths' : Endpoint(p).node = target.node /\ p.eligible
  BY <1>4 DEF Ends, Settle, Reconciled
<1>5. CASE Emptied(target)
  <2>1. paths = {}
    <3>1. Cardinality(paths) \in Nat /\ Cardinality(paths) <= 0 /\ IsFiniteSet(paths)
      BY <1>5, FS_CardinalityType DEF Emptied, Bounded
    <3>2. Cardinality(paths) = 0
      BY <3>1
    <3> QED BY <3>1, <3>2, FS_EmptySet
  <2> QED BY <1>4, <1>5, <2>1 DEF Emptied
<1>6. CASE \E c : Went(target, c)
  <2>1. PICK c : Went(target, c)
    BY <1>6
  <2> DEFINE o == AdvancedPath(c, target)
  <2>2. c.path \in paths /\ Witnessed(c)
    BY <2>1 DEF Went
  <2>3. (paths \ {c.path}) \cup {o} = {o}
    BY <2>2 DEF Followed
  <2>4. o \in PathType
    BY <2>2, AdvancedParts
  <2>5. Id(Endpoint(ReconciledPath(o, phys'))) = Id(target) /\ ReconciledPath(o, phys').eligible
    BY <1>1, <2>2, CoverAdvanced
  <2>6. Ends({o}, Recorded(Spent(sources, Last(c.prefix)), target, TRUE))
    BY <2>1, <2>3 DEF Went
  <2> HIDE DEF o
  <2> QED BY <1>2, <2>4, <2>5, <2>6
<1>7. CASE /\ Continuations(paths, target, phys) = {}
           /\ \E m : OriginVisit(m) \in VisitType /\ \E S : Paired(target, m, S)
  <2>1. PICK m, S : OriginVisit(m) \in VisitType /\ Paired(target, m, S)
    BY <1>7
  <2> DEFINE r == <<OriginVisit(m), target>>
  <2>2. r \in Trails /\ Last(r) = target
    BY <2>1, NewTrails DEF Last
  <2>3. S \subseteq paths
    BY <2>1 DEF Paired, Kept
  <2>4. Ends(S \cup {NewPath(r)}, Recorded([sources EXCEPT ![m].consumed = TRUE], target, TRUE))
    BY <2>1 DEF Paired
  <2> HIDE DEF r
  <2> QED BY <1>3, <1>7, <2>2, <2>3, <2>4
<1>8. CASE Unexplained(target) /\ \E S : Admitted(target, S)
  <2>1. PICK S : Admitted(target, S)
    BY <1>8
  <2> DEFINE r == <<target>>
  <2>2. r \in Trails /\ Last(r) = target
    BY NewTrails DEF Last
  <2>3. S \subseteq paths
    BY <2>1 DEF Admitted, Kept
  <2>4. Ends(S \cup {NewPath(r)}, Recorded(sources, target, TRUE))
    BY <2>1 DEF Admitted
  <2>5. Continuations(paths, target, phys) = {}
    BY <1>8 DEF Unexplained
  <2> HIDE DEF r
  <2> QED BY <1>3, <2>2, <2>3, <2>4, <2>5
<1>9. CASE Unexplained(target) /\ Awaited(target)
  BY <1>4, <1>9, WalkContinues DEF Unexplained, Awaited
<1> QED BY <1>5, <1>6, <1>7, <1>8, <1>9 DEF Outcome

\* Without an observation no sensor begins a generation that is accounted for.
LEMMA QuietGrows ==
    ASSUME Typed, Typed', QuietCall
    PROVE  /\ \A n \in Nodes : phys[n].gen <= phys'[n].gen
           /\ \A n \in Nodes : Same(phys[n], phys'[n])
           /\ Observed = {}
<1>1. \A n \in Nodes : Same(phys[n], phys'[n])
  <2>1. ASSUME NEW n \in Nodes, NEW s, Same(phys[n], s), PhysicalChange([phys EXCEPT ![n] = s])
        PROVE  \A m \in Nodes : Same(phys[m], phys'[m])
    BY <2>1, OneQuiet, SameNode DEF Typed
  <2>2. CASE \E n \in Nodes : Release(n) \/ Return(n) \/ FrontierReopen(n) \/ FrontierLose(n)
    <3>1. PICK n \in Nodes : Release(n) \/ Return(n) \/ FrontierReopen(n) \/ FrontierLose(n)
      BY <2>2
    <3>2. phys[n] \in NodeState
      BY DEF Typed
    <3>3. \E s : Same(phys[n], s) /\ PhysicalChange([phys EXCEPT ![n] = s])
      BY <3>1, <3>2, SameNode DEF Release, Return, FrontierReopen, Reopen, FrontierLose, Lose
    <3> QED BY <2>1, <3>3
  <2>3. CASE FrontierStartup
    <3>1. Startup
      BY <2>3 DEF FrontierStartup
    <3> QED BY <3>1, StartupGrows
  <2>4. CASE \E settled \in SUBSET Nodes : FrontierAdvance(settled)
    <3>1. PICK settled \in SUBSET Nodes : Advance(settled)
      BY <2>4 DEF FrontierAdvance
    <3>2. \A n \in Nodes : phys[n] \in NodeState
      BY DEF Typed
    <3> QED BY <3>1, <3>2, SameNode DEF Advance
  <2> QED BY <2>2, <2>3, <2>4 DEF QuietCall
<1>2. \A n \in Nodes : phys[n].gen <= phys'[n].gen
  BY <1>1 DEF Same
<1>3. ASSUME NEW n \in Nodes, phys'[n].gen > phys[n].gen PROVE sources'[n].gen # phys'[n].gen
  <2>1. sources' = ReconciledSources(sources, phys')
    BY QuietEnds DEF Ends, Settle
  <2>2. sources'[n].gen = sources[n].gen
    BY <2>1, ReconciledWears DEF Wears, Typed, SourcesOK
  <2>3. /\ sources[n].gen <= phys[n].gen /\ sources[n].gen \in Nat /\ phys[n].gen \in Nat
        /\ phys'[n].gen \in Nat
    BY DEF Typed, SourcesOK, SourceType, NodeState
  <2> QED BY <1>3, <2>2, <2>3
<1>4. Observed = {}
  BY <1>3 DEF Observed, Begun
<1> QED BY <1>1, <1>2, <1>4

\* A path that only fades goes on while its sensors work and none begins again.
LEMMA FadedFollowed ==
    ASSUME Typed, Shaped, Ends(paths, sources), ~Failed,
           \A n \in Nodes : phys'[n].gen = phys[n].gen, NEW q \in paths'
    PROVE  \E p \in paths : /\ q = ReconciledPath(p, phys')
                            /\ Endpoint(q).node = Endpoint(p).node
                            /\ p.eligible => q.eligible
<1>1. paths \in SUBSET PathType /\ \A p \in paths : Shape(p, phys)
  BY DEF Typed, Shaped
<1>2. PICK p \in paths : q = ReconciledPath(p, phys')
  BY <1>1, EndsShaped
<1> DEFINE v == Endpoint(p)
<1>3. p \in PathType /\ v \in VisitType /\ Id(Endpoint(q)) = Id(v)
  BY <1>1, <1>2, OccurrenceParts, ReconciledFades, PathFadesParts
<1>4. q.eligible = (p.eligible /\ EndpointLive(v, phys'))
  BY <1>2, <1>3 DEF ReconciledPath, Normalized, NormalizedWith, PathType
<1>5. p.eligible => EndpointLive(v, phys)
  BY <1>1 DEF Shape
<1> HIDE DEF v
<1>6. EndpointLive(v, phys) => EndpointLive(v, phys')
  <2>1. v.node \in Nodes /\ v.gen \in Nat \ {0}
    BY <1>3, VisitParts
  <2>2. phys'[v.node].gen > 0 => phys'[v.node].status \notin {"unavailable", "baseline"}
    BY <2>1 DEF Failed
  <2>3. phys'[v.node].gen = phys[v.node].gen
    BY <2>1
  <2> QED BY <2>1, <2>2, <2>3 DEF EndpointLive, SameGeneration
<1>7. Endpoint(q).node = v.node
  BY <1>3 DEF Id
<1>8. p.eligible => q.eligible
  BY <1>4, <1>5, <1>6
<1> QED BY <1>2, <1>7, <1>8 DEF v

LEMMA StepFollowed ==
    ASSUME FInv, FInv', Bounded, Followed, HNext PROVE Followed'
<1>1. Typed /\ Typed' /\ Shaped /\ FrontierNext
  BY DEF FInv, HNext
<1>2. walker' = IF Failed \/ Begun # Observed THEN "unknown"
                ELSE IF Begun = {} THEN walker
                ELSE IF \A n \in Begun : Walked(n) THEN CHOOSE n \in Begun : TRUE
                ELSE "unknown"
  BY DEF HNext
<1>3. CASE walker' = "unknown"
  <2>1. "unknown" # "nowhere"
    OBVIOUS
  <2> QED BY <1>3, <2>1 DEF Followed
<1>4. CASE walker' # "unknown"
  <2>1. ~Failed /\ Begun = Observed /\ walker # "unknown"
    BY <1>2, <1>4 DEF Failed
  <2>2. CASE \E n \in Nodes : \E s : Begins(n, s) /\ Observation(n, s)
    <3>0. PICK n \in Nodes : \E s : Begins(n, s) /\ Observation(n, s)
      BY <2>2
    <3>1. PICK s : Begins(n, s) /\ Observation(n, s)
      BY <3>0
    <3> DEFINE target == TargetOf(n, s)
    <3>2. PICK adopts : Outcome(target, adopts) /\ ObserveEffect(n, s, adopts)
      BY <1>1, <3>1, ObservationOutcome
    <3>3. (\A m \in Nodes : m # n => phys'[m] = phys[m]) /\ phys'[n] = s
      BY <1>1, <3>1, <3>2, ObservedFrame
    <3>4. Begun = {n}
      BY <1>1, <3>1, <3>3, BegunOne
    <3>5. Walked(n) /\ walker' = n
      BY <1>2, <1>4, <2>1, <3>4
    <3>6. target \in VisitType /\ target.node = n /\ EndpointLive(target, phys')
      BY <1>1, <3>1, <3>3, TargetParts, TargetLive
    <3> HIDE DEF target
    <3>7. /\ \A p, q \in paths' : p = q
          /\ \A p \in paths' : Endpoint(p).node = target.node /\ p.eligible
      BY <1>1, <2>1, <3>2, <3>5, <3>6, OutcomeFollowed
    <3>8. walker' # "nowhere"
      BY <3>5, WalkerAssumption
    <3> QED BY <3>5, <3>6, <3>7, <3>8 DEF Followed
  <2>3. CASE QuietCall
    <3>1. (\A n \in Nodes : phys[n].gen <= phys'[n].gen) /\ Begun = {}
      BY <1>1, <2>1, <2>3, QuietGrows
    <3>2. \A n \in Nodes : phys'[n].gen = phys[n].gen
      <4>1. \A n \in Nodes : phys[n].gen \in Nat /\ phys'[n].gen \in Nat
        BY <1>1 DEF Typed, NodeState
      <4>2. \A n \in Nodes : ~(phys'[n].gen > phys[n].gen)
        BY <3>1 DEF Begun
      <4> QED BY <3>1, <4>1, <4>2
    <3>3. walker' = walker
      BY <1>2, <2>1, <3>1
    <3>4. ASSUME NEW q \in paths'
          PROVE  \E p \in paths : /\ q = ReconciledPath(p, phys')
                                  /\ Endpoint(q).node = Endpoint(p).node
                                  /\ p.eligible => q.eligible
      BY <1>1, <2>1, <2>3, <3>2, QuietEnds, FadedFollowed
    <3>5. walker = "nowhere" => paths' = {}
      BY <3>4 DEF Followed
    <3>6. \A p, q \in paths' : p = q
      BY <2>1, <3>4 DEF Followed
    <3>7. walker \notin {"nowhere", "unknown"} =>
              \A q \in paths' : Endpoint(q).node = walker /\ q.eligible
      BY <3>4 DEF Followed
    <3> QED BY <3>3, <3>5, <3>6, <3>7 DEF Followed
  <2>4. CASE \E k \in 0 .. MaxCount : FrontierCount(k)
    <3>1. PICK k \in 0 .. MaxCount : SetCount(k)
      BY <2>4 DEF FrontierCount
    <3>2. paths' \subseteq paths /\ \A n \in Nodes : phys'[n].gen = phys[n].gen
      BY <1>1, <3>1, CountParts
    <3>3. Begun = {}
      <4>1. \A n \in Nodes : phys[n].gen \in Nat
        BY <1>1 DEF Typed, NodeState
      <4> QED BY <3>2, <4>1 DEF Begun
    <3>4. walker' = walker
      BY <1>2, <2>1, <3>3
    <3> QED BY <3>2, <3>4 DEF Followed
  <2> QED BY <1>1, <2>2, <2>3, <2>4, StepCases
<1> QED BY <1>3, <1>4

\* One person walking from sensor to sensor is never located twice, whatever
\* the sensors do in between and however the expected count changes.
THEOREM WalkerOnePath == HSpec => []OneWalkerOnePath
<1>1. HInit => WInv
  <2>1. ASSUME HInit PROVE WInv
    <3>1. FrontierInit /\ paths = {} /\ count = 0 /\ walker = "nowhere"
      BY <2>1 DEF HInit, FrontierInit, Init
    <3>2. Typed
      BY <3>1, InitTyped
    <3>3. FInv
      BY <3>1, <3>2, InitHeld DEF FInv
    <3>4. Bounded
      BY <3>1, FS_EmptySet DEF Bounded
    <3>5. Followed
      BY <3>1 DEF Followed
    <3> QED BY <3>3, <3>4, <3>5 DEF WInv
  <2> QED BY <2>1
<1>2. WInv /\ [HNext]_<<vars, frontier, walker>> => WInv'
  <2>1. ASSUME WInv, HNext PROVE WInv'
    <3>1. FInv'
      BY <2>1, StepHeld DEF WInv, HNext
    <3> QED BY <2>1, <3>1, StepBounded, StepFollowed DEF WInv, HNext
  <2>2. ASSUME WInv, UNCHANGED <<vars, frontier, walker>> PROVE WInv'
    <3>1. FInv'
      BY <2>2, StutterHeld DEF WInv
    <3>2. Bounded' /\ Followed'
      BY <2>2 DEF WInv, Bounded, Followed, vars
    <3> QED BY <3>1, <3>2 DEF WInv
  <2> QED BY <2>1, <2>2
<1>3. WInv => OneWalkerOnePath
  <2>1. ASSUME WInv, walker # "unknown" PROVE Cardinality(paths) <= 1
    <3>1. \A p, q \in paths : p = q
      BY <2>1 DEF WInv, Followed
    <3>2. CASE paths = {}
      BY <3>2, FS_EmptySet
    <3>3. CASE paths # {}
      <4>1. PICK p \in paths : paths = {p}
        BY <3>1, <3>3
      <4>2. Cardinality({p}) = 1
        BY FS_Singleton
      <4> QED BY <4>1, <4>2
    <3> QED BY <3>2, <3>3
  <2> QED BY <2>1 DEF OneWalkerOnePath
<1> QED BY <1>1, <1>2, <1>3, PTL DEF HSpec

-----------------------------------------------------------------------------
(* What a snapshot of the paths has to be. *)

Rows(p) == {p.route} \cup p.branches
Rising(r) == \A i, j \in 1 .. Len(r) : i < j => r[i].at <= r[j].at
Stepped(r) == \A i \in 1 .. Len(r) - 1 : Step(r[i].node, r[i + 1].node)
Parented(r, s) ==
    \A i \in 1 .. Len(r) - 1, j \in 1 .. Len(s) - 1 :
        Id(r[i + 1]) = Id(s[j + 1]) => Id(r[i]) = Id(s[j])
SeenAt(r, t) == \E i \in 1 .. Len(r) : r[i].at = t
Tipped(p) == \A w, x \in p.branches : Id(Last(w)) = Id(Last(x)) => w = x

\* What a path keeps whatever the physical states do to its authority.
Whole(p) ==
    /\ Id(Last(p.visits)) = Id(Endpoint(p))
    /\ \A r \in Records(p) : Rising(r) /\ Len(r) <= Len(p.visits)
    /\ \A r \in Rows(p) : Stepped(r) /\ \A s \in Rows(p) : Parented(r, s)
    /\ p.spatialAt <= UpdatedAt(p)
    /\ Len(p.visits) < Limit \/ p.spatialAt >= p.visits[1].at => SeenAt(p.visits, p.spatialAt)
    /\ Len(p.visits) < Limit => p.visits[1].kind # "correlated_positive"
    /\ p.confirmed => Len(p.visits) >= 3
    /\ Tipped(p)

All(P) == UNION {Occurrences(p) : p \in P}

\* The copies of an observation agree, and generations follow one another.
Twin(u, v) ==
    u.node = v.node => /\ u.gen = v.gen => u.at = v.at /\ u.kind = v.kind
                       /\ u.gen < v.gen => u.at <= v.at
Coherent(P) == \A u, v \in All(P) : Twin(u, v)

Apart(P) ==
    \A p, q \in P : p # q => \A u \in Occurrences(p), v \in Occurrences(q) : Id(u) # Id(v)

\* The ledger accounts for a visit.
Entered(srcs, v) ==
    LET src == srcs[v.node]
    IN  /\ src.origin # "none" /\ v.gen <= src.gen /\ v.at <= src.at
        /\ v.gen = src.gen => src.consumed /\ src.origin = OriginOf(v.kind)

\* An order in which the observations were made.
Ascends(f, r) == \A i, j \in 1 .. Len(r) : i < j => f[Id(r[i])] < f[Id(r[j])]
Ranks(f, P) ==
    /\ \A p \in P : \A r \in Records(p) : Ascends(f, r)
    /\ \A u, v \in All(P) : u.node = v.node /\ u.gen < v.gen => f[Id(u)] < f[Id(v)]
Ranked(P) ==
    \E f \in [Nodes \X Nat -> Nat], k \in Nat :
        Ranks(f, P) /\ \A v \in All(P) : f[Id(v)] < k

\* A path that only lost authority.
Withdraws(p, q) ==
    /\ PathFades(p, q) /\ q.spatialAt = p.spatialAt /\ q.confirmed = p.confirmed
    /\ Tipped(p) => Tipped(q)

\* The same observation, whatever its authority.
Alike(u, v) ==
    /\ v \in VisitType /\ v.node = u.node /\ v.gen = u.gen /\ Id(v) = Id(u)
    /\ v.at = u.at /\ v.kind = u.kind

LEMMA WithdrawsParts ==
    ASSUME NEW p \in PathType, NEW q, Withdraws(p, q)
    PROVE  /\ q \in PathType
           /\ \A g \in Records(q) : \E r \in Records(p) : Fades(r, g)
           /\ \A g \in Rows(q) : \E r \in Rows(p) : Fades(r, g)
           /\ \A v \in Occurrences(q) : \E u \in Occurrences(p) : Alike(u, v)
<1>1. q \in PathType /\ Fades(p.visits, q.visits) /\ Fades(p.route, q.route)
      /\ \A w \in q.branches : \E x \in p.branches : Fades(x, w)
  BY DEF Withdraws, PathFades
<1>2. \A g \in Rows(q) : \E r \in Rows(p) : Fades(r, g)
  BY <1>1 DEF Rows
<1>3. \A g \in Records(q) : \E r \in Records(p) : Fades(r, g)
  BY <1>1 DEF Records
<1>4. ASSUME NEW v \in Occurrences(q) PROVE \E u \in Occurrences(p) : Alike(u, v)
  <2>1. PICK g \in Records(q) : v \in ToSet(g)
    BY DEF Occurrences
  <2>2. PICK r \in Records(p) : Fades(r, g)
    BY <1>3
  <2>3. r \in Trails /\ g \in Trails /\ Len(g) = Len(r)
        /\ \A i \in 1 .. Len(r) : Dims(r[i], g[i])
    BY <2>2, PathParts DEF Records, Fades
  <2>4. PICK i \in 1 .. Len(r) : v = g[i]
    BY <2>1, <2>3, TrailParts
  <2>5. r[i] \in Occurrences(p)
    BY <2>2, <2>3, TrailParts DEF Occurrences
  <2>6. Alike(r[i], v)
    BY <2>3, <2>4 DEF Dims, Alike
  <2> QED BY <2>5, <2>6
<1> QED BY <1>1, <1>2, <1>3, <1>4

LEMMA WithdrawsAll ==
    ASSUME NEW p, NEW q, NEW s, Withdraws(p, q), Withdraws(q, s) PROVE Withdraws(p, s)
BY PathFadesAll DEF Withdraws

\* Rows that fade keep what does not depend on their authority.
LEMMA RisingFades ==
    ASSUME NEW r \in Trails, NEW g, Fades(r, g)
    PROVE  /\ Rising(r) => Rising(g)
           /\ Stepped(r) => Stepped(g)
           /\ \A t : SeenAt(r, t) => SeenAt(g, t)
<1>1. Len(r) \in Nat /\ Len(g) = Len(r) /\ \A i \in 1 .. Len(r) : Dims(r[i], g[i])
  BY TrailParts DEF Fades
<1>2. \A i \in 1 .. Len(r) : g[i].at = r[i].at /\ g[i].node = r[i].node
  BY <1>1 DEF Dims
<1>3. Rising(r) => Rising(g)
  BY <1>1, <1>2 DEF Rising
<1>4. \A i \in 1 .. Len(r) - 1 : i \in 1 .. Len(r) /\ i + 1 \in 1 .. Len(r)
  BY <1>1
<1>5. Stepped(r) => Stepped(g)
  BY <1>1, <1>2, <1>4 DEF Stepped
<1>6. \A t : SeenAt(r, t) => SeenAt(g, t)
  BY <1>1, <1>2 DEF SeenAt
<1> QED BY <1>3, <1>5, <1>6

LEMMA ParentedFades ==
    ASSUME NEW r \in Trails, NEW g, Fades(r, g), NEW s \in Trails, NEW h, Fades(s, h),
           Parented(r, s)
    PROVE  Parented(g, h)
<1>1. /\ Len(r) \in Nat /\ Len(g) = Len(r) /\ \A i \in 1 .. Len(r) : Id(g[i]) = Id(r[i])
      /\ Len(s) \in Nat /\ Len(h) = Len(s) /\ \A i \in 1 .. Len(s) : Id(h[i]) = Id(s[i])
  BY TrailParts DEF Fades, Dims
<1>2. /\ \A i \in 1 .. Len(r) - 1 : i \in 1 .. Len(r) /\ i + 1 \in 1 .. Len(r)
      /\ \A i \in 1 .. Len(s) - 1 : i \in 1 .. Len(s) /\ i + 1 \in 1 .. Len(s)
  BY <1>1
<1>3. ASSUME NEW i \in 1 .. Len(g) - 1, NEW j \in 1 .. Len(h) - 1, Id(g[i + 1]) = Id(h[j + 1])
      PROVE  Id(g[i]) = Id(h[j])
  <2>1. i \in 1 .. Len(r) - 1 /\ j \in 1 .. Len(s) - 1
    BY <1>1
  <2>2. /\ Id(g[i]) = Id(r[i]) /\ Id(g[i + 1]) = Id(r[i + 1])
        /\ Id(h[j]) = Id(s[j]) /\ Id(h[j + 1]) = Id(s[j + 1])
    BY <1>1, <1>2, <2>1
  <2>3. Id(r[i + 1]) = Id(s[j + 1]) => Id(r[i]) = Id(s[j])
    BY <2>1 DEF Parented
  <2> QED BY <1>3, <2>2, <2>3
<1> QED BY <1>3 DEF Parented

LEMMA WholeFades ==
    ASSUME NEW p \in PathType, Whole(p), NEW q, Withdraws(p, q) PROVE Whole(q)
<1>1. /\ q \in PathType /\ PathFades(p, q) /\ Fades(p.visits, q.visits)
      /\ q.spatialAt = p.spatialAt /\ q.confirmed = p.confirmed /\ Tipped(q)
  BY DEF Withdraws, PathFades, Whole
<1>2. /\ p.visits \in Trails /\ p.route \in Trails /\ q.visits \in Trails
      /\ p.branches \subseteq Trails /\ Len(q.visits) = Len(p.visits)
      /\ \A i \in 1 .. Len(p.visits) : Dims(p.visits[i], q.visits[i])
  BY <1>1, PathParts DEF Fades
<1>3. 1 \in 1 .. Len(p.visits) /\ Len(p.visits) \in 1 .. Len(p.visits)
      /\ Last(p.visits) = p.visits[Len(p.visits)] /\ Last(q.visits) = q.visits[Len(p.visits)]
  BY <1>2, TrailParts
<1>4. /\ q.visits[1].at = p.visits[1].at /\ q.visits[1].kind = p.visits[1].kind
      /\ Id(Last(q.visits)) = Id(Last(p.visits)) /\ UpdatedAt(q) = UpdatedAt(p)
  BY <1>2, <1>3 DEF Dims, UpdatedAt
<1>5. Id(Endpoint(q)) = Id(Endpoint(p))
  BY <1>1, PathFadesParts
<1>6. ASSUME NEW g \in Records(q) PROVE Rising(g) /\ Len(g) <= Len(q.visits)
  <2>1. PICK r \in Records(p) : Fades(r, g)
    BY WithdrawsParts
  <2>2. r \in Trails /\ Rising(r) /\ Len(r) <= Len(p.visits) /\ Len(g) = Len(r)
    BY <1>2, <2>1 DEF Records, Whole, Fades
  <2> QED BY <1>2, <2>1, <2>2, RisingFades
<1>7. ASSUME NEW g \in Rows(q) PROVE Stepped(g) /\ \A h \in Rows(q) : Parented(g, h)
  <2>1. PICK r \in Rows(p) : Fades(r, g)
    BY WithdrawsParts
  <2>2. r \in Trails /\ Stepped(r)
    BY <1>2, <2>1 DEF Rows, Whole
  <2>3. ASSUME NEW h \in Rows(q) PROVE Parented(g, h)
    <3>1. PICK s \in Rows(p) : Fades(s, h)
      BY WithdrawsParts
    <3>2. s \in Trails /\ Parented(r, s)
      BY <1>2, <3>1 DEF Rows, Whole
    <3> QED BY <2>1, <2>2, <3>1, <3>2, ParentedFades
  <2> QED BY <2>1, <2>2, <2>3, RisingFades
<1>8. SeenAt(p.visits, p.spatialAt) => SeenAt(q.visits, p.spatialAt)
  BY <1>1, <1>2, RisingFades
<1> QED BY <1>1, <1>2, <1>4, <1>5, <1>6, <1>7, <1>8 DEF Whole

\* Branches that fade keep their tips apart.
LEMMA TippedImage ==
    ASSUME NEW p \in PathType, Tipped(p), NEW kept \in SUBSET p.branches, NEW q, NEW image,
           \A w \in kept : Fades(w, image[w]), q.branches = {image[w] : w \in kept}
    PROVE  Tipped(q)
<1>1. p.branches \subseteq Trails
  BY PathParts
<1>2. ASSUME NEW w \in q.branches, NEW x \in q.branches, Id(Last(w)) = Id(Last(x)) PROVE w = x
  <2>1. PICK v \in kept : w = image[v]
    OBVIOUS
  <2>2. PICK y \in kept : x = image[y]
    OBVIOUS
  <2>3. Id(Last(w)) = Id(Last(v)) /\ Id(Last(x)) = Id(Last(y))
    BY <1>1, <2>1, <2>2, FadesParts
  <2>4. v = y
    BY <1>2, <2>3 DEF Tipped
  <2> QED BY <2>1, <2>2, <2>4
<1> QED BY <1>2 DEF Tipped

LEMMA NormalizedWithdraws ==
    ASSUME NEW p \in PathType PROVE Withdraws(p, Normalized(p))
<1> DEFINE W == Withdrawn(p)
           A == Ids(p.route) \cup {Id(Last(w)) : w \in KeptBranches(p)}
           q == Normalized(p)
           kept == KeptBranches(p)
           image == [w \in kept |-> RetiredAll(w, W, A)]
<1>1. /\ q.spatialAt = p.spatialAt /\ q.confirmed = p.confirmed
      /\ q.branches = {RetiredAll(w, W, A) : w \in kept}
  BY DEF Normalized, NormalizedWith, PathType
<1>2. kept \in SUBSET p.branches /\ kept \subseteq Trails
  BY PathParts DEF KeptBranches
<1>3. PathFades(p, q)
  BY NormalizedFades
<1> HIDE DEF q, W, A, kept
<1>4. \A w \in kept : Fades(w, image[w])
  BY <1>2, RetiredFades
<1>5. q.branches = {image[w] : w \in kept}
  BY <1>1
<1> HIDE DEF image
<1>6. Tipped(p) => Tipped(q)
  BY <1>2, <1>4, <1>5, TippedImage
<1> QED BY <1>1, <1>3, <1>6 DEF Withdraws, q

LEMMA ReconciledWithdraws ==
    ASSUME NEW p \in PathType, NEW ph PROVE Withdraws(p, ReconciledPath(p, ph))
<1> DEFINE v == Pruned(p.visits, ph)
           r == Pruned(p.route, ph)
           e == p.eligible /\ EndpointLive(Endpoint(p), ph)
           image == [w \in p.branches |-> Pruned(w, ph)]
           B == {Pruned(w, ph) : w \in p.branches}
           q == Faded(p, v, r, e, B)
<1>1. ReconciledPath(p, ph) = Normalized(q)
  BY DEF ReconciledPath, Faded
<1>2. Fades(p.visits, v) /\ Fades(p.route, r) /\ p.branches \subseteq Trails
  BY PathParts, PrunedFades
<1>3. e \in BOOLEAN /\ (e => p.eligible)
  BY PathParts DEF EndpointLive, SameGeneration
<1>4. \A w \in p.branches : Fades(w, image[w])
  BY <1>2, PrunedFades
<1>5. B = {image[w] : w \in p.branches}
  OBVIOUS
<1> HIDE DEF v, r, e, B, image
<1>6. \A w \in B : \E x \in p.branches : Fades(x, w)
  BY <1>4, <1>5
<1>7. PathFades(p, q) /\ q \in PathType
  BY <1>2, <1>3, <1>6, FadedPath DEF PathFades
<1>8. q.branches = B /\ q.spatialAt = p.spatialAt /\ q.confirmed = p.confirmed
  BY DEF Faded, PathType
<1> HIDE DEF q
<1>9. Tipped(p) => Tipped(q)
  BY <1>4, <1>5, <1>8, TippedImage
<1>10. Withdraws(p, q)
  BY <1>7, <1>8, <1>9 DEF Withdraws
<1> QED BY <1>1, <1>7, <1>10, NormalizedWithdraws, WithdrawsAll

\* Sets of paths that only lost authority keep what concerns them all.
Derived(Q, P) == \A q \in Q : \E p \in P : Withdraws(p, q)

LEMMA DerivedParts ==
    ASSUME NEW P \in SUBSET PathType, NEW Q, Derived(Q, P)
    PROVE  /\ Q \in SUBSET PathType
           /\ (\A p \in P : Whole(p)) => (\A q \in Q : Whole(q))
           /\ \A v \in All(Q) : \E u \in All(P) : Alike(u, v)
           /\ Coherent(P) => Coherent(Q)
           /\ \A srcs : (\A u \in All(P) : Entered(srcs, u)) => (\A v \in All(Q) : Entered(srcs, v))
           /\ Ranked(P) => Ranked(Q)
<1>1. \A q \in Q : q \in PathType
  BY WithdrawsParts DEF Derived
<1>2. ASSUME \A p \in P : Whole(p), NEW q \in Q PROVE Whole(q)
  <2>1. PICK p \in P : Withdraws(p, q)
    BY DEF Derived
  <2> QED BY <1>2, <2>1, WholeFades
<1>3. ASSUME NEW v \in All(Q) PROVE \E u \in All(P) : Alike(u, v)
  <2>1. PICK q \in Q : v \in Occurrences(q)
    BY DEF All
  <2>2. PICK p \in P : Withdraws(p, q)
    BY DEF Derived
  <2>3. PICK u \in Occurrences(p) : Alike(u, v)
    BY <2>1, <2>2, WithdrawsParts
  <2> QED BY <2>2, <2>3 DEF All
<1>4. Coherent(P) => Coherent(Q)
  <2>1. ASSUME Coherent(P), NEW u \in All(Q), NEW v \in All(Q) PROVE Twin(u, v)
    <3>1. PICK x \in All(P) : Alike(x, u)
      BY <1>3
    <3>2. PICK y \in All(P) : Alike(y, v)
      BY <1>3
    <3>3. Twin(x, y)
      BY <2>1 DEF Coherent
    <3> QED BY <3>1, <3>2, <3>3 DEF Alike, Twin
  <2> QED BY <2>1 DEF Coherent
<1>5. ASSUME NEW srcs, \A u \in All(P) : Entered(srcs, u), NEW v \in All(Q) PROVE Entered(srcs, v)
  <2>1. PICK u \in All(P) : Alike(u, v)
    BY <1>3
  <2>2. Entered(srcs, u)
    BY <1>5
  <2> QED BY <2>1, <2>2 DEF Alike, Entered
<1>6. Ranked(P) => Ranked(Q)
  <2>1. ASSUME NEW f, NEW k, Ranks(f, P), \A v \in All(P) : f[Id(v)] < k
        PROVE  Ranks(f, Q) /\ \A v \in All(Q) : f[Id(v)] < k
    <3>1. ASSUME NEW q \in Q, NEW g \in Records(q), NEW i \in 1 .. Len(g), NEW j \in 1 .. Len(g),
                 i < j
          PROVE  f[Id(g[i])] < f[Id(g[j])]
      <4>1. PICK p \in P : Withdraws(p, q)
        BY DEF Derived
      <4>2. PICK r \in Records(p) : Fades(r, g)
        BY <4>1, WithdrawsParts
      <4>3. Len(g) = Len(r) /\ Id(g[i]) = Id(r[i]) /\ Id(g[j]) = Id(r[j])
        BY <4>2 DEF Fades, Dims
      <4>4. f[Id(r[i])] < f[Id(r[j])]
        BY <2>1, <3>1, <4>2, <4>3 DEF Ranks, Ascends
      <4> QED BY <4>3, <4>4
    <3>2. ASSUME NEW u \in All(Q), NEW v \in All(Q), u.node = v.node, u.gen < v.gen
          PROVE  f[Id(u)] < f[Id(v)]
      <4>1. PICK x \in All(P) : Alike(x, u)
        BY <1>3
      <4>2. PICK y \in All(P) : Alike(y, v)
        BY <1>3
      <4>3. x.node = y.node /\ x.gen < y.gen /\ Id(x) = Id(u) /\ Id(y) = Id(v)
        BY <3>2, <4>1, <4>2 DEF Alike
      <4>4. f[Id(x)] < f[Id(y)]
        BY <2>1, <4>3 DEF Ranks
      <4> QED BY <4>3, <4>4
    <3>3. ASSUME NEW v \in All(Q) PROVE f[Id(v)] < k
      <4>1. PICK u \in All(P) : Alike(u, v)
        BY <1>3
      <4>2. f[Id(u)] < k /\ Id(u) = Id(v)
        BY <2>1, <4>1 DEF Alike
      <4> QED BY <4>2
    <3> QED BY <3>1, <3>2, <3>3 DEF Ranks, Ascends
  <2> QED BY <2>1 DEF Ranked
<1> QED BY <1>1, <1>2, <1>3, <1>4, <1>5, <1>6

-----------------------------------------------------------------------------
(* Rows that grow by one observation. *)

\* g is the beginning of r.
Part(g, r) == /\ g \in Trails /\ r \in Trails /\ Len(g) <= Len(r)
              /\ \A i \in 1 .. Len(g) : g[i] = r[i]

LEMMA PartParts ==
    ASSUME NEW g, NEW r, Part(g, r)
    PROVE  /\ Rising(r) => Rising(g)
           /\ Stepped(r) => Stepped(g)
           /\ \A f : Ascends(f, r) => Ascends(f, g)
           /\ ToSet(g) \subseteq ToSet(r)
<1>1. /\ g \in Trails /\ r \in Trails /\ Len(g) \in Nat /\ Len(r) \in Nat
      /\ \A i \in 1 .. Len(g) : i \in 1 .. Len(r) /\ g[i] = r[i]
  BY TrailParts DEF Part
<1>2. Rising(r) => Rising(g)
  BY <1>1 DEF Rising
<1>3. \A f : Ascends(f, r) => Ascends(f, g)
  BY <1>1 DEF Ascends
<1>4. ASSUME Stepped(r), NEW i \in 1 .. Len(g) - 1 PROVE Step(g[i].node, g[i + 1].node)
  <2>1. i \in 1 .. Len(g) /\ i + 1 \in 1 .. Len(g) /\ i \in 1 .. Len(r) - 1
    BY <1>1, <1>4 DEF Part
  <2>2. g[i] = r[i] /\ g[i + 1] = r[i + 1] /\ Step(r[i].node, r[i + 1].node)
    BY <1>1, <1>4, <2>1 DEF Stepped
  <2> QED BY <2>2
<1>5. Stepped(r) => Stepped(g)
  BY <1>4 DEF Stepped
<1>6. ToSet(g) \subseteq ToSet(r)
  BY <1>1, TrailParts
<1> QED BY <1>2, <1>3, <1>5, <1>6

LEMMA PartParented ==
    ASSUME NEW g, NEW r, Part(g, r), NEW h, NEW s, Part(h, s), Parented(r, s)
    PROVE  Parented(g, h)
<1>1. /\ Len(g) \in Nat /\ Len(r) \in Nat /\ Len(g) <= Len(r)
      /\ \A i \in 1 .. Len(g) : g[i] = r[i]
      /\ Len(h) \in Nat /\ Len(s) \in Nat /\ Len(h) <= Len(s)
      /\ \A i \in 1 .. Len(h) : h[i] = s[i]
  BY TrailParts DEF Part
<1>2. ASSUME NEW i \in 1 .. Len(g) - 1, NEW j \in 1 .. Len(h) - 1, Id(g[i + 1]) = Id(h[j + 1])
      PROVE  Id(g[i]) = Id(h[j])
  <2>1. /\ i \in 1 .. Len(g) /\ i + 1 \in 1 .. Len(g) /\ i \in 1 .. Len(r) - 1
        /\ j \in 1 .. Len(h) /\ j + 1 \in 1 .. Len(h) /\ j \in 1 .. Len(s) - 1
    BY <1>1
  <2>2. g[i] = r[i] /\ g[i + 1] = r[i + 1] /\ h[j] = s[j] /\ h[j + 1] = s[j + 1]
    BY <1>1, <2>1
  <2>3. Id(r[i + 1]) = Id(s[j + 1]) => Id(r[i]) = Id(s[j])
    BY <2>1 DEF Parented
  <2> QED BY <1>2, <2>2, <2>3
<1> QED BY <1>2 DEF Parented

LEMMA ParentedSym == \A r, s : Parented(r, s) => Parented(s, r)
BY DEF Parented

LEMMA PartSelf == \A r \in Trails : Part(r, r)
BY TrailParts DEF Part

LEMMA PrefixPart ==
    ASSUME NEW r \in Trails, NEW i \in 1 .. Len(r) PROVE Part(SubSeq(r, 1, i), r)
<1> DEFINE g == SubSeq(r, 1, i)
<1>1. i \in Nat /\ 1 <= i /\ i <= Len(r) /\ \A j \in 1 .. i : r[j] \in VisitType
  BY TrailParts
<1>2. \A j \in 1 .. i - 1 + 1 : g[j] = r[1 + j - 1]
  BY <1>1, SubSeqProperties
<1>3. g \in Trails /\ Len(g) = i
  BY PrefixTrail
<1>4. \A j \in 1 .. i : j \in 1 .. i - 1 + 1 /\ 1 + j - 1 = j
  BY <1>1
<1> HIDE DEF g
<1>5. \A j \in 1 .. Len(g) : g[j] = r[j]
  BY <1>2, <1>3, <1>4
<1> QED BY <1>1, <1>3, <1>5 DEF Part, g

\* g is r with v after it, without its first visit once it is full.
Extends(g, r, v) ==
    /\ g \in Trails /\ r \in Trails /\ v \in VisitType
    /\ \E d \in {0, 1} : /\ Len(g) = Len(r) + 1 - d /\ (d = 1 <=> Len(r) = Limit)
                         /\ g[Len(g)] = v
                         /\ \A i \in 1 .. Len(r) - d : g[i] = r[i + d]

LEMMA LongerExtends ==
    ASSUME NEW r \in Trails, NEW v \in VisitType
    PROVE  Extends(LastOf(Limit, Append(r, v)), r, v)
<1> DEFINE g == LastOf(Limit, Append(r, v))
<1>1. Len(r) \in Nat /\ Len(r) <= Limit /\ Limit \in Nat
  BY TrailParts, Bounds
<1>2. g \in Trails
  BY LongerTrail
<1>3. /\ Len(r) < Limit => /\ Len(g) = Len(r) + 1 /\ g[Len(r) + 1] = v
                           /\ \A i \in 1 .. Len(r) : g[i] = r[i]
      /\ Len(r) = Limit => /\ Len(g) = Limit /\ g[Limit] = v
                           /\ \A i \in 1 .. Limit - 1 : g[i] = r[i + 1]
  BY LongerItems
<1> HIDE DEF g
<1>4. CASE Len(r) < Limit
  <2>1. Len(g) = Len(r) + 1 - 0 /\ Len(r) - 0 = Len(r) /\ Len(r) # Limit
    BY <1>1, <1>3, <1>4
  <2>2. \A i \in 1 .. Len(r) - 0 : g[i] = r[i + 0]
    BY <1>1, <1>3, <1>4
  <2>3. g[Len(g)] = v
    BY <1>1, <1>3, <1>4
  <2> QED BY <1>2, <2>1, <2>2, <2>3 DEF Extends, g
<1>5. CASE Len(r) = Limit
  <2>1. Len(g) = Len(r) + 1 - 1 /\ g[Len(g)] = v /\ \A i \in 1 .. Len(r) - 1 : g[i] = r[i + 1]
    BY <1>1, <1>3, <1>5
  <2> QED BY <1>2, <1>5, <2>1 DEF Extends, g
<1> QED BY <1>1, <1>4, <1>5

\* What every visit of r and v have in common, g has.
LEMMA ExtendsParts ==
    ASSUME NEW g, NEW r, NEW v, Extends(g, r, v)
    PROVE  /\ Rising(r) /\ (\A u \in ToSet(r) : u.at <= v.at) => Rising(g)
           /\ \A f : Ascends(f, r) /\ (\A u \in ToSet(r) : f[Id(u)] < f[Id(v)]) => Ascends(f, g)
           /\ Stepped(r) /\ Step(Last(r).node, v.node) => Stepped(g)
           /\ \A i \in 1 .. Len(g) - 1 : g[i] \in ToSet(r)
           /\ \A i \in 1 .. Len(g) : i < Len(g) \/ g[i] = v
<1>1. PICK d \in {0, 1} : /\ Len(g) = Len(r) + 1 - d /\ (d = 1 <=> Len(r) = Limit)
                          /\ g[Len(g)] = v /\ \A i \in 1 .. Len(r) - d : g[i] = r[i + d]
  BY DEF Extends
<1>2. /\ g \in Trails /\ r \in Trails /\ Len(g) \in Nat /\ Len(r) \in Nat /\ 1 <= Len(r)
      /\ ToSet(r) = {r[i] : i \in 1 .. Len(r)} /\ Last(r) = r[Len(r)]
  BY TrailParts DEF Extends
<1>3. \A i \in 1 .. Len(g) - 1 : /\ i \in 1 .. Len(r) - d /\ i + d \in 1 .. Len(r)
                                 /\ g[i] = r[i + d]
  BY <1>1, <1>2
<1>4. \A i \in 1 .. Len(g) - 1 : g[i] \in ToSet(r)
  BY <1>2, <1>3
<1>5. \A i \in 1 .. Len(g) : i \in 1 .. Len(g) - 1 \/ i = Len(g)
  BY <1>2
<1>6. \A i \in 1 .. Len(g) : i < Len(g) \/ g[i] = v
  BY <1>1, <1>2, <1>5
<1>7. ASSUME Rising(r), \A u \in ToSet(r) : u.at <= v.at,
             NEW i \in 1 .. Len(g), NEW j \in 1 .. Len(g), i < j
      PROVE  g[i].at <= g[j].at
  <2>1. i \in 1 .. Len(g) - 1
    BY <1>2, <1>7
  <2>2. CASE j = Len(g)
    BY <1>1, <1>4, <1>7, <2>1, <2>2
  <2>3. CASE j \in 1 .. Len(g) - 1
    <3>1. i + d < j + d
      BY <1>1, <1>7
    <3> QED BY <1>3, <1>7, <2>1, <2>3, <3>1 DEF Rising
  <2> QED BY <1>5, <2>2, <2>3
<1>8. ASSUME NEW f, Ascends(f, r), \A u \in ToSet(r) : f[Id(u)] < f[Id(v)],
             NEW i \in 1 .. Len(g), NEW j \in 1 .. Len(g), i < j
      PROVE  f[Id(g[i])] < f[Id(g[j])]
  <2>1. i \in 1 .. Len(g) - 1
    BY <1>2, <1>8
  <2>2. CASE j = Len(g)
    BY <1>1, <1>4, <1>8, <2>1, <2>2
  <2>3. CASE j \in 1 .. Len(g) - 1
    <3>1. i + d < j + d
      BY <1>1, <1>8
    <3> QED BY <1>3, <1>8, <2>1, <2>3, <3>1 DEF Ascends
  <2> QED BY <1>5, <2>2, <2>3
<1>9. ASSUME Stepped(r), Step(Last(r).node, v.node), NEW i \in 1 .. Len(g) - 1
      PROVE  Step(g[i].node, g[i + 1].node)
  <2>1. i + 1 \in 1 .. Len(g)
    BY <1>2
  <2>2. CASE i + 1 = Len(g)
    <3>1. i + d = Len(r)
      BY <1>1, <1>2, <2>2
    <3> QED BY <1>1, <1>2, <1>3, <1>9, <2>2, <3>1
  <2>3. CASE i + 1 \in 1 .. Len(g) - 1
    <3>1. i + 1 + d = i + d + 1 /\ i + d \in 1 .. Len(r) - 1
      BY <1>1, <1>2, <1>3, <2>3
    <3>2. g[i] = r[i + d] /\ g[i + 1] = r[i + 1 + d]
      BY <1>3, <2>3
    <3> QED BY <1>9, <3>1, <3>2 DEF Stepped
  <2> QED BY <1>5, <2>1, <2>2, <2>3
<1>10. Rising(r) /\ (\A u \in ToSet(r) : u.at <= v.at) => Rising(g)
  BY <1>7 DEF Rising
<1>11. \A f : Ascends(f, r) /\ (\A u \in ToSet(r) : f[Id(u)] < f[Id(v)]) => Ascends(f, g)
  BY <1>8 DEF Ascends
<1>12. Stepped(r) /\ Step(Last(r).node, v.node) => Stepped(g)
  BY <1>9 DEF Stepped
<1> QED BY <1>4, <1>6, <1>10, <1>11, <1>12

\* A new visit has the last visit before it as its only parent.
LEMMA ExtendsParented ==
    ASSUME NEW g, NEW r, NEW v, Extends(g, r, v), NEW s \in Trails, Parented(r, s),
           \A u \in ToSet(s) : Id(u) # Id(v)
    PROVE  Parented(g, s)
<1>1. PICK d \in {0, 1} : /\ Len(g) = Len(r) + 1 - d /\ g[Len(g)] = v
                          /\ \A i \in 1 .. Len(r) - d : g[i] = r[i + d]
  BY DEF Extends
<1>2. /\ Len(r) \in Nat /\ Len(g) \in Nat /\ Len(s) \in Nat
      /\ \A j \in 1 .. Len(s) : s[j] \in ToSet(s)
  BY TrailParts DEF Extends
<1>3. ASSUME NEW i \in 1 .. Len(g) - 1, NEW j \in 1 .. Len(s) - 1, Id(g[i + 1]) = Id(s[j + 1])
      PROVE  Id(g[i]) = Id(s[j])
  <2>1. j + 1 \in 1 .. Len(s)
    BY <1>2
  <2>2. i + 1 # Len(g)
    BY <1>1, <1>2, <1>3, <2>1
  <2>3. /\ i \in 1 .. Len(r) - d /\ i + 1 \in 1 .. Len(r) - d /\ i + d \in 1 .. Len(r) - 1
        /\ i + 1 + d = i + d + 1
    BY <1>1, <1>2, <2>2
  <2>4. g[i] = r[i + d] /\ g[i + 1] = r[i + d + 1]
    BY <1>1, <2>3
  <2> QED BY <1>3, <2>3, <2>4 DEF Parented
<1> QED BY <1>3 DEF Parented

LEMMA ExtendsAlone ==
    ASSUME NEW g, NEW r, NEW v, Extends(g, r, v), Parented(r, r),
           \A u \in ToSet(r) : Id(u) # Id(v)
    PROVE  Parented(g, g)
<1>1. PICK d \in {0, 1} : /\ Len(g) = Len(r) + 1 - d /\ g[Len(g)] = v
                          /\ \A i \in 1 .. Len(r) - d : g[i] = r[i + d]
  BY DEF Extends
<1>2. Len(r) \in Nat /\ Len(g) \in Nat /\ \A i \in 1 .. Len(g) - 1 : Id(g[i]) # Id(v)
  BY TrailParts, ExtendsParts DEF Extends
<1>3. ASSUME NEW i \in 1 .. Len(g) - 1, NEW j \in 1 .. Len(g) - 1, Id(g[i + 1]) = Id(g[j + 1])
      PROVE  Id(g[i]) = Id(g[j])
  <2>1. CASE i + 1 = Len(g) \/ j + 1 = Len(g)
    <3>1. ASSUME NEW k \in 1 .. Len(g) - 1, k + 1 # Len(g) PROVE Id(g[k + 1]) # Id(v)
      <4>1. k + 1 \in 1 .. Len(g) - 1
        BY <1>2, <3>1
      <4> QED BY <1>2, <4>1
    <3>2. i + 1 = Len(g) /\ j + 1 = Len(g)
      BY <1>1, <1>3, <2>1, <3>1
    <3>3. i = j
      BY <1>2, <3>2
    <3> QED BY <3>3
  <2>2. CASE i + 1 # Len(g) /\ j + 1 # Len(g)
    <3>1. ASSUME NEW k \in 1 .. Len(g) - 1, k + 1 # Len(g)
          PROVE  k + d \in 1 .. Len(r) - 1 /\ g[k] = r[k + d] /\ g[k + 1] = r[k + d + 1]
      <4>1. /\ k \in 1 .. Len(r) - d /\ k + 1 \in 1 .. Len(r) - d
            /\ k + d \in 1 .. Len(r) - 1 /\ k + 1 + d = k + d + 1
        BY <1>1, <1>2, <3>1
      <4> QED BY <1>1, <4>1
    <3>2. /\ i + d \in 1 .. Len(r) - 1 /\ g[i] = r[i + d] /\ g[i + 1] = r[i + d + 1]
          /\ j + d \in 1 .. Len(r) - 1 /\ g[j] = r[j + d] /\ g[j + 1] = r[j + d + 1]
      BY <2>2, <3>1
    <3>3. Id(r[i + d + 1]) = Id(r[j + d + 1])
      BY <1>3, <3>2
    <3>4. Id(r[i + d]) = Id(r[j + d])
      BY <3>2, <3>3 DEF Parented
    <3> QED BY <3>2, <3>4
  <2> QED BY <2>1, <2>2
<1> QED BY <1>3 DEF Parented

\* The row that a continuation goes on from.
Goes(c, target) ==
    /\ Witnessed(c) /\ Step(Last(c.prefix).node, target.node)
    /\ \E r \in Rows(c.path) : Part(c.prefix, r)

LEMMA ContinuationGoes ==
    ASSUME NEW ps \in SUBSET PathType, NEW target, NEW ph, NEW c \in Continuations(ps, target, ph)
    PROVE  c.path \in ps /\ Goes(c, target)
<1>1. c \in EligibleSources(ps, target, ph) /\ Reaches(c, target)
  BY DEF Continuations, Maximal, Arriving
<1>2. /\ c.path \in ps /\ Witnessed(c)
      /\ \/ c.prefix = c.path.route
         \/ \E i \in 1 .. Len(c.path.route) - 1 : c.prefix = SubSeq(c.path.route, 1, i)
         \/ c.prefix \in c.path.branches
  BY <1>1, EligibleParts
<1>3. c.path.route \in Trails /\ c.path.branches \subseteq Trails /\ Len(c.path.route) \in Nat
  BY <1>2, PathParts, TrailParts
<1>4. \E r \in Rows(c.path) : Part(c.prefix, r)
  <2>1. CASE c.prefix = c.path.route
    BY <1>3, <2>1, PartSelf DEF Rows
  <2>2. CASE \E i \in 1 .. Len(c.path.route) - 1 : c.prefix = SubSeq(c.path.route, 1, i)
    <3>1. PICK i \in 1 .. Len(c.path.route) - 1 : c.prefix = SubSeq(c.path.route, 1, i)
      BY <2>2
    <3>2. i \in 1 .. Len(c.path.route)
      BY <1>3
    <3> QED BY <1>3, <3>1, <3>2, PrefixPart DEF Rows
  <2>3. CASE c.prefix \in c.path.branches
    BY <1>3, <2>3, PartSelf DEF Rows
  <2> QED BY <1>2, <2>1, <2>2, <2>3
<1> QED BY <1>1, <1>2, <1>4 DEF Goes, Reaches

LEMMA LeftBehindPart ==
    ASSUME NEW p \in PathType, NEW prefix, NEW w \in LeftBehind(p, prefix)
    PROVE  \E i \in 1 .. Len(p.route) : /\ w = SubSeq(p.route, 1, i) /\ Part(w, p.route)
                                        /\ Last(w) = p.route[i]
<1>1. PICK i \in DOMAIN p.route : w = SubSeq(p.route, 1, i)
  BY DEF LeftBehind
<1>2. p.route \in Trails /\ DOMAIN p.route = 1 .. Len(p.route)
  BY PathParts, TrailParts
<1> QED BY <1>1, <1>2, PrefixPart, PrefixTrail

\* The rows of a path that goes on are its rows before, and the longer one.
LEMMA GoesRows ==
    ASSUME NEW c, NEW target \in VisitType, Goes(c, target)
    PROVE  LET q == LongerOf(c, target)
           IN  /\ Extends(q.visits, c.path.visits, target) /\ Extends(q.route, c.prefix, target)
               /\ c.path.visits \in Trails /\ c.path.route \in Trails
               /\ \A w \in Rows(q) : w = q.route \/ \E r \in Rows(c.path) : Part(w, r)
<1> DEFINE q == LongerOf(c, target)
           p == c.path
<1>1. /\ q.visits = LastOf(Limit, Append(p.visits, target))
      /\ q.route = LastOf(Limit, Append(c.prefix, target))
      /\ q.branches = p.branches \cup LeftBehind(p, c.prefix)
  BY LongerParts DEF Goes
<1>2. p \in PathType /\ c.prefix \in Trails
  BY DEF Goes, Witnessed
<1>3. p.visits \in Trails /\ p.route \in Trails /\ p.branches \subseteq Trails
  BY <1>2, PathParts
<1> HIDE DEF q
<1>4. Extends(q.visits, p.visits, target) /\ Extends(q.route, c.prefix, target)
  BY <1>1, <1>2, <1>3, LongerExtends
<1>5. ASSUME NEW w \in q.branches PROVE \E r \in Rows(p) : Part(w, r)
  <2>1. CASE w \in p.branches
    BY <1>3, <2>1, PartSelf DEF Rows
  <2>2. CASE w \in LeftBehind(p, c.prefix)
    BY <1>2, <2>2, LeftBehindPart DEF Rows
  <2> QED BY <1>1, <2>1, <2>2
<1> QED BY <1>3, <1>4, <1>5 DEF Rows, q

\* The last move of a path that goes on.
LEMMA GoesSpatial ==
    ASSUME NEW c, NEW target \in VisitType, Goes(c, target), Whole(c.path),
           \A v \in Occurrences(c.path) : v.at <= target.at
    PROVE  LET q == LongerOf(c, target)
           IN  /\ q.spatialAt <= UpdatedAt(q)
               /\ Len(q.visits) < Limit \/ q.spatialAt >= q.visits[1].at
                      => SeenAt(q.visits, q.spatialAt)
               /\ Len(q.visits) < Limit => q.visits[1].kind # "correlated_positive"
               /\ Len(q.visits) >= Len(c.path.visits)
               /\ Len(c.path.visits) < Limit => Len(q.visits) = Len(c.path.visits) + 1
               /\ Len(c.path.visits) = Limit => Len(q.visits) = Limit
<1> DEFINE q == LongerOf(c, target)
           p == c.path
           r == p.visits
           g == q.visits
           t == p.spatialAt
<1>1. /\ Last(g) = target
      /\ q.spatialAt = IF Zone[target.node] # Zone[Endpoint(p).node] THEN target.at ELSE t
  BY LongerParts DEF Goes
<1>2. p \in PathType /\ Extends(g, r, target)
  BY GoesRows DEF Goes, Witnessed
<1>3. PICK d \in {0, 1} : /\ Len(g) = Len(r) + 1 - d /\ (d = 1 <=> Len(r) = Limit)
                          /\ g[Len(g)] = target
                          /\ \A i \in 1 .. Len(r) - d : g[i] = r[i + d]
  BY <1>2 DEF Extends
<1>4. /\ g \in Trails /\ r \in Trails /\ Len(g) \in Nat /\ Len(r) \in Nat /\ 1 <= Len(r)
      /\ Len(r) <= Limit /\ Limit \in Nat /\ Limit >= 3 /\ 1 <= Len(g)
      /\ Last(r) = r[Len(r)] /\ Last(g) = g[Len(g)]
      /\ \A i \in 1 .. Len(r) : r[i] \in VisitType /\ r[i] \in ToSet(r)
  BY <1>2, TrailParts, Bounds DEF Extends
<1>5. /\ Rising(r) /\ t <= r[Len(r)].at
      /\ Len(r) < Limit \/ t >= r[1].at => SeenAt(r, t)
      /\ Len(r) < Limit => r[1].kind # "correlated_positive"
  BY <1>4 DEF Whole, UpdatedAt, Records
<1>6. \A i \in 1 .. Len(r) : r[i].at \in Nat /\ r[i].at <= target.at
  <2>1. \A v \in ToSet(r) : v \in Occurrences(p)
    BY OccurrencesOf
  <2> QED BY <1>4, <2>1, VisitParts
<1>7. t \in Nat /\ target.at \in Nat
  BY <1>2, PathParts, VisitParts
<1>8. q.spatialAt \in {target.at, t} /\ UpdatedAt(q) = target.at
  BY <1>1 DEF UpdatedAt
<1> HIDE DEF q, p, r, g, t
<1>9. q.spatialAt <= UpdatedAt(q)
  <2>1. r[Len(r)].at \in Nat /\ r[Len(r)].at <= target.at
    BY <1>4, <1>6
  <2> QED BY <1>5, <1>7, <1>8, <2>1
<1>10. Len(g) < Limit => d = 0 /\ Len(r) < Limit /\ g[1] = r[1]
  BY <1>3, <1>4
<1>11. SeenAt(g, target.at)
  BY <1>3, <1>4 DEF SeenAt
<1>12. ASSUME Len(g) < Limit \/ t >= g[1].at PROVE SeenAt(g, t)
  <2>1. CASE d = 0
    <3>1. SeenAt(r, t)
      <4>1. Len(r) < Limit
        BY <1>3, <1>4, <2>1
      <4> QED BY <1>5, <4>1
    <3>2. \A i \in 1 .. Len(r) : i \in 1 .. Len(g) /\ g[i] = r[i]
      BY <1>3, <1>4, <2>1
    <3> QED BY <3>1, <3>2 DEF SeenAt
  <2>2. CASE d = 1
    <3>1. /\ Len(r) = Limit /\ Len(g) = Limit /\ g[1] = r[2] /\ 2 \in 1 .. Len(r)
          /\ 1 \in 1 .. Len(g) /\ 1 \in 1 .. Len(r)
          /\ \A i \in 2 .. Len(r) : i - 1 \in 1 .. Len(g) /\ g[i - 1] = r[i]
      <4>1. Len(r) = Limit /\ Len(g) = Limit /\ g[1] = r[1 + 1] /\ 2 \in 1 .. Len(r)
        BY <1>3, <1>4, <2>2
      <4>2. ASSUME NEW i \in 2 .. Len(r) PROVE i - 1 \in 1 .. Len(g) /\ g[i - 1] = r[i]
        <5>1. i - 1 \in 1 .. Len(r) - d /\ i - 1 + d = i /\ i - 1 \in 1 .. Len(g)
          BY <1>3, <1>4, <2>2
        <5>2. g[i - 1] = r[i - 1 + d]
          BY <1>3, <5>1
        <5> QED BY <5>1, <5>2
      <4> QED BY <1>4, <4>1, <4>2
    <3>2. r[1].at <= r[2].at /\ r[1].at \in Nat /\ r[2].at \in Nat
      BY <1>5, <1>6, <3>1 DEF Rising
    <3>3. t >= r[2].at /\ t >= r[1].at
      BY <1>4, <1>7, <1>12, <3>1, <3>2
    <3>4. PICK i \in 1 .. Len(r) : r[i].at = t
      BY <1>5, <3>3 DEF SeenAt
    <3>5. CASE i = 1
      <4>1. g[1].at = t
        BY <1>7, <3>1, <3>2, <3>3, <3>4, <3>5
      <4> QED BY <3>1, <4>1 DEF SeenAt
    <3>6. CASE i # 1
      <4>1. i \in 2 .. Len(r)
        BY <1>4, <3>6
      <4> QED BY <3>1, <3>4, <4>1 DEF SeenAt
    <3> QED BY <3>5, <3>6
  <2> QED BY <2>1, <2>2
<1>13. Len(g) < Limit => g[1].kind # "correlated_positive"
  BY <1>5, <1>10
<1>14. Len(g) < Limit \/ q.spatialAt >= g[1].at => SeenAt(g, q.spatialAt)
  BY <1>8, <1>11, <1>12
<1>15. /\ Len(g) >= Len(r) /\ (Len(r) < Limit => Len(g) = Len(r) + 1)
       /\ (Len(r) = Limit => Len(g) = Limit)
  BY <1>3, <1>4
<1> QED BY <1>9, <1>13, <1>14, <1>15 DEF q, p, r, g, t

LEMMA RecordsRows ==
    ASSUME NEW p
    PROVE  /\ Records(p) = {p.visits} \cup Rows(p)
           /\ \A r \in Records(p) : ToSet(r) \subseteq Occurrences(p)
BY DEF Records, Rows, Occurrences

\* An order of the observations, with the target after all of them.
LEMMA GoesAscends ==
    ASSUME NEW c, NEW target \in VisitType, Goes(c, target), NEW f,
           \A r \in Records(c.path) : Ascends(f, r),
           \A v \in Occurrences(c.path) : f[Id(v)] < f[Id(target)]
    PROVE  \A r \in Records(LongerOf(c, target)) : Ascends(f, r)
<1> DEFINE q == LongerOf(c, target)
           p == c.path
<1>1. /\ Extends(q.visits, p.visits, target) /\ Extends(q.route, c.prefix, target)
      /\ \A w \in Rows(q) : w = q.route \/ \E r \in Rows(p) : Part(w, r)
  BY GoesRows
<1>2. PICK r \in Rows(p) : Part(c.prefix, r)
  BY DEF Goes
<1> HIDE DEF q, p
<1>3. Ascends(f, q.visits)
  <2>1. p.visits \in Records(p) /\ ToSet(p.visits) \subseteq Occurrences(p)
    BY RecordsRows
  <2> QED BY <1>1, <2>1, ExtendsParts DEF p
<1>4. Ascends(f, q.route)
  <2>1. r \in Records(p) /\ ToSet(r) \subseteq Occurrences(p)
    BY <1>2, RecordsRows
  <2>2. Ascends(f, c.prefix) /\ ToSet(c.prefix) \subseteq ToSet(r)
    BY <1>2, <2>1, PartParts DEF p
  <2> QED BY <1>1, <2>1, <2>2, ExtendsParts DEF p
<1>5. ASSUME NEW w \in Rows(q), NEW s \in Rows(p), Part(w, s) PROVE Ascends(f, w)
  <2>1. s \in Records(p)
    BY RecordsRows
  <2> QED BY <1>5, <2>1, PartParts DEF p
<1>6. \A w \in Rows(q) : Ascends(f, w)
  BY <1>1, <1>4, <1>5
<1> QED BY <1>3, <1>6, RecordsRows DEF q

\* What a branch leaves behind has a tip of its own.
LEMMA GoesTipped ==
    ASSUME NEW c, NEW target \in VisitType, Goes(c, target), NEW ph, Shape(c.path, ph),
           Tipped(c.path), NEW f \in [Nodes \X Nat -> Nat], Ascends(f, c.path.route)
    PROVE  Tipped(LongerOf(c, target))
<1> DEFINE q == LongerOf(c, target)
           p == c.path
           left == LeftBehind(p, c.prefix)
<1>1. q.branches = p.branches \cup left
  BY LongerParts DEF Goes
<1>2. p \in PathType
  BY DEF Goes, Witnessed
<1>3. p.route \in Trails /\ Len(p.route) \in Nat /\ \A i \in 1 .. Len(p.route) : p.route[i] \in VisitType
  BY <1>2, PathParts, TrailParts
<1> HIDE DEF q
<1>4. ASSUME NEW w \in left, NEW x \in left, Id(Last(w)) = Id(Last(x)) PROVE w = x
  <2>1. PICK i \in 1 .. Len(p.route) : w = SubSeq(p.route, 1, i) /\ Last(w) = p.route[i]
    BY <1>2, LeftBehindPart
  <2>2. PICK j \in 1 .. Len(p.route) : x = SubSeq(p.route, 1, j) /\ Last(x) = p.route[j]
    BY <1>2, LeftBehindPart
  <2>3. f[Id(p.route[i])] \in Nat /\ f[Id(p.route[i])] = f[Id(p.route[j])]
    <3>1. Id(p.route[i]) \in Nodes \X Nat
      BY <1>3, VisitParts DEF Id
    <3> QED BY <1>4, <2>1, <2>2, <3>1
  <2>4. i = j
    BY <1>3, <2>3 DEF Ascends
  <2> QED BY <2>1, <2>2, <2>4
<1>5. ASSUME NEW w \in p.branches, NEW x \in left PROVE Id(Last(w)) # Id(Last(x))
  <2>1. Id(Last(w)) \notin Ids(p.route)
    BY DEF Shape
  <2>2. PICK j \in 1 .. Len(p.route) : Last(x) = p.route[j]
    BY <1>2, LeftBehindPart
  <2>3. Id(Last(x)) \in Ids(p.route)
    BY <1>3, <2>2, IdsOf
  <2> QED BY <2>1, <2>3
<1>6. \A w, x \in p.branches : Id(Last(w)) = Id(Last(x)) => w = x
  BY DEF Tipped
<1> HIDE DEF p, left
<1>7. ASSUME NEW w \in q.branches, NEW x \in q.branches, Id(Last(w)) = Id(Last(x)) PROVE w = x
  <2>1. CASE w \in p.branches /\ x \in p.branches
    BY <1>6, <1>7, <2>1
  <2>2. CASE w \in left /\ x \in left
    BY <1>4, <1>7, <2>2
  <2>3. CASE (w \in p.branches /\ x \in left) \/ (w \in left /\ x \in p.branches)
    BY <1>5, <1>7, <2>3
  <2> QED BY <1>1, <2>1, <2>2, <2>3
<1> QED BY <1>7 DEF Tipped, q

LEMMA GoesWhole ==
    ASSUME NEW c, NEW target \in VisitType, Goes(c, target), NEW ph, Shape(c.path, ph),
           Whole(c.path), NEW f \in [Nodes \X Nat -> Nat], Ascends(f, c.path.route),
           \A v \in Occurrences(c.path) : v.at <= target.at /\ Id(v) # Id(target)
    PROVE  Whole(LongerOf(c, target))
<1> DEFINE q == LongerOf(c, target)
           p == c.path
<1>1. /\ Extends(q.visits, p.visits, target) /\ Extends(q.route, c.prefix, target)
      /\ p.visits \in Trails /\ p.route \in Trails
      /\ \A w \in Rows(q) : w = q.route \/ \E r \in Rows(p) : Part(w, r)
  BY GoesRows
<1>2. PICK r \in Rows(p) : Part(c.prefix, r)
  BY DEF Goes
<1>3. /\ Last(q.visits) = target /\ Endpoint(q) = target
      /\ q.confirmed = (p.confirmed \/ Confirms(q.route))
  BY LongerParts DEF Goes
<1>4. /\ q.spatialAt <= UpdatedAt(q)
      /\ Len(q.visits) < Limit \/ q.spatialAt >= q.visits[1].at => SeenAt(q.visits, q.spatialAt)
      /\ Len(q.visits) < Limit => q.visits[1].kind # "correlated_positive"
      /\ Len(q.visits) >= Len(p.visits)
      /\ Len(p.visits) < Limit => Len(q.visits) = Len(p.visits) + 1
      /\ Len(p.visits) = Limit => Len(q.visits) = Limit
  BY GoesSpatial
<1>5. Tipped(q)
  BY GoesTipped DEF Whole
<1>6. Step(Last(c.prefix).node, target.node)
  BY DEF Goes
<1> HIDE DEF q, p
<1>7. /\ \A s \in Records(p) : Rising(s) /\ Len(s) <= Len(p.visits)
      /\ \A s \in Rows(p) : Stepped(s) /\ \A w \in Rows(p) : Parented(s, w)
      /\ p.confirmed => Len(p.visits) >= 3
  BY DEF Whole, p
<1>8. \A s \in Records(p) : \A v \in ToSet(s) : v.at <= target.at /\ Id(v) # Id(target)
  BY RecordsRows DEF p
<1>9. /\ r \in Records(p) /\ r \in Trails /\ c.prefix \in Trails /\ Len(c.prefix) <= Len(r)
      /\ ToSet(c.prefix) \subseteq ToSet(r) /\ Rising(c.prefix) /\ Stepped(c.prefix)
      /\ \A v \in ToSet(c.prefix) : v.at <= target.at /\ Id(v) # Id(target)
  BY <1>2, <1>7, <1>8, RecordsRows, PartParts DEF Part
<1>10. Rising(q.visits) /\ Rising(q.route) /\ Stepped(q.route)
  <2>1. p.visits \in Records(p)
    BY RecordsRows
  <2> QED BY <1>1, <1>6, <1>7, <1>8, <1>9, <2>1, ExtendsParts
<1>11. Len(q.route) <= Len(q.visits) /\ Len(q.visits) \in Nat /\ Len(p.visits) \in Nat
  <2>1. PICK d \in {0, 1} : Len(q.route) = Len(c.prefix) + 1 - d /\ (d = 1 <=> Len(c.prefix) = Limit)
    BY <1>1 DEF Extends
  <2>2. Len(c.prefix) <= Len(r) /\ Len(r) <= Len(p.visits)
    BY <1>7, <1>9
  <2>3. /\ Len(c.prefix) \in Nat /\ Len(r) \in Nat /\ Len(p.visits) \in Nat /\ Limit \in Nat
        /\ Len(p.visits) <= Limit /\ Len(q.visits) \in Nat
    BY <1>1, <1>9, TrailParts, Bounds DEF Extends
  <2>4. Len(p.visits) = Limit => Len(q.route) <= Len(q.visits)
    BY <1>4, <2>1, <2>2, <2>3
  <2>5. Len(p.visits) # Limit => Len(q.route) <= Len(q.visits)
    <3>1. Len(p.visits) < Limit => Len(q.visits) = Len(p.visits) + 1
      BY <1>4
    <3> QED BY <2>1, <2>2, <2>3, <3>1
  <2> QED BY <2>3, <2>4, <2>5
<1>12. ASSUME NEW w \in Rows(q), NEW s \in Rows(p), Part(w, s)
       PROVE  /\ Rising(w) /\ Stepped(w) /\ Len(w) <= Len(q.visits) /\ w \in Trails
              /\ \A v \in ToSet(w) : Id(v) # Id(target)
  <2>1. s \in Records(p) /\ Rising(s) /\ Len(s) <= Len(p.visits) /\ Stepped(s)
    BY <1>7, RecordsRows
  <2>2. Rising(w) /\ Stepped(w) /\ ToSet(w) \subseteq ToSet(s)
    BY <1>12, <2>1, PartParts
  <2>3. Len(w) <= Len(s) /\ Len(w) \in Nat /\ Len(s) \in Nat /\ w \in Trails
    BY <1>12, TrailParts DEF Part
  <2> QED BY <1>4, <1>8, <1>11, <2>1, <2>2, <2>3
<1>13. \A s \in Records(q) : Rising(s) /\ Len(s) <= Len(q.visits)
  BY <1>1, <1>10, <1>11, <1>12, RecordsRows
<1>14. \A s \in Rows(q) : Stepped(s)
  BY <1>1, <1>10, <1>12
<1>15. ASSUME NEW w \in Rows(q), NEW s \in Rows(p), Part(w, s) PROVE Parented(q.route, w)
  <2>1. Parented(c.prefix, w)
    BY <1>2, <1>7, <1>15, PartParented
  <2>2. w \in Trails /\ \A v \in ToSet(w) : Id(v) # Id(target)
    BY <1>12, <1>15
  <2> QED BY <1>1, <2>1, <2>2, ExtendsParented
<1>16. Parented(q.route, q.route)
  <2>1. Parented(c.prefix, c.prefix)
    BY <1>2, <1>7, PartParented
  <2> QED BY <1>1, <1>9, <2>1, ExtendsAlone
<1>17. ASSUME NEW w \in Rows(q), NEW x \in Rows(q) PROVE Parented(w, x)
  <2>1. CASE w = q.route
    BY <1>1, <1>15, <1>16, <2>1
  <2>2. CASE x = q.route
    BY <1>1, <1>15, <1>16, <2>2, ParentedSym
  <2>3. CASE w # q.route /\ x # q.route
    BY <1>1, <1>7, <2>3, PartParented
  <2> QED BY <2>1, <2>2, <2>3
<1>18. q.confirmed => Len(q.visits) >= 3
  <2>1. CASE p.confirmed
    BY <1>4, <1>7, <1>11, <2>1
  <2>2. CASE Confirms(q.route)
    <3>1. Len(q.route) >= 3 /\ Len(q.route) \in Nat
      BY <1>1, <2>2, TrailParts DEF Confirms, Extends
    <3> QED BY <1>11, <3>1
  <2> QED BY <1>3, <2>1, <2>2
<1> QED BY <1>3, <1>4, <1>5, <1>13, <1>14, <1>17, <1>18 DEF Whole, q

\* A path that begins.
LEMMA NewWhole ==
    ASSUME NEW r \in Trails, Rising(r), Stepped(r), Parented(r, r),
           r[1].kind # "correlated_positive"
    PROVE  Whole(NewPath(r))
<1> DEFINE q == NewPath(r)
<1>1. /\ q \in PathType /\ q.visits = r /\ q.route = r /\ q.branches = {}
      /\ ~q.confirmed /\ q.spatialAt = Last(r).at /\ Endpoint(q) = Last(r)
  BY NewPathParts
<1> HIDE DEF q
<1>2. Records(q) = {r} /\ Rows(q) = {r} /\ UpdatedAt(q) = Last(r).at
  BY <1>1 DEF Records, Rows, UpdatedAt
<1>3. Len(r) \in Nat /\ 1 <= Len(r) /\ Last(r) = r[Len(r)] /\ Last(r) \in VisitType
  BY TrailParts
<1>4. Last(r).at \in Nat
  BY <1>3, VisitParts
<1>5. SeenAt(r, Last(r).at)
  BY <1>3 DEF SeenAt
<1>6. Tipped(q)
  BY <1>1 DEF Tipped
<1>7. Len(r) <= Len(r) /\ Last(r).at <= Last(r).at
  BY <1>3, <1>4
<1> QED BY <1>1, <1>2, <1>5, <1>6, <1>7 DEF Whole, q

-----------------------------------------------------------------------------
(* The observations of all the paths. *)

Fresh(v) ==
    /\ v \in VisitType
    /\ \A u \in All(paths) : u.node = v.node => u.gen < v.gen /\ u.at <= v.at

\* What the paths and the ledger have in common with all that was observed.
Laid ==
    /\ \A p \in paths : Whole(p)
    /\ Coherent(paths) /\ Apart(paths) /\ Ranked(paths)
    /\ \A v \in All(paths) : Entered(sources, v)

\* The ledger, the physical states and the clock agree.
Clocked ==
    /\ \A n \in Nodes : Physical(n) /\ phys[n].at <= now
    /\ count = 0 => \A n \in Nodes : ~Pending(sources[n])

LEMMA WithdrawsSelf == \A p \in PathType : Withdraws(p, p)
<1>1. \A v \in VisitType : Dims(v, v)
  BY DEF Dims
<1>2. \A r \in Trails : Fades(r, r)
  BY <1>1, TrailParts DEF Fades
<1> QED BY <1>2, PathParts DEF Withdraws, PathFades

LEMMA AllVisits == \A P \in SUBSET PathType : \A v \in All(P) : v \in VisitType
BY OccurrenceParts DEF All

LEMMA LaidFrom ==
    ASSUME NEW raw \in SUBSET PathType, Derived(paths', raw), \A p \in raw : Whole(p),
           Coherent(raw), Ranked(raw), Apart(paths'), \A v \in All(raw) : Entered(sources', v)
    PROVE  Laid'
BY DerivedParts DEF Laid

LEMMA EndsDerived ==
    ASSUME NEW P \in SUBSET PathType, NEW srcs, Ends(P, srcs)
    PROVE  Derived(paths', P) /\ (Apart(P) => Apart(paths'))
<1>1. \A q \in paths' : \E p \in P : q = ReconciledPath(p, phys')
  BY EndsShaped
<1>2. \A p \in P : Withdraws(p, ReconciledPath(p, phys'))
  BY ReconciledWithdraws
<1>3. Derived(paths', P)
  BY <1>1, <1>2 DEF Derived
<1>4. ASSUME Apart(P), NEW q \in paths', NEW s \in paths', q # s,
             NEW u \in Occurrences(q), NEW v \in Occurrences(s)
      PROVE  Id(u) # Id(v)
  <2>1. PICK o \in P : q = ReconciledPath(o, phys')
    BY <1>1
  <2>2. PICK p \in P : s = ReconciledPath(p, phys')
    BY <1>1
  <2>3. o # p
    BY <1>4, <2>1, <2>2
  <2>4. PICK x \in Occurrences(o) : Alike(x, u)
    BY <1>2, <2>1, WithdrawsParts
  <2>5. PICK y \in Occurrences(p) : Alike(y, v)
    BY <1>2, <2>2, WithdrawsParts
  <2>6. Id(x) # Id(y)
    BY <1>4, <2>3, <2>4, <2>5 DEF Apart
  <2> QED BY <2>4, <2>5, <2>6 DEF Alike
<1>5. Apart(P) => Apart(paths')
  BY <1>4 DEF Apart
<1> QED BY <1>3, <1>5

LEMMA DerivedAll ==
    ASSUME NEW Q, NEW P, NEW raw, Derived(Q, P), Derived(P, raw) PROVE Derived(Q, raw)
<1>1. ASSUME NEW q \in Q PROVE \E r \in raw : Withdraws(r, q)
  <2>1. PICK p \in P : Withdraws(p, q)
    BY DEF Derived
  <2>2. PICK r \in raw : Withdraws(r, p)
    BY DEF Derived
  <2> QED BY <2>1, <2>2, WithdrawsAll
<1> QED BY <1>1 DEF Derived

LEMMA EnteredWears ==
    ASSUME NEW old, NEW new, NEW v, Entered(old, v), Wears(old[v.node], new[v.node])
    PROVE  Entered(new, v)
BY DEF Entered, Wears

LEMMA CoherentGrows ==
    ASSUME Typed, Coherent(paths), NEW P, NEW V, \A v \in All(P) : v \in All(paths) \/ v \in V,
           \A v \in V : Fresh(v), \A u, v \in V : u.node = v.node => u = v
    PROVE  Coherent(P)
<1>1. \A v \in All(paths) : v \in VisitType
  BY AllVisits DEF Typed
<1>2. \A v \in VisitType : v.gen \in Nat /\ v.at \in Nat
  BY VisitParts
<1>3. ASSUME NEW u \in V, NEW v \in All(paths) PROVE Twin(u, v) /\ Twin(v, u)
  <2>1. u.gen \in Nat /\ v.gen \in Nat /\ (v.node = u.node => v.gen < u.gen /\ v.at <= u.at)
    BY <1>1, <1>2 DEF Fresh
  <2>2. u.node = v.node => ~(u.gen = v.gen) /\ ~(u.gen < v.gen)
    BY <2>1
  <2> QED BY <2>1, <2>2 DEF Twin
<1>4. ASSUME NEW v \in V PROVE Twin(v, v)
  <2>1. v.gen \in Nat /\ v.at \in Nat
    BY <1>2 DEF Fresh
  <2>2. ~(v.gen < v.gen)
    BY <2>1
  <2> QED BY <2>2 DEF Twin
<1>5. ASSUME NEW u \in V, NEW v \in V PROVE Twin(u, v)
  BY <1>4, <1>5 DEF Twin
<1> QED BY <1>3, <1>5 DEF Coherent

\* New observations come after all others.
After(g, k, o, t) ==
    /\ g \in [Nodes \X Nat -> Nat] /\ k \in Nat
    /\ Ranks(g, paths) /\ \A u \in All(paths) : g[Id(u)] < k
    /\ g[Id(o)] = k /\ (Id(o) # Id(t) => g[Id(t)] = k + 1)

LEMMA RankNew ==
    ASSUME Typed, Ranked(paths), NEW o, Fresh(o), NEW t, Fresh(t)
    PROVE  \E g, k : After(g, k, o, t)
<1>0. PICK f \in [Nodes \X Nat -> Nat], k \in Nat :
          Ranks(f, paths) /\ \A u \in All(paths) : f[Id(u)] < k
  BY DEF Ranked
<1> DEFINE g == [x \in Nodes \X Nat |-> IF x = Id(o) THEN k ELSE IF x = Id(t) THEN k + 1 ELSE f[x]]
<1>1. \A v \in VisitType : Id(v) \in Nodes \X Nat
  BY VisitParts DEF Id
<1>2. \A v \in All(paths) : v \in VisitType
  BY AllVisits DEF Typed
<1>3. ASSUME NEW u \in All(paths) PROVE g[Id(u)] = f[Id(u)]
  <2>1. ASSUME NEW v, Fresh(v) PROVE Id(u) # Id(v)
    <3>1. u.gen \in Nat /\ v.gen \in Nat
      BY <1>2, <2>1, VisitParts DEF Fresh
    <3>2. u.node = v.node => u.gen # v.gen
      BY <2>1, <3>1 DEF Fresh
    <3> QED BY <3>2, SameIds
  <2>2. Id(u) # Id(o) /\ Id(u) # Id(t)
    BY <2>1
  <2> QED BY <1>1, <1>2, <2>2
<1>4. g[Id(o)] = k /\ (Id(o) # Id(t) => g[Id(t)] = k + 1)
  BY <1>1 DEF Fresh
<1>5. g \in [Nodes \X Nat -> Nat]
  OBVIOUS
<1> HIDE DEF g
<1>6. \A p \in paths : \A r \in Records(p) : Ascends(g, r)
  <2>1. ASSUME NEW p \in paths, NEW r \in Records(p) PROVE Ascends(g, r)
    <3>1. p \in PathType /\ r \in Trails
      BY PathParts DEF Typed, Records
    <3>2. \A i \in 1 .. Len(r) : r[i] \in All(paths)
      BY <3>1, TrailParts, RecordsRows DEF All
    <3>3. Ascends(f, r)
      BY <1>0 DEF Ranks
    <3> QED BY <1>3, <3>2, <3>3 DEF Ascends
  <2> QED BY <2>1
<1>7. Ranks(g, paths)
  BY <1>0, <1>3, <1>6 DEF Ranks
<1> QED BY <1>0, <1>3, <1>4, <1>5, <1>7 DEF After

LEMMA RankedGrows ==
    ASSUME Typed, NEW g \in [Nodes \X Nat -> Nat], NEW k \in Nat, Ranks(g, paths),
           \A u \in All(paths) : g[Id(u)] < k,
           NEW P, \A p \in P : \A r \in Records(p) : Ascends(g, r),
           NEW V, \A v \in All(P) : v \in All(paths) \/ v \in V,
           \A v \in V : Fresh(v) /\ k <= g[Id(v)] /\ g[Id(v)] <= k + 1,
           \A u, v \in V : u.node = v.node => u = v
    PROVE  Ranked(P)
<1>1. \A v \in All(paths) : v \in VisitType
  BY AllVisits DEF Typed
<1>2. \A v \in VisitType : v.gen \in Nat /\ g[Id(v)] \in Nat
  <2>1. \A v \in VisitType : v.gen \in Nat /\ Id(v) \in Nodes \X Nat
    BY VisitParts DEF Id
  <2> QED BY <2>1
<1>3. ASSUME NEW u \in All(P), NEW v \in All(P), u.node = v.node, u.gen < v.gen
      PROVE  g[Id(u)] < g[Id(v)]
  <2>1. CASE u \in All(paths) /\ v \in All(paths)
    BY <1>3, <2>1 DEF Ranks
  <2>2. CASE u \in All(paths) /\ v \in V
    <3>1. g[Id(u)] < k /\ k <= g[Id(v)] /\ g[Id(u)] \in Nat /\ g[Id(v)] \in Nat
      BY <1>1, <1>2, <2>2 DEF Fresh
    <3> QED BY <3>1
  <2>3. CASE u \in V
    <3>1. u.gen \in Nat /\ v.gen \in Nat
      BY <1>1, <1>2, <2>3 DEF Fresh
    <3>2. v \in V
      BY <1>3, <2>3, <3>1 DEF Fresh
    <3> QED BY <1>3, <2>3, <3>1, <3>2
  <2> QED BY <2>1, <2>2, <2>3
<1>4. Ranks(g, P)
  BY <1>3 DEF Ranks
<1>5. ASSUME NEW v \in All(P) PROVE g[Id(v)] < k + 2
  <2>1. g[Id(v)] \in Nat /\ g[Id(v)] <= k + 1
    BY <1>1, <1>2 DEF Fresh
  <2> QED BY <2>1
<1>6. k + 2 \in Nat
  OBVIOUS
<1> QED BY <1>4, <1>5, <1>6 DEF Ranked

LEMMA AllPast ==
    ASSUME Typed, Laid, Clocked, NEW v \in All(paths)
    PROVE  /\ v \in VisitType /\ v.node \in Nodes /\ v.gen <= phys[v.node].gen
           /\ v.at <= now /\ v.gen \in Nat /\ v.at \in Nat
           /\ v.gen <= sources[v.node].gen /\ v.at <= sources[v.node].at
           /\ v.gen = sources[v.node].gen => sources[v.node].consumed
<1>1. v \in VisitType /\ v.node \in Nodes /\ v.gen \in Nat /\ v.at \in Nat
  BY AllVisits, VisitParts DEF Typed
<1> DEFINE src == sources[v.node]
<1>2. /\ src.origin # "none" /\ v.gen <= src.gen /\ v.at <= src.at
      /\ v.gen = src.gen => src.consumed
  BY DEF Laid, Entered
<1>3. src.gen <= phys[v.node].gen /\ src.at <= phys[v.node].at /\ phys[v.node].at <= now
  BY <1>1, <1>2 DEF Clocked, Physical
<1>4. /\ src.gen \in Nat /\ src.at \in Int /\ phys[v.node].gen \in Nat
      /\ phys[v.node].at \in Int /\ now \in Int
  <2>1. src \in SourceType /\ phys[v.node] \in NodeState /\ now \in Int
    BY <1>1 DEF Typed, SourcesOK
  <2> QED BY <2>1, Bounds DEF SourceType, NodeState
<1> HIDE DEF src
<1>5. v.gen <= phys[v.node].gen /\ v.at <= now
  BY <1>1, <1>2, <1>3, <1>4
<1> QED BY <1>1, <1>2, <1>5 DEF src

LEMMA TargetFresh ==
    ASSUME Typed, Laid, Clocked, NEW n \in Nodes, NEW s, Begins(n, s)
    PROVE  Fresh(TargetOf(n, s)) /\ TargetOf(n, s).at = now
<1> DEFINE t == TargetOf(n, s)
<1>1. t \in VisitType /\ t.node = n /\ t.gen = s.gen /\ t.at = now
  BY TargetParts
<1>2. s.gen = phys[n].gen + 1 /\ phys[n].gen \in Nat
  BY DEF Begins, Newer, Typed, NodeState
<1> HIDE DEF t
<1>3. ASSUME NEW u \in All(paths), u.node = t.node PROVE u.gen < t.gen /\ u.at <= t.at
  <2>1. u.gen <= phys[n].gen /\ u.at <= now /\ u.gen \in Nat
    BY <1>1, <1>3, AllPast
  <2> QED BY <1>1, <1>2, <2>1
<1> QED BY <1>1, <1>3 DEF Fresh, t

LEMMA OriginFresh ==
    ASSUME Typed, Laid, Clocked, NEW target, NEW m \in OriginNodes(sources, target),
           OriginVisit(m) \in VisitType
    PROVE  /\ Fresh(OriginVisit(m)) /\ OriginVisit(m).at <= now /\ OriginVisit(m).at \in Nat
           /\ m \in Nodes /\ m # target.node /\ Step(m, target.node) /\ Pending(sources[m])
           /\ OriginVisit(m).node = m /\ OriginVisit(m).gen = sources[m].gen
           /\ OriginVisit(m).at = sources[m].at /\ OriginVisit(m).kind = "positive"
<1> DEFINE o == OriginVisit(m)
<1>1. m \in Nodes /\ m # target.node /\ Step(m, target.node) /\ Pending(sources[m])
  BY DEF OriginNodes
<1>2. o.node = m /\ o.gen = sources[m].gen /\ o.at = sources[m].at /\ o.kind = "positive"
  BY DEF OriginVisit, Visit
<1>3. o.gen \in Nat /\ o.at \in Nat
  BY VisitParts
<1> HIDE DEF o
<1>4. ~sources[m].consumed /\ sources[m].origin # "none"
  BY <1>1 DEF Pending
<1>5. ASSUME NEW u \in All(paths), u.node = o.node PROVE u.gen < o.gen /\ u.at <= o.at
  <2>1. /\ u.gen <= sources[m].gen /\ u.at <= sources[m].at /\ u.gen \in Nat
        /\ u.gen # sources[m].gen
    BY <1>2, <1>4, <1>5, AllPast
  <2> QED BY <1>2, <1>3, <2>1
<1>6. o.at <= now
  <2>1. phys[m].at <= now /\ sources[m].at <= phys[m].at
    BY <1>1, <1>4 DEF Clocked, Physical
  <2>2. phys[m].at \in Int /\ now \in Int
    BY <1>1, Bounds DEF Typed, NodeState
  <2> QED BY <1>2, <1>3, <2>1, <2>2
<1> QED BY <1>1, <1>2, <1>3, <1>5, <1>6 DEF Fresh, o

LEMMA OriginKnown == \A v \in VisitType : OriginOf(v.kind) # "none"
BY VisitParts DEF Kinds, OriginOf

\* The ledger accounts for the visits before and for a target that is selected.
LEMMA LedgerEntered ==
    ASSUME Typed, Laid, NEW target, Fresh(target), NEW old \in [Nodes -> SourceType],
           NEW b \in BOOLEAN, \A m \in Nodes : Wears(sources[m], old[m]),
           NEW P, Ends(P, Recorded(old, target, b))
    PROVE  /\ \A v \in All(paths) : Entered(sources', v)
           /\ b => Entered(sources', target)
<1>1. /\ \A m \in Nodes : m # target.node => Wears(sources[m], sources'[m])
      /\ Wears([gen |-> target.gen, at |-> target.at, origin |-> OriginOf(target.kind),
                consumed |-> (b \/ target.kind # "positive")], sources'[target.node])
  BY EndsLedger DEF Fresh
<1> DEFINE src == sources'[target.node]
<1>2. /\ src.gen = target.gen /\ src.at = target.at /\ src.origin = OriginOf(target.kind)
      /\ b => src.consumed
  BY <1>1 DEF Wears
<1>3. target \in VisitType /\ target.gen \in Nat /\ target.at \in Nat
  BY VisitParts DEF Fresh
<1>4. src.origin # "none"
  BY <1>2, <1>3, OriginKnown
<1> HIDE DEF src
<1>5. ASSUME NEW v \in All(paths) PROVE Entered(sources', v)
  <2>1. Entered(sources, v) /\ v \in VisitType /\ v.node \in Nodes /\ v.gen \in Nat
    BY AllVisits, VisitParts DEF Laid, Typed
  <2>2. CASE v.node # target.node
    BY <1>1, <2>1, <2>2, EnteredWears
  <2>3. CASE v.node = target.node
    <3>1. v.gen < target.gen /\ v.at <= target.at
      BY <2>3 DEF Fresh
    <3>2. v.gen <= src.gen /\ v.gen # src.gen /\ v.at <= src.at
      BY <1>2, <1>3, <2>1, <3>1
    <3> QED BY <1>4, <2>3, <3>2 DEF Entered, src
  <2> QED BY <2>2, <2>3
<1>6. ASSUME b PROVE Entered(sources', target)
  <2>1. target.gen <= src.gen /\ target.at <= src.at
    BY <1>2, <1>3
  <2> QED BY <1>2, <1>4, <1>6, <2>1 DEF Entered, src
<1> QED BY <1>5, <1>6

LEMMA QuietLaid ==
    ASSUME Typed, Laid, NEW srcs, Ends(paths, srcs), \A v \in All(paths) : Entered(sources', v)
    PROVE  Laid'
<1>1. paths \in SUBSET PathType
  BY DEF Typed
<1>2. Derived(paths', paths) /\ Apart(paths')
  BY <1>1, EndsDerived DEF Laid
<1> QED BY <1>1, <1>2, LaidFrom DEF Laid

\* A path that goes on.
LEMMA WentLaid ==
    ASSUME Typed, Shaped, Laid, Clocked, NEW target, Fresh(target), target.at = now,
           NEW c \in Continuations(paths, target, phys), Went(target, c)
    PROVE  Laid'
<1> DEFINE others == paths \ {c.path}
           long == LongerOf(c, target)
           next == AdvancedPath(c, target)
           P == others \cup {next}
           raw == others \cup {long}
<1>1. paths \in SUBSET PathType /\ target \in VisitType
  BY DEF Typed, Fresh
<1>2. c.path \in paths /\ Goes(c, target) /\ Witnessed(c)
  BY <1>1, ContinuationGoes DEF Goes
<1>3. /\ long \in PathType /\ next = Normalized(long)
      /\ \A v \in Occurrences(long) : v \in Occurrences(c.path) \/ v = target
  BY <1>1, <1>2, LongerParts
<1>4. /\ next \in PathType
      /\ \A v \in Occurrences(next) : \E u \in Occurrences(c.path) \cup {target} : Id(u) = Id(v)
  BY <1>1, <1>2, AdvancedParts
<1>5. Ends(P, Recorded(Spent(sources, Last(c.prefix)), target, TRUE))
  BY DEF Went
<1> HIDE DEF others, long, next
<1>6. P \in SUBSET PathType /\ raw \in SUBSET PathType
  BY <1>1, <1>3, <1>4 DEF others
<1>7. Derived(P, raw)
  <2>1. \A p \in others : Withdraws(p, p)
    BY <1>1, WithdrawsSelf DEF others
  <2>2. Withdraws(long, next)
    BY <1>3, NormalizedWithdraws
  <2> QED BY <2>1, <2>2 DEF Derived
<1>8. \A v \in All(paths) : v.at <= target.at /\ Id(v) # Id(target)
  <2>1. ASSUME NEW v \in All(paths) PROVE v.at <= target.at /\ Id(v) # Id(target)
    <3>1. v.at <= now /\ v.gen \in Nat /\ target.gen \in Nat
      BY <1>1, AllPast, VisitParts
    <3>2. v.node = target.node => v.gen # target.gen
      BY <3>1 DEF Fresh
    <3> QED BY <3>1, <3>2, SameIds
  <2> QED BY <2>1
<1>9. \A v \in Occurrences(c.path) : v \in All(paths)
  BY <1>2 DEF All
<1>10. Apart(P)
  <2>1. ASSUME NEW p \in others, NEW u \in Occurrences(p), NEW v \in Occurrences(next)
        PROVE  Id(u) # Id(v)
    <3>1. p \in paths /\ p # c.path /\ u \in All(paths)
      BY <2>1 DEF others, All
    <3>2. PICK w \in Occurrences(c.path) \cup {target} : Id(w) = Id(v)
      BY <1>4
    <3>3. Id(u) # Id(w)
      BY <1>2, <1>8, <3>1 DEF Laid, Apart
    <3> QED BY <3>2, <3>3
  <2>2. ASSUME NEW p \in others, NEW q \in others, p # q
        PROVE  \A u \in Occurrences(p), v \in Occurrences(q) : Id(u) # Id(v)
    BY <2>2 DEF others, Laid, Apart
  <2> QED BY <2>1, <2>2 DEF Apart
<1>11. PICK g, k : After(g, k, target, target)
  BY RankNew DEF Laid
<1>12. /\ g \in [Nodes \X Nat -> Nat] /\ k \in Nat /\ Ranks(g, paths)
       /\ (\A u \in All(paths) : g[Id(u)] < k) /\ g[Id(target)] = k
  BY <1>11 DEF After
<1>13. \A r \in Records(c.path) : Ascends(g, r)
  BY <1>2, <1>12 DEF Ranks
<1>14. \A r \in Records(long) : Ascends(g, r)
  BY <1>1, <1>2, <1>9, <1>12, <1>13, GoesAscends DEF long
<1>15. \A v \in All(raw) : v \in All(paths) \/ v \in {target}
  BY <1>3, <1>9 DEF All, others
<1>16. Coherent(raw)
  <2>1. \A v \in {target} : Fresh(v)
    OBVIOUS
  <2> HIDE DEF raw
  <2> QED BY <1>15, <2>1, CoherentGrows DEF Laid
<1>17. Ranked(raw)
  <2>1. \A p \in raw : \A r \in Records(p) : Ascends(g, r)
    BY <1>12, <1>14 DEF Ranks, others
  <2> DEFINE V == {target}
  <2>2. \A v \in V : Fresh(v) /\ k <= g[Id(v)] /\ g[Id(v)] <= k + 1
    BY <1>12
  <2>3. \A u, v \in V : u.node = v.node => u = v
    OBVIOUS
  <2>4. \A v \in All(raw) : v \in All(paths) \/ v \in V
    BY <1>15
  <2>5. g \in [Nodes \X Nat -> Nat] /\ k \in Nat /\ Ranks(g, paths)
        /\ \A u \in All(paths) : g[Id(u)] < k
    BY <1>12
  <2> HIDE DEF raw, V
  <2> QED BY <2>1, <2>2, <2>3, <2>4, <2>5, RankedGrows
<1>18. Whole(long)
  <2>1. c.path.route \in Records(c.path)
    BY DEF Records
  <2>2. Shape(c.path, phys) /\ Whole(c.path)
    BY <1>2 DEF Shaped, Laid
  <2> QED BY <1>1, <1>2, <1>8, <1>9, <1>12, <1>13, <2>1, <2>2, GoesWhole DEF long
<1>19. \A p \in raw : Whole(p)
  BY <1>18 DEF Laid, others
<1>20. /\ \A v \in All(paths) : Entered(sources', v)
       /\ Entered(sources', target)
  <2>1. Last(c.prefix) \in VisitType
    BY <1>2, TrailParts DEF Witnessed
  <2>2. /\ Spent(sources, Last(c.prefix)) \in [Nodes -> SourceType]
        /\ \A m \in Nodes : Wears(sources[m], Spent(sources, Last(c.prefix))[m])
    BY <2>1, SpentWears DEF Typed, SourcesOK
  <2> HIDE DEF P
  <2> QED BY <1>5, <2>2, LedgerEntered
<1>21. Derived(paths', raw) /\ Apart(paths')
  <2> HIDE DEF P, raw
  <2>1. Derived(paths', P) /\ Apart(paths')
    BY <1>5, <1>6, <1>10, EndsDerived
  <2> QED BY <1>7, <2>1, DerivedAll
<1>22. \A v \in All(raw) : Entered(sources', v)
  BY <1>15, <1>20
<1> HIDE DEF raw
<1> QED BY <1>6, <1>16, <1>17, <1>19, <1>21, <1>22, LaidFrom

\* A path that begins, beside those that keep their slots.
LEMMA NewLaid ==
    ASSUME Typed, Laid, Clocked, NEW target, Fresh(target), NEW S \in SUBSET paths,
           NEW r \in Trails, Whole(NewPath(r)), \A v \in ToSet(r) : Fresh(v),
           \A u, v \in ToSet(r) : u.node = v.node => u = v,
           NEW g \in [Nodes \X Nat -> Nat], NEW k \in Nat, Ranks(g, paths), Ascends(g, r),
           \A u \in All(paths) : g[Id(u)] < k,
           \A v \in ToSet(r) : k <= g[Id(v)] /\ g[Id(v)] <= k + 1,
           NEW old \in [Nodes -> SourceType], \A m \in Nodes : Wears(sources[m], old[m]),
           Ends(S \cup {NewPath(r)}, Recorded(old, target, TRUE)),
           \A v \in ToSet(r) : Entered(sources', v)
    PROVE  Laid'
<1> DEFINE new == NewPath(r)
           P == S \cup {new}
           V == ToSet(r)
<1>1. /\ new \in PathType /\ Occurrences(new) = V /\ Records(new) = {r}
  BY NewPathParts DEF Records
<1> HIDE DEF new
<1>2. P \in SUBSET PathType /\ S \subseteq paths
  BY <1>1 DEF Typed
<1>3. \A v \in All(P) : v \in All(paths) \/ v \in V
  BY <1>1, <1>2 DEF All
<1>4. \A p \in P : \A s \in Records(p) : Ascends(g, s)
  BY <1>1, <1>2 DEF Ranks
<1>5. \A p \in P : Whole(p)
  BY <1>2 DEF Laid, new
<1>6. Apart(P)
  <2>1. ASSUME NEW p \in S, NEW u \in Occurrences(p), NEW v \in Occurrences(new)
        PROVE  Id(u) # Id(v)
    <3>1. u \in All(paths) /\ Fresh(v)
      BY <1>1, <1>2, <2>1 DEF All
    <3>2. u.gen \in Nat /\ v.gen \in Nat
      BY <3>1, AllPast, VisitParts DEF Fresh
    <3>3. u.node = v.node => u.gen # v.gen
      BY <3>1, <3>2 DEF Fresh
    <3> QED BY <3>3, SameIds
  <2>2. ASSUME NEW p \in S, NEW q \in S, p # q
        PROVE  \A u \in Occurrences(p), v \in Occurrences(q) : Id(u) # Id(v)
    BY <1>2, <2>2 DEF Laid, Apart
  <2> QED BY <2>1, <2>2 DEF Apart
<1>7. Ends(P, Recorded(old, target, TRUE))
  BY DEF new
<1> HIDE DEF P
<1>8. \A v \in All(paths) : Entered(sources', v)
  BY <1>7, LedgerEntered
<1>9. \A v \in All(P) : Entered(sources', v)
  BY <1>3, <1>8
<1>10. Derived(paths', P) /\ Apart(paths')
  BY <1>2, <1>6, <1>7, EndsDerived
<1>11. (\A v \in V : Fresh(v)) /\ (\A u, v \in V : u.node = v.node => u = v)
       /\ \A v \in V : Fresh(v) /\ k <= g[Id(v)] /\ g[Id(v)] <= k + 1
  OBVIOUS
<1> HIDE DEF V
<1>12. Coherent(P)
  BY <1>3, <1>11, CoherentGrows DEF Laid
<1>13. Ranked(P)
  BY <1>3, <1>4, <1>11, RankedGrows
<1> QED BY <1>2, <1>5, <1>9, <1>10, <1>12, <1>13, LaidFrom

LEMMA AdmittedLaid ==
    ASSUME Typed, Laid, Clocked, NEW target, Fresh(target), NEW S, Admitted(target, S),
           target.kind # "correlated_positive"
    PROVE  Laid'
<1> DEFINE r == <<target>>
<1>1. target \in VisitType
  BY DEF Fresh
<1>2. r \in Trails /\ ToSet(r) = {target}
  BY <1>1, NewTrails
<1>3. Len(r) = 1 /\ r[1] = target
  OBVIOUS
<1>4. S \in SUBSET paths /\ Ends(S \cup {NewPath(r)}, Recorded(sources, target, TRUE))
  BY DEF Admitted, Kept
<1> HIDE DEF r
<1>5. Rising(r) /\ Stepped(r) /\ Parented(r, r)
  BY <1>3 DEF Rising, Stepped, Parented
<1>6. Whole(NewPath(r))
  BY <1>2, <1>3, <1>5, NewWhole
<1>7. PICK g, k : After(g, k, target, target)
  BY RankNew DEF Laid
<1>8. /\ g \in [Nodes \X Nat -> Nat] /\ k \in Nat /\ Ranks(g, paths)
      /\ (\A u \in All(paths) : g[Id(u)] < k) /\ g[Id(target)] = k
  BY <1>7 DEF After
<1>9. Ascends(g, r)
  BY <1>3 DEF Ascends
<1>10. \A v \in ToSet(r) : k <= g[Id(v)] /\ g[Id(v)] <= k + 1
  BY <1>2, <1>8
<1>11. /\ sources \in [Nodes -> SourceType] /\ \A m \in Nodes : Wears(sources[m], sources[m])
  BY ConsumedWears DEF Typed, SourcesOK
<1>12. \A v \in ToSet(r) : Entered(sources', v)
  BY <1>2, <1>4, <1>11, LedgerEntered
<1>13. (\A v \in ToSet(r) : Fresh(v)) /\ \A u, v \in ToSet(r) : u.node = v.node => u = v
  BY <1>2
<1> QED BY <1>2, <1>4, <1>6, <1>8, <1>9, <1>10, <1>11, <1>12, <1>13, NewLaid

LEMMA PairedLaid ==
    ASSUME Typed, Laid, Clocked, NEW target, Fresh(target), target.at = now,
           NEW m \in OriginNodes(sources, target), OriginVisit(m) \in VisitType,
           NEW S, Paired(target, m, S)
    PROVE  Laid'
<1> SUFFICES ASSUME NEW o, o = OriginVisit(m) PROVE Laid'
  OBVIOUS
<1> DEFINE r == <<o, target>>
           old == [sources EXCEPT ![m].consumed = TRUE]
<1>1. target \in VisitType
  BY DEF Fresh
<1>2. /\ Fresh(o) /\ o.at <= now /\ m \in Nodes /\ m # target.node /\ Step(m, target.node)
      /\ Pending(sources[m]) /\ o.node = m /\ o.gen = sources[m].gen /\ o.at = sources[m].at
      /\ o.kind = "positive"
  BY OriginFresh
<1>3. S \in SUBSET paths /\ Ends(S \cup {NewPath(r)}, Recorded(old, target, TRUE))
  BY DEF Paired, Kept
<1>4. r \in Trails /\ ToSet(r) = {o, target}
  BY <1>1, NewTrails
<1>5. Len(r) = 2 /\ r[1] = o /\ r[2] = target
  OBVIOUS
<1> HIDE DEF r
<1>6. \A i, j \in 1 .. Len(r) : i < j => i = 1 /\ j = 2
  BY <1>5
<1>7. \A i \in 1 .. Len(r) - 1 : i = 1 /\ i + 1 = 2
  BY <1>5
<1>8. Rising(r)
  BY <1>2, <1>5, <1>6 DEF Rising
<1>9. Stepped(r)
  BY <1>2, <1>5, <1>7 DEF Stepped
<1>10. Parented(r, r)
  BY <1>7 DEF Parented
<1>11. Whole(NewPath(r))
  BY <1>2, <1>4, <1>5, <1>8, <1>9, <1>10, NewWhole
<1>13. Id(o) # Id(target)
  BY <1>2, SameIds
<1>12. PICK g, k : After(g, k, o, target)
  BY <1>2, RankNew DEF Laid
<1>14. /\ g \in [Nodes \X Nat -> Nat] /\ k \in Nat /\ Ranks(g, paths)
       /\ \A u \in All(paths) : g[Id(u)] < k
       /\ g[Id(o)] = k /\ g[Id(target)] = k + 1
  BY <1>12, <1>13 DEF After
<1>15. Ascends(g, r)
  BY <1>5, <1>6, <1>14 DEF Ascends
<1>16. \A v \in ToSet(r) : k <= g[Id(v)] /\ g[Id(v)] <= k + 1
  BY <1>4, <1>14
<1>17. sources \in [Nodes -> SourceType]
  BY DEF Typed, SourcesOK
<1>18. old \in [Nodes -> SourceType] /\ \A n \in Nodes : Wears(sources[n], old[n])
  BY <1>2, <1>17, OriginWears
<1>19. old[m].consumed
  <2>1. sources[m] \in SourceType /\ old[m] = [sources[m] EXCEPT !.consumed = TRUE]
    BY <1>2, <1>17
  <2> QED BY <2>1 DEF SourceType
<1> HIDE DEF old
<1>20. Entered(sources', target)
  BY <1>3, <1>18, LedgerEntered
<1>21. Entered(sources', o)
  <2>1. Wears(old[m], sources'[m])
    BY <1>1, <1>2, <1>3, <1>18, EndsLedger
  <2>2. Wears(sources[m], old[m])
    BY <1>2, <1>18
  <2>3. /\ sources'[m].gen = o.gen /\ sources'[m].at = o.at /\ sources'[m].consumed
        /\ sources'[m].origin = "ordinary"
    BY <1>2, <1>19, <2>1, <2>2 DEF Wears, Pending
  <2>4. o.gen <= sources'[m].gen /\ o.at <= sources'[m].at
    <3>1. o.gen \in Nat /\ o.at \in Nat
      BY <1>2, VisitParts DEF Fresh
    <3> QED BY <2>3, <3>1
  <2> QED BY <1>2, <2>3, <2>4 DEF Entered, OriginOf
<1>22. /\ \A v \in ToSet(r) : Fresh(v) /\ Entered(sources', v)
       /\ \A u, v \in ToSet(r) : u.node = v.node => u = v
  BY <1>2, <1>4, <1>20, <1>21
<1> QED BY <1>3, <1>4, <1>11, <1>14, <1>15, <1>16, <1>18, <1>22, NewLaid

\* What an observation leaves in the ledger.
LEMMA OutcomeLedger ==
    ASSUME Typed, NEW target \in VisitType, NEW adopts, Outcome(target, adopts)
    PROVE  /\ \A m \in Nodes : m # target.node => Wears(sources[m], sources'[m])
           /\ sources'[target.node].gen = target.gen /\ sources'[target.node].at = target.at
           /\ sources'[target.node].origin = OriginOf(target.kind)
           /\ count = 0 => sources'[target.node].consumed
<1>1. sources \in [Nodes -> SourceType] /\ \A m \in Nodes : Wears(sources[m], sources[m])
  BY ConsumedWears DEF Typed, SourcesOK
<1> DEFINE Left(b) ==
        /\ \A m \in Nodes : m # target.node => Wears(sources[m], sources'[m])
        /\ sources'[target.node].gen = target.gen /\ sources'[target.node].at = target.at
        /\ sources'[target.node].origin = OriginOf(target.kind)
        /\ b => sources'[target.node].consumed
<1>2. ASSUME NEW old \in [Nodes -> SourceType], \A m \in Nodes : Wears(sources[m], old[m]),
             NEW b \in BOOLEAN, NEW P, Ends(P, Recorded(old, target, b))
      PROVE  Left(b)
  <2>1. /\ \A m \in Nodes : m # target.node => Wears(sources[m], sources'[m])
        /\ Wears([gen |-> target.gen, at |-> target.at, origin |-> OriginOf(target.kind),
                  consumed |-> (b \/ target.kind # "positive")], sources'[target.node])
    BY <1>2, EndsLedger
  <2> QED BY <2>1 DEF Wears
<1> HIDE DEF Left
<1>3. CASE Emptied(target)
  <2>1. Left(TRUE)
    BY <1>1, <1>2, <1>3 DEF Emptied
  <2> QED BY <2>1 DEF Left
<1>4. CASE count # 0 /\ \E c \in Continuations(paths, target, phys) : Went(target, c)
  <2>1. PICK c : Went(target, c)
    BY <1>4
  <2>2. Last(c.prefix) \in VisitType
    BY <2>1, TrailParts DEF Went, Witnessed
  <2>3. Left(TRUE)
    BY <1>1, <1>2, <2>1, <2>2, SpentWears DEF Went
  <2> QED BY <2>3 DEF Left
<1>5. CASE \E m \in OriginNodes(sources, target) : \E S : Paired(target, m, S)
  <2>0. PICK m \in OriginNodes(sources, target) : \E S : Paired(target, m, S)
    BY <1>5
  <2>1. PICK S : Paired(target, m, S)
    BY <2>0
  <2>2. m \in Nodes
    BY DEF OriginNodes
  <2> DEFINE old == [sources EXCEPT ![m].consumed = TRUE]
  <2>3. old \in [Nodes -> SourceType] /\ \A n \in Nodes : Wears(sources[n], old[n])
    BY <1>1, <2>2, OriginWears
  <2>4. Ends(S \cup {NewPath(<<OriginVisit(m), target>>)}, Recorded(old, target, TRUE))
    BY <2>1 DEF Paired
  <2> HIDE DEF old
  <2>5. Left(TRUE)
    BY <1>2, <2>3, <2>4
  <2> QED BY <2>5 DEF Left
<1>6. CASE \E S : Admitted(target, S)
  <2>1. Left(TRUE)
    BY <1>1, <1>2, <1>6 DEF Admitted
  <2> QED BY <2>1 DEF Left
<1>7. CASE count # 0 /\ Awaited(target)
  <2>1. Left(FALSE)
    BY <1>1, <1>2, <1>7 DEF Awaited
  <2> QED BY <1>7, <2>1 DEF Left
<1> QED BY <1>3, <1>4, <1>5, <1>6, <1>7 DEF Outcome

LEMMA StillSpent ==
    ASSUME NEW a, NEW b, Wears(a, b), ~Pending(a) PROVE ~Pending(b)
BY DEF Wears, Pending

LEMMA OutcomeClocked ==
    ASSUME Typed, Shaped, Clocked, NEW n \in Nodes, NEW s, Begins(n, s), NEW adopts,
           ObserveEffect(n, s, adopts)
    PROVE  Clocked'
<1> DEFINE t == TargetOf(n, s)
<1>1. /\ Typed' /\ Outcome(t, adopts) /\ phys'[n] = s /\ UNCHANGED <<now, count>>
      /\ \A m \in Nodes : m # n => phys'[m] = phys[m]
  BY ObservedFrame
<1>2. t \in VisitType /\ t.node = n /\ t.gen = s.gen /\ t.at = now
  BY TargetParts
<1>3. t.kind = Kind(n, s)
  BY DEF TargetOf, Visit
<1>4. s.at = now /\ s.gen \in Nat /\ now \in Nat
  BY Bounds DEF Begins, Newer, Typed, NodeState
<1>5. s.correlated => Kind(n, s) = "correlated_positive"
  BY DEF Begins, Kind
<1> HIDE DEF t
<1>6. /\ \A m \in Nodes : m # n => Wears(sources[m], sources'[m])
      /\ sources'[n].gen = s.gen /\ sources'[n].at = now
      /\ sources'[n].origin = OriginOf(Kind(n, s)) /\ (count = 0 => sources'[n].consumed)
  BY <1>1, <1>2, <1>3, OutcomeLedger
<1>7. ASSUME NEW m \in Nodes
      PROVE  Physical(m)' /\ phys'[m].at <= now' /\ (count' = 0 => ~Pending(sources'[m]))
  <2>1. CASE m = n
    <3>1. s.correlated => sources'[n].origin = "correlated"
      BY <1>5, <1>6 DEF OriginOf
    <3>2. sources'[n].gen <= s.gen /\ sources'[n].at <= s.at /\ s.at <= now
      BY <1>4, <1>6
    <3> QED BY <1>1, <1>4, <1>6, <2>1, <3>1, <3>2 DEF Physical, Pending
  <2>2. CASE m # n
    <3>1. Physical(m) /\ phys[m].at <= now /\ (count = 0 => ~Pending(sources[m]))
      BY DEF Clocked
    <3>2. phys'[m] = phys[m] /\ Wears(sources[m], sources'[m])
      BY <1>1, <1>6, <2>2
    <3>3. Physical(m)'
      BY <3>1, <3>2 DEF Physical, Wears
    <3> QED BY <1>1, <3>1, <3>2, <3>3, StillSpent
  <2> QED BY <2>1, <2>2
<1> QED BY <1>7 DEF Clocked

LEMMA OutcomeLaid ==
    ASSUME Typed, Shaped, Laid, Clocked, NEW n \in Nodes, NEW s, Begins(n, s), NEW adopts,
           ObserveEffect(n, s, adopts)
    PROVE  Laid'
<1> DEFINE t == TargetOf(n, s)
<1>1. Outcome(t, adopts)
  BY ObservedFrame
<1>2. Fresh(t) /\ t.at = now
  BY TargetFresh
<1>3. sources \in [Nodes -> SourceType] /\ \A m \in Nodes : Wears(sources[m], sources[m])
  BY ConsumedWears DEF Typed, SourcesOK
<1> HIDE DEF t
<1>4. ASSUME NEW b \in BOOLEAN, Ends(paths, Recorded(sources, t, b)) PROVE Laid'
  <2>1. \A v \in All(paths) : Entered(sources', v)
    BY <1>2, <1>3, <1>4, LedgerEntered
  <2> QED BY <1>4, <2>1, QuietLaid
<1>5. CASE Emptied(t)
  BY <1>4, <1>5 DEF Emptied
<1>6. CASE \E c \in Continuations(paths, t, phys) : Went(t, c)
  BY <1>2, <1>6, WentLaid
<1>7. CASE \E m \in OriginNodes(sources, t) : OriginVisit(m) \in VisitType /\ \E S : Paired(t, m, S)
  BY <1>2, <1>7, PairedLaid
<1>8. CASE /\ \E S : Admitted(t, S)
           /\ t.kind = "interaction" \/ (t.kind = "positive" /\ adopts)
  BY <1>2, <1>8, AdmittedLaid
<1>9. CASE Awaited(t)
  BY <1>4, <1>9 DEF Awaited
<1> QED BY <1>1, <1>5, <1>6, <1>7, <1>8, <1>9 DEF Outcome

\* The calls without an observation.
LEMMA QuietKept ==
    ASSUME Typed, Typed', Laid, Clocked, QuietCall PROVE Laid' /\ Clocked'
<1>1. Ends(paths, sources) /\ UNCHANGED count
  BY QuietEnds
<1>2. \A n \in Nodes : Same(phys[n], phys'[n])
  BY QuietGrows
<1>3. \A n \in Nodes : Wears(sources[n], sources'[n])
  <2>1. sources' = ReconciledSources(sources, phys')
    BY <1>1 DEF Ends, Settle
  <2> QED BY <2>1, ReconciledWears DEF Typed, SourcesOK
<1>4. now <= now' /\ now \in Nat /\ now' \in Nat
  <2>1. now \in Nat /\ now' \in Nat
    BY Bounds DEF Typed
  <2>2. now' \in {now, now + 1}
    <3>1. CASE \E n \in Nodes : Release(n) \/ Return(n) \/ FrontierReopen(n) \/ FrontierLose(n)
      BY <3>1 DEF Release, Return, FrontierReopen, Reopen, FrontierLose, Lose, PhysicalChange
    <3>2. CASE FrontierStartup
      BY <3>2, StartupGrows DEF FrontierStartup
    <3>3. CASE \E settled \in SUBSET Nodes : FrontierAdvance(settled)
      BY <3>3 DEF FrontierAdvance, Advance
    <3> QED BY <3>1, <3>2, <3>3 DEF QuietCall
  <2> QED BY <2>1, <2>2
<1>5. Laid'
  <2>1. ASSUME NEW v \in All(paths) PROVE Entered(sources', v)
    <3>1. Entered(sources, v) /\ v.node \in Nodes
      BY AllVisits, VisitParts DEF Laid, Typed
    <3> QED BY <1>3, <3>1, EnteredWears
  <2> QED BY <1>1, <2>1, QuietLaid
<1>6. ASSUME NEW n \in Nodes
      PROVE  Physical(n)' /\ phys'[n].at <= now' /\ (count' = 0 => ~Pending(sources'[n]))
  <2>1. Physical(n) /\ phys[n].at <= now /\ (count = 0 => ~Pending(sources[n]))
    BY DEF Clocked
  <2>2. Wears(sources[n], sources'[n]) /\ phys[n].gen <= phys'[n].gen /\ Since(phys[n], phys'[n])
    BY <1>2, <1>3 DEF Same
  <2>3. /\ phys[n].gen \in Nat /\ phys'[n].gen \in Nat /\ phys[n].at \in Int /\ phys'[n].at \in Int
        /\ sources[n].gen \in Nat /\ sources[n].at \in Int
    BY Bounds DEF Typed, SourcesOK, SourceType, NodeState
  <2>4. phys[n].at <= phys'[n].at /\ phys'[n].at <= now'
    BY <1>4, <2>1, <2>2, <2>3 DEF Since
  <2>5. Physical(n)'
    <3>1. CASE sources[n].origin = "none"
      BY <2>2, <3>1 DEF Physical, Wears
    <3>2. CASE sources[n].origin # "none"
      <4>1. /\ sources[n].gen <= phys[n].gen /\ sources[n].at <= phys[n].at
            /\ sources[n].gen = phys[n].gen =>
                  /\ sources[n].at = phys[n].at
                  /\ phys[n].correlated => sources[n].origin = "correlated"
        BY <2>1, <3>2 DEF Physical
      <4>2. /\ sources[n].gen <= phys'[n].gen /\ sources[n].at <= phys'[n].at
            /\ sources[n].gen = phys'[n].gen =>
                  /\ sources[n].at = phys'[n].at
                  /\ phys'[n].correlated => sources[n].origin = "correlated"
        <5>1. CASE phys'[n].gen = phys[n].gen /\ phys'[n].at = phys[n].at
                   /\ (phys'[n].correlated => phys[n].correlated)
          BY <2>3, <4>1, <5>1
        <5>2. CASE phys'[n].gen > phys[n].gen
          BY <2>3, <2>4, <4>1, <5>2
        <5> QED BY <2>2, <5>1, <5>2 DEF Since
      <4> QED BY <2>2, <4>2 DEF Physical, Wears
    <3> QED BY <3>1, <3>2
  <2>6. count' = 0 => ~Pending(sources'[n])
    BY <1>1, <2>1, <2>2, StillSpent
  <2> QED BY <2>4, <2>5, <2>6
<1> QED BY <1>5, <1>6 DEF Clocked

LEMMA CountKept ==
    ASSUME Typed, Shaped, Laid, Clocked, NEW k \in 0 .. MaxCount, SetCount(k)
    PROVE  Laid' /\ Clocked'
<1>1. /\ paths' \subseteq paths /\ count' = k /\ now' = now
      /\ \A n \in Nodes : phys'[n].gen = phys[n].gen /\ phys'[n].at = phys[n].at
      /\ k # 0 => phys' = phys /\ sources' = sources
      /\ k = 0 => /\ \A n \in Nodes : phys'[n] = Uncorrelated(phys[n])
                  /\ \A n \in Nodes : sources'[n] = Consumed(sources[n])
  BY CountParts
<1>2. \A n \in Nodes : Wears(sources[n], sources'[n])
  <2>1. \A n \in Nodes : sources[n] \in SourceType
    BY DEF Typed, SourcesOK
  <2> QED BY <1>1, <2>1, ConsumedWears
<1>3. Laid'
  <2>1. paths \in SUBSET PathType /\ Derived(paths', paths)
    BY <1>1, WithdrawsSelf DEF Typed, Derived
  <2>2. Apart(paths')
    BY <1>1 DEF Laid, Apart
  <2>3. ASSUME NEW v \in All(paths) PROVE Entered(sources', v)
    <3>1. Entered(sources, v) /\ v.node \in Nodes
      BY AllVisits, VisitParts DEF Laid, Typed
    <3> QED BY <1>2, <3>1, EnteredWears
  <2> QED BY <2>1, <2>2, <2>3, LaidFrom DEF Laid
<1>4. ASSUME NEW n \in Nodes
      PROVE  Physical(n)' /\ phys'[n].at <= now' /\ (count' = 0 => ~Pending(sources'[n]))
  <2>1. Physical(n) /\ phys[n].at <= now
    BY DEF Clocked
  <2>2. phys'[n].correlated => phys[n].correlated
    <3>1. phys[n] \in NodeState
      BY DEF Typed
    <3> QED BY <1>1, <3>1 DEF Uncorrelated, NodeState
  <2>3. Physical(n)'
    BY <1>1, <1>2, <2>1, <2>2 DEF Physical, Wears
  <2>4. k = 0 => ~Pending(sources'[n])
    <3>1. sources[n] \in SourceType
      BY DEF Typed, SourcesOK
    <3> QED BY <1>1, <3>1 DEF Consumed, Pending, SourceType
  <2> QED BY <1>1, <2>1, <2>3, <2>4
<1> QED BY <1>3, <1>4 DEF Clocked

LEMMA StepLaid ==
    ASSUME Typed, Shaped, Typed', Laid, Clocked, FrontierNext PROVE Laid' /\ Clocked'
<1>1. CASE \E n \in Nodes : \E s : Begins(n, s) /\ Observation(n, s)
  <2>1. PICK n \in Nodes : \E s : Begins(n, s) /\ Observation(n, s)
    BY <1>1
  <2>2. PICK s : Begins(n, s) /\ Observation(n, s)
    BY <2>1
  <2>3. PICK adopts : ObserveEffect(n, s, adopts)
    BY <2>2, ObservationOutcome
  <2> QED BY <2>2, <2>3, OutcomeLaid, OutcomeClocked
<1>2. CASE QuietCall
  BY <1>2, QuietKept
<1>3. CASE \E k \in 0 .. MaxCount : FrontierCount(k)
  BY <1>3, CountKept DEF FrontierCount
<1> QED BY <1>1, <1>2, <1>3, StepCases

LEMMA InitLaid ==
    ASSUME FrontierInit PROVE Laid /\ Clocked /\ Bounded
<1> DEFINE f == [x \in Nodes \X Nat |-> 0]
<1>1. paths = {} /\ now = 0 /\ count \in Nat /\ phys = [n \in Nodes |-> FreshNode]
      /\ sources = [n \in Nodes |-> NoSource]
  BY Bounds DEF FrontierInit, Init
<1>2. All(paths) = {}
  BY <1>1 DEF All
<1>3. Ranked(paths)
  <2>1. f \in [Nodes \X Nat -> Nat]
    OBVIOUS
  <2>2. Ranks(f, paths) /\ \A v \in All(paths) : f[Id(v)] < 0
    BY <1>1, <1>2 DEF Ranks
  <2> QED BY <2>1, <2>2 DEF Ranked
<1>4. Laid
  BY <1>1, <1>2, <1>3 DEF Laid, Coherent, Apart
<1>5. Clocked
  <2>1. ASSUME NEW n \in Nodes PROVE sources[n].origin = "none" /\ phys[n].at = -1
    BY <1>1 DEF NoSource, FreshNode, NoTime
  <2> QED BY <2>1, <1>1 DEF Clocked, Physical, Pending
<1>6. Bounded
  BY <1>1, FS_EmptySet DEF Bounded
<1> QED BY <1>4, <1>5, <1>6

LEMMA StutterLaid ==
    ASSUME Laid, Clocked, Bounded, UNCHANGED vars PROVE Laid' /\ Clocked' /\ Bounded'
<1>1. Laid'
  BY DEF Laid, vars
<1>2. Clocked'
  BY DEF Clocked, Physical, vars
<1>3. Bounded'
  BY DEF Bounded, vars
<1> QED BY <1>1, <1>2, <1>3

-----------------------------------------------------------------------------
(* The windows of the frontier. *)

TokenType == [node : Nodes, gen : Nat, at : Int, until : Int]

\* A token lasts no longer than the trust in the generation it stands for.
TokenTimed(k) ==
    /\ k \in TokenType /\ now < TrustEnd(k) /\ k.at = phys[k.node].at
    /\ k.at < k.until /\ k.until <= TrustEnd(k)

CandidateTimed(c) == c.at = phys[c.node].at /\ now < c.until

Timed ==
    /\ \A k \in tokens : TokenTimed(k)
    /\ \A j, k \in tokens : j.node = k.node => j = k
    /\ \A c \in candidates : CandidateTimed(c)
    /\ \A c, d \in candidates : Zone[c.node] = Zone[d.node] => c = d

LEMMA WindowBounds ==
    /\ Window \in Nat /\ Window >= 1 /\ Trust \in Nat /\ Trust >= Window
    /\ Bootstrap \in Nat /\ Bootstrap >= 1
BY FrontierAssumption

\* A generation that stands began when it did.
Stands(n) == phys'[n].gen = phys[n].gen => phys'[n].at = phys[n].at

LEMMA SameStands ==
    ASSUME Typed, Typed', NEW n \in Nodes, Same(phys[n], phys'[n]) PROVE Stands(n)
<1>1. phys[n].gen \in Nat /\ phys'[n].gen \in Nat
  BY DEF Typed, NodeState
<1> QED BY <1>1 DEF Same, Since, Stands

LEMMA TokenKept ==
    ASSUME FInv, FInv', Timed, \A n \in Nodes : Stands(n),
           NEW k \in tokens, k \in tokens', now' < TrustEnd(k)
    PROVE  TokenTimed(k)'
<1>1. k.node \in Nodes /\ k.gen = phys[k.node].gen /\ k.gen = phys'[k.node].gen
  BY DEF FInv, Held, TokenHeld
<1>2. TokenTimed(k)
  BY DEF Timed
<1> QED BY <1>1, <1>2 DEF TokenTimed, Stands

LEMMA CandidateKept ==
    ASSUME FInv, FInv', Timed, \A n \in Nodes : Stands(n),
           NEW c \in candidates, c \in candidates', now' < c.until
    PROVE  CandidateTimed(c)'
<1>1. c.node \in Nodes /\ Pending(sources[c.node]) /\ sources[c.node].gen = c.gen
  BY DEF FInv, Held, CandidateHeld
<1>2. Pending(sources'[c.node]) /\ sources'[c.node].gen = c.gen
  BY DEF FInv, Held, CandidateHeld
<1>3. sources[c.node].gen = phys[c.node].gen
  BY <1>1, PendingLive DEF FInv
<1>4. sources'[c.node].gen = phys'[c.node].gen
  <2>1. /\ Typed' /\ Shaped'
    BY DEF FInv
  <2>2. sources' = ReconciledSources(sources', phys')
    BY <2>1 DEF Shaped
  <2>3. Pending(ReconciledSources(sources', phys')[c.node])
    BY <1>2, <2>2
  <2>4. SourceLive(c.node, sources'[c.node], phys')
    BY <1>1, <2>3 DEF ReconciledSources, Consumed, Pending
  <2> QED BY <2>4 DEF SourceLive
<1>5. CandidateTimed(c)
  BY DEF Timed
<1> QED BY <1>1, <1>2, <1>3, <1>4, <1>5 DEF CandidateTimed, Stands

\* Calls that keep tokens and candidates, or drop them.
LEMMA TimedKept ==
    ASSUME FInv, FInv', Timed, \A n \in Nodes : Stands(n),
           \A k \in tokens' : k \in tokens /\ now' < TrustEnd(k),
           \A c \in candidates' : c \in candidates /\ now' < c.until
    PROVE  Timed'
<1>1. \A k \in tokens' : TokenTimed(k)'
  BY TokenKept
<1>2. \A c \in candidates' : CandidateTimed(c)'
  BY CandidateKept
<1>3. \A j, k \in tokens' : j.node = k.node => j = k
  BY DEF Timed
<1>4. \A c, d \in candidates' : Zone[c.node] = Zone[d.node] => c = d
  BY DEF Timed
<1> QED BY <1>1, <1>2, <1>3, <1>4 DEF Timed

\* The same, at the same time.
LEMMA TimedLess ==
    ASSUME FInv, FInv', Timed, \A n \in Nodes : Stands(n), now' = now,
           tokens' \subseteq tokens, candidates' \subseteq candidates
    PROVE  Timed'
<1>1. \A k \in tokens' : k \in tokens /\ now' < TrustEnd(k)
  BY DEF Timed, TokenTimed
<1>2. \A c \in candidates' : c \in candidates /\ now' < c.until
  BY DEF Timed, CandidateTimed
<1> QED BY <1>1, <1>2, TimedKept

LEMMA BeginsStands ==
    ASSUME Typed, NEW n \in Nodes, NEW s, Begins(n, s), phys'[n] = s,
           \A m \in Nodes : m # n => phys'[m] = phys[m]
    PROVE  \A m \in Nodes : Stands(m)
<1>1. phys[n].gen \in Nat
  BY DEF Typed, NodeState
<1> QED BY <1>1 DEF Begins, Newer, Stands

LEMMA AskedTimed ==
    ASSUME FInv, FInv', Timed, NEW n \in Nodes, NEW s, Begins(n, s), Asked(n, s)
    PROVE  Timed'
<1> DEFINE target == TargetOf(n, s)
           ordinary == target.kind = "positive"
<1>1. /\ phys'[n] = s /\ (\A m \in Nodes : m # n => phys'[m] = phys[m])
      /\ now' = now /\ target \in VisitType /\ target.node = n /\ n \notin CoveredNodes(paths)
  BY AskedParts
<1>2. \A k \in tokens' : k \in tokens \/ k = Token(target)
  BY AskedParts
<1>3. \A c \in candidates' : \/ c \in candidates /\ (ordinary => Zone[c.node] # Zone[n])
                             \/ ordinary /\ c = Candidate(target)
  BY AskedParts
<1>4. target.at = now /\ target.gen = s.gen /\ s.at = now
  BY TargetParts DEF FInv, Begins, Newer
<1> HIDE DEF target, ordinary
<1>5. \A m \in Nodes : Stands(m)
  BY <1>1, BeginsStands DEF FInv
<1>6. now \in Nat /\ target.gen \in Nat
  BY <1>1, Bounds, VisitParts DEF FInv, Typed
<1>7. ASSUME NEW k \in tokens PROVE k.node # n
  <2>1. PICK p \in paths : <<k.node, k.gen>> \in CoveredIds(p)
    BY DEF FInv, Held, TokenHeld
  <2>2. PICK v \in Coverage(p) : Id(v) = <<k.node, k.gen>>
    BY <2>1 DEF CoveredIds
  <2>3. v.node = k.node
    BY <2>2 DEF Id
  <2> QED BY <1>1, <2>3, CoveredNode
<1>8. TokenTimed(Token(target))'
  <2>1. /\ Token(target).node = n /\ Token(target).gen = target.gen /\ Token(target).at = now
        /\ Token(target).until = now + Window /\ Token(target) \in TokenType
    BY <1>1, <1>4, <1>6, WindowBounds DEF Token, TokenType
  <2>2. TrustEnd(Token(target)) = now + Trust
    BY <2>1 DEF TrustEnd
  <2> QED BY <1>1, <1>4, <1>6, <2>1, <2>2, WindowBounds DEF TokenTimed
<1>9. CandidateTimed(Candidate(target))'
  <2>1. /\ Candidate(target).node = n /\ Candidate(target).at = now
        /\ Candidate(target).until = now + Bootstrap
    BY <1>1, <1>4 DEF Candidate
  <2> QED BY <1>1, <1>4, <1>6, <2>1, WindowBounds DEF CandidateTimed
<1>10. \A k \in tokens' : TokenTimed(k)'
  <2>1. ASSUME NEW k \in tokens, k \in tokens' PROVE TokenTimed(k)'
    <3>1. now' < TrustEnd(k)
      BY <1>1 DEF Timed, TokenTimed
    <3> QED BY <1>5, <2>1, <3>1, TokenKept
  <2> QED BY <1>2, <1>8, <2>1
<1>11. \A c \in candidates' : CandidateTimed(c)'
  <2>1. ASSUME NEW c \in candidates, c \in candidates' PROVE CandidateTimed(c)'
    <3>1. now' < c.until
      BY <1>1 DEF Timed, CandidateTimed
    <3> QED BY <1>5, <2>1, <3>1, CandidateKept
  <2> QED BY <1>3, <1>9, <2>1
<1>12. \A j, k \in tokens' : j.node = k.node => j = k
  <2>1. Token(target).node = n
    BY <1>1 DEF Token
  <2> QED BY <1>2, <1>7, <2>1 DEF Timed
<1>13. \A c, d \in candidates' : Zone[c.node] = Zone[d.node] => c = d
  <2>1. Candidate(target).node = n
    BY <1>1 DEF Candidate
  <2> QED BY <1>3, <2>1 DEF Timed
<1> QED BY <1>10, <1>11, <1>12, <1>13 DEF Timed

LEMMA ObservationTimed ==
    ASSUME FInv, FInv', Timed, NEW n \in Nodes, NEW s, Begins(n, s), Observation(n, s)
    PROVE  Timed'
<1>1. CASE Asked(n, s)
  BY <1>1, AskedTimed
<1>2. CASE NotAsked(n, s) \/ EmptyHouse(n, s)
  <2>1. PICK adopts : ObserveEffect(n, s, adopts)
    BY <1>2 DEF NotAsked, EmptyHouse
  <2>2. /\ \A m \in Nodes : m # n => phys'[m] = phys[m]
        /\ phys'[n] = s /\ now' = now
    BY <2>1, ObservedFrame DEF FInv
  <2>3. \A m \in Nodes : Stands(m)
    BY <2>2, BeginsStands DEF FInv
  <2>4. tokens' \subseteq tokens /\ candidates' \subseteq candidates
    BY <1>2 DEF NotAsked, EmptyHouse, Selected, Leave, Without
  <2> QED BY <2>2, <2>3, <2>4, TimedLess
<1> QED BY <1>1, <1>2 DEF Observation

\* A flap moves the deadline of a retained token within the trust in it.
LEMMA ReopenedTimed ==
    ASSUME Typed, Clocked, NEW o, TokenTimed(o)
    PROVE  LET k == ReopenedToken(o) IN k.node = o.node /\ k.at = o.at /\ TokenTimed(k)
<1>1. /\ o \in TokenType /\ o.at \in Int /\ o.until \in Int /\ o.node \in Nodes
      /\ now < o.at + Trust /\ o.at = phys[o.node].at
  BY DEF TokenTimed, TokenType, TrustEnd
<1>2. now \in Nat /\ o.at <= now
  BY <1>1, Bounds DEF Typed, Clocked
<1> DEFINE u == IF now + Window <= TrustEnd(o) THEN now + Window ELSE TrustEnd(o)
<1>3. u \in Int /\ o.at < u /\ u <= o.at + Trust
  BY <1>1, <1>2, WindowBounds DEF TrustEnd
<1>4. ReopenedToken(o) = [o EXCEPT !.until = u]
  BY DEF ReopenedToken
<1> HIDE DEF u
<1> DEFINE k == [o EXCEPT !.until = u]
<1>5. k.node = o.node /\ k.at = o.at /\ k.until = u /\ k \in TokenType
  BY <1>1, <1>3 DEF TokenType
<1> HIDE DEF k
<1>6. TokenTimed(k)
  BY <1>1, <1>3, <1>5 DEF TokenTimed, TrustEnd
<1> QED BY <1>4, <1>5, <1>6 DEF k

LEMMA ReopenTimed ==
    ASSUME FInv, FInv', Timed, Clocked, NEW n \in Nodes, FrontierReopen(n),
           \A m \in Nodes : Stands(m)
    PROVE  Timed'
<1> DEFINE new(k) == IF Reopens(k, n) THEN ReopenedToken(k) ELSE k
           ts == {new(k) : k \in tokens}
<1>1. Leave(ts, candidates) /\ now' = now
  BY DEF FrontierReopen, Reopen, PhysicalChange
<1>2. tokens' \subseteq ts /\ candidates' \subseteq candidates
  BY <1>1 DEF Leave, Without
<1>3. ASSUME NEW k \in tokens PROVE new(k).node = k.node /\ TokenTimed(new(k))
  BY ReopenedTimed DEF FInv, Timed
<1>4. ASSUME NEW k \in tokens' PROVE \E o \in tokens : k = new(o)
  BY <1>2
<1> HIDE DEF new, ts
<1>5. \A j, k \in tokens' : j.node = k.node => j = k
  BY <1>3, <1>4 DEF Timed
<1>6. ASSUME NEW k \in tokens' PROVE TokenTimed(k)'
  <2>1. TokenTimed(k)
    BY <1>3, <1>4
  <2>2. PICK o \in tokens : k.node = o.node
    BY <1>3, <1>4
  <2>3. /\ k.node \in Nodes /\ k.gen = phys'[k.node].gen
    <3>1. TokenHeld(k)'
      BY DEF FInv, Held
    <3> QED BY <3>1 DEF TokenHeld
  <2>4. phys'[k.node].gen = phys[k.node].gen
    <3>1. Reopen(n)
      BY DEF FrontierReopen
    <3>2. phys[n] \in NodeState /\ Typed
      BY DEF FInv, Typed
    <3>3. Reopened(phys[n]).gen = phys[n].gen
      BY <3>2 DEF Reopened, NodeState
    <3>4. phys'[n] = Reopened(phys[n]) /\ \A m \in Nodes : m # n => phys'[m] = phys[m]
      BY <3>1, <3>2, OneQuiet DEF Reopen
    <3> QED BY <2>3, <3>3, <3>4
  <2> QED BY <1>1, <2>1, <2>3, <2>4 DEF TokenTimed, Stands
<1>7. \A c \in candidates' : CandidateTimed(c)'
  <2>1. ASSUME NEW c \in candidates' PROVE c \in candidates /\ now' < c.until
    BY <1>1, <1>2 DEF Timed, CandidateTimed
  <2> QED BY <2>1, CandidateKept
<1>8. \A c, d \in candidates' : Zone[c.node] = Zone[d.node] => c = d
  BY <1>2 DEF Timed
<1> QED BY <1>5, <1>6, <1>7, <1>8 DEF Timed

LEMMA StepTimed ==
    ASSUME FInv, FInv', Timed, Clocked, FrontierNext PROVE Timed'
<1> USE DEF FInv
<1>1. CASE \E n \in Nodes : FrontierPress(n) \/ FrontierPositive(n) \/ FrontierCorrelated(n)
  <2>1. PICK n \in Nodes : FrontierPress(n) \/ FrontierPositive(n) \/ FrontierCorrelated(n)
    BY <1>1
  <2>2. PICK s : Begins(n, s) /\ Observation(n, s)
    BY <2>1, ObservationBegins
  <2> QED BY <2>2, ObservationTimed
<1>2. ASSUME QuietCall PROVE \A n \in Nodes : Stands(n)
  BY <1>2, QuietGrows, SameStands
<1>3. CASE \E n \in Nodes : (Release(n) \/ Return(n)) /\ Keep
  <2>1. PICK n \in Nodes : (Release(n) \/ Return(n)) /\ Keep
    BY <1>3
  <2>2. \A m \in Nodes : Stands(m)
    BY <1>2, <2>1 DEF QuietCall
  <2>3. now' = now /\ tokens' \subseteq tokens /\ candidates' \subseteq candidates
    BY <2>1 DEF Release, Return, PhysicalChange, Keep, Leave, Without
  <2> QED BY <2>2, <2>3, TimedLess
<1>4. CASE \E n \in Nodes : FrontierReopen(n)
  BY <1>2, <1>4, ReopenTimed DEF QuietCall
<1>5. CASE (\E n \in Nodes : FrontierLose(n)) \/ FrontierStartup
  <2>1. \A m \in Nodes : Stands(m)
    BY <1>2, <1>5 DEF QuietCall
  <2>2. now' = now
    <3>1. CASE \E n \in Nodes : FrontierLose(n)
      BY <3>1 DEF FrontierLose, Lose, PhysicalChange
    <3>2. CASE FrontierStartup
      BY <3>2, StartupGrows DEF FrontierStartup
    <3> QED BY <1>5, <3>1, <3>2
  <2>3. tokens' \subseteq tokens /\ candidates' \subseteq candidates
    BY <1>5 DEF FrontierLose, FrontierStartup, Leave, Without
  <2> QED BY <2>1, <2>2, <2>3, TimedLess
<1>6. CASE \E settled \in SUBSET Nodes : FrontierAdvance(settled)
  <2>1. \A m \in Nodes : Stands(m)
    BY <1>2, <1>6 DEF QuietCall
  <2>2. Leave(Aged(tokens, now'), Open(candidates, now'))
    BY <1>6 DEF FrontierAdvance
  <2>3. \A k \in tokens' : k \in tokens /\ now' < TrustEnd(k)
    BY <2>2 DEF Leave, Without, Aged
  <2>4. \A c \in candidates' : c \in candidates /\ now' < c.until
    BY <2>2 DEF Leave, Without, Open
  <2> QED BY <2>1, <2>3, <2>4, TimedKept
<1>7. CASE \E k \in 0 .. MaxCount : FrontierCount(k)
  <2>1. PICK k \in 0 .. MaxCount : FrontierCount(k)
    BY <1>7
  <2>2. /\ now' = now /\ \A m \in Nodes : Stands(m)
    <3>1. SetCount(k)
      BY <2>1 DEF FrontierCount
    <3> QED BY <3>1, CountParts DEF Stands
  <2>3. tokens' \subseteq tokens /\ candidates' \subseteq candidates
    BY <2>1 DEF FrontierCount, Leave, Without
  <2> QED BY <2>2, <2>3, TimedLess
<1> QED BY <1>1, <1>3, <1>4, <1>5, <1>6, <1>7 DEF FrontierNext

LEMMA InitTimed ==
    ASSUME FrontierInit PROVE Timed
BY DEF FrontierInit, Timed

LEMMA StutterTimed ==
    ASSUME Timed, UNCHANGED <<vars, frontier>> PROVE Timed'
BY DEF Timed, TokenTimed, CandidateTimed, vars, frontier

\* The windows, with what the frontier holds, make its snapshot acceptable.
LEMMA TimedRestorable ==
    ASSUME FInv, Timed, Clocked PROVE FrontierRestorable
<1>1. ASSUME NEW k \in tokens PROVE TokenOK(k)
  <2>1. /\ k.node \in Nodes \ InteractionNodes /\ k.gen = phys[k.node].gen /\ k.gen > 0
        /\ k.gen \in Nat
    BY DEF FInv, Held, TokenHeld, Typed, NodeState
  <2>2. /\ now < TrustEnd(k) /\ k.at = phys[k.node].at /\ k.at < k.until
        /\ k.until <= TrustEnd(k) /\ k.at \in Int /\ k.until \in Int
    BY DEF Timed, TokenTimed, TokenType
  <2>3. k.at <= now
    BY <2>1, <2>2 DEF Clocked
  <2>4. TrustEnd(k) \in Int
    BY <2>2, WindowBounds DEF TrustEnd
  <2> QED BY <2>1, <2>2, <2>3, <2>4 DEF TokenOK
<1>2. ASSUME NEW c \in candidates PROVE CandidateOK(c)
  <2>1. c.node \in Nodes /\ Pending(sources[c.node]) /\ sources[c.node].gen = c.gen
    BY DEF FInv, Held, CandidateHeld
  <2>2. c.gen = phys[c.node].gen /\ KnownOn(phys[c.node])
    BY <2>1, PendingLive DEF FInv
  <2>3. CandidateTimed(c)
    BY DEF Timed
  <2> QED BY <2>2, <2>3 DEF CandidateOK, CandidateTimed, KnownOn
<1> QED BY <1>1, <1>2 DEF FrontierRestorable, Timed

-----------------------------------------------------------------------------
(* What is laid down makes a snapshot acceptable. *)

\* The copies of an observation are equal, also in their authority.
LEMMA CopiesEqual ==
    ASSUME Typed, Shaped, Laid, NEW u \in All(paths), NEW v \in All(paths), Id(u) = Id(v)
    PROVE  u = v
<1>1. PICK p \in paths : u \in Occurrences(p)
  BY DEF All
<1>2. PICK q \in paths : v \in Occurrences(q)
  BY DEF All
<1>3. p = q
  BY <1>1, <1>2 DEF Laid, Apart
<1>4. u \in VisitType /\ v \in VisitType
  BY AllVisits DEF Typed
<1>5. u.active = v.active
  BY <1>1, <1>2, <1>3, <1>4 DEF Shaped, Shape, VisitType
<1>6. u.node = v.node /\ u.gen = v.gen
  BY DEF Id
<1>7. u.at = v.at /\ u.kind = v.kind
  BY <1>6 DEF Laid, Coherent, Twin
<1> QED BY <1>4, <1>5, <1>6, <1>7 DEF VisitType

LEMMA AllIds ==
    ASSUME Typed, NEW v \in All(paths) PROVE v \in VisitType /\ Id(v) \in Nodes \X Nat
<1>1. v \in VisitType
  BY AllVisits DEF Typed
<1> QED BY <1>1 DEF VisitType, Id

LEMMA RecordIn ==
    ASSUME Typed, NEW p \in paths, NEW r \in Records(p)
    PROVE  r \in Trails /\ \A i \in 1 .. Len(r) : r[i] \in Occurrences(p) /\ r[i] \in All(paths)
<1>1. p \in PathType
  BY DEF Typed
<1>2. r \in Trails
  BY <1>1, PathParts DEF Records
<1>3. ToSet(r) \subseteq Occurrences(p)
  BY RecordsRows
<1>4. Occurrences(p) \subseteq All(paths)
  BY DEF All
<1> QED BY <1>2, <1>3, <1>4, TrailParts

LEMMA LaidChronological ==
    ASSUME Typed, Laid, NEW p \in paths, NEW r \in Records(p) PROVE Chronological(r)
<1>1. r \in Trails /\ \A i \in 1 .. Len(r) : r[i] \in All(paths)
  BY RecordIn
<1>2. DOMAIN r = 1 .. Len(r)
  BY <1>1, TrailParts
<1>3. PICK f \in [Nodes \X Nat -> Nat] : Ranks(f, paths)
  BY DEF Laid, Ranked
<1>4. Ascends(f, r) /\ Rising(r)
  BY <1>3 DEF Ranks, Laid, Whole
<1>5. ASSUME NEW i \in 1 .. Len(r), NEW j \in 1 .. Len(r), i < j, r[i].node = r[j].node
      PROVE  r[i].gen < r[j].gen
  <2>1. f[Id(r[i])] < f[Id(r[j])]
    BY <1>4, <1>5 DEF Ascends
  <2>2. f[Id(r[i])] \in Nat /\ f[Id(r[j])] \in Nat
    BY <1>1, <1>3, AllIds
  <2>3. r[i].gen \in Nat /\ r[j].gen \in Nat
    BY <1>1, AllIds, VisitParts
  <2>4. r[i].gen # r[j].gen
    BY <1>5, <2>1, <2>2 DEF Id
  <2>5. ~(r[j].gen < r[i].gen)
    BY <1>1, <1>3, <1>5, <2>1, <2>2 DEF Ranks
  <2> QED BY <2>3, <2>4, <2>5
<1> QED BY <1>2, <1>4, <1>5 DEF Chronological, Rising

LEMMA LaidSameOrder ==
    ASSUME Typed, Laid, NEW p \in paths PROVE SameOrder(p)
<1>1. p.visits \in Records(p) /\ p.route \in Records(p)
  BY DEF Records
<1>2. PICK f \in [Nodes \X Nat -> Nat] : Ranks(f, paths)
  BY DEF Laid, Ranked
<1>3. Ascends(f, p.visits) /\ Ascends(f, p.route)
  BY <1>1, <1>2 DEF Ranks
<1>4. p.visits \in Trails /\ p.route \in Trails
  BY <1>1, RecordIn
<1>5. ASSUME NEW i \in 1 .. Len(p.visits), NEW j \in 1 .. Len(p.visits),
             NEW k \in 1 .. Len(p.route), NEW l \in 1 .. Len(p.route),
             Id(p.visits[i]) = Id(p.route[k]), Id(p.visits[j]) = Id(p.route[l]), i < j
      PROVE  k < l
  <2>1. f[Id(p.route[k])] < f[Id(p.route[l])]
    BY <1>3, <1>5 DEF Ascends
  <2>2. f[Id(p.route[k])] \in Nat /\ f[Id(p.route[l])] \in Nat
    BY <1>1, <1>2, RecordIn, AllIds
  <2>3. ASSUME l < k PROVE FALSE
    <3>1. f[Id(p.route[l])] < f[Id(p.route[k])]
      BY <1>3, <2>3 DEF Ascends
    <3> QED BY <2>1, <2>2, <3>1
  <2>4. k # l
    BY <2>1, <2>2
  <2> QED BY <1>4, <2>3, <2>4, TrailParts
<1> QED BY <1>4, <1>5, TrailParts DEF SameOrder

LEMMA MovesOf ==
    ASSUME NEW p, NEW m \in Moves(p)
    PROVE  \E r \in Rows(p) : \E i \in 1 .. Len(r) - 1 : m[1] = r[i] /\ m[2] = r[i + 1]
BY DEF Moves, Rows

LEMMA LaidMoves ==
    ASSUME Typed, Laid, NEW p \in paths
    PROVE  OneParent(p) /\ \A m \in Moves(p) : Step(m[1].node, m[2].node)
<1>1. \A r \in Rows(p) : Stepped(r) /\ \A s \in Rows(p) : Parented(r, s)
  BY DEF Laid, Whole
<1>2. OneParent(p)
  BY <1>1, MovesOf DEF OneParent, Parented
<1>3. \A m \in Moves(p) : Step(m[1].node, m[2].node)
  BY <1>1, MovesOf DEF Stepped
<1> QED BY <1>2, <1>3

LEMMA FiniteImage ==
    ASSUME NEW S, IsFiniteSet(S), NEW f
    PROVE  IsFiniteSet({f[x] : x \in S}) /\ Cardinality({f[x] : x \in S}) <= Cardinality(S)
<1> DEFINE g == [x \in S |-> f[x]]
           T == {f[x] : x \in S}
<1>1. g \in Surjection(S, T)
  BY DEF Surjection
<1> HIDE DEF g, T
<1>2. IsFiniteSet(T) /\ Cardinality(T) <= Cardinality(S)
  BY <1>1, FS_Surjection
<1> QED BY <1>2 DEF T

LEMMA FiniteIds ==
    ASSUME NEW r \in Trails
    PROVE  /\ IsFiniteSet(Ids(r)) /\ Cardinality(Ids(r)) \in Nat /\ Cardinality(Ids(r)) <= Len(r)
           /\ IsFiniteSet(ToSet(r))
<1> DEFINE f == [i \in 1 .. Len(r) |-> Id(r[i])]
<1>1. Len(r) \in Nat /\ 1 <= Len(r) /\ ToSet(r) = {r[i] : i \in 1 .. Len(r)}
  BY TrailParts
<1>2. IsFiniteSet(1 .. Len(r)) /\ Cardinality(1 .. Len(r)) = Len(r)
  BY <1>1, FS_Interval
<1>3. Ids(r) = {f[i] : i \in 1 .. Len(r)}
  BY IdsOf
<1> HIDE DEF f
<1>4. IsFiniteSet(Ids(r)) /\ Cardinality(Ids(r)) <= Len(r)
  BY <1>2, <1>3, FiniteImage
<1>5. IsFiniteSet(ToSet(r))
  BY <1>1, <1>2, FiniteImage
<1> QED BY <1>4, <1>5, FS_CardinalityType

LEMMA LaidTips ==
    ASSUME Typed, Shaped, Laid, NEW p \in paths
    PROVE  IsFiniteSet(p.branches) /\ TipsOK(p)
<1>1. p \in PathType /\ Shape(p, phys) /\ Tipped(p) /\ Id(Last(p.visits)) = Id(Endpoint(p))
  BY DEF Typed, Shaped, Laid, Whole
<1>2. p.visits \in Trails /\ p.route \in Trails
  BY <1>1, PathParts
<1> DEFINE D == Ids(p.visits)
           E == D \ {Id(Endpoint(p))}
           f == [w \in p.branches |-> Id(Last(w))]
<1>3. Id(Endpoint(p)) \in D /\ Id(Endpoint(p)) \in Ids(p.route)
  BY <1>1, <1>2, IdsOf DEF Endpoint
<1>4. IsFiniteSet(D) /\ Cardinality(D) \in Nat /\ Cardinality(D) <= Limit
  BY <1>2, FiniteIds, TrailParts, Bounds
<1> HIDE DEF D
<1>5. IsFiniteSet(E) /\ Cardinality(E) = Cardinality(D) - 1
  BY <1>3, <1>4, FS_RemoveElement
<1>6. f \in Injection(p.branches, E)
  <2>1. \A w \in p.branches : f[w] \in E
    BY <1>1, <1>3 DEF Shape, D
  <2>2. \A w, x \in p.branches : f[w] = f[x] => w = x
    BY <1>1 DEF Tipped
  <2> QED BY <2>1, <2>2 DEF Injection, IsInjective
<1> HIDE DEF E, f
<1>7. IsFiniteSet(p.branches) /\ Cardinality(p.branches) <= Cardinality(E)
  BY <1>5, <1>6, FS_Injection
<1>8. Cardinality(p.branches) < Limit
  BY <1>4, <1>5, <1>7, FS_CardinalityType, Bounds
<1>9. \A tip \in Tips(p) : /\ tip.kind # "interaction" /\ tip.active
                           /\ Id(tip) \in Ids(p.visits) \ Ids(p.route)
  BY <1>1 DEF Tips, Shape
<1> QED BY <1>1, <1>7, <1>8, <1>9 DEF TipsOK, Tipped

LEMMA LaidPath ==
    ASSUME Typed, Shaped, Laid, NEW p \in paths PROVE PathOK(p)
<1>1. p \in PathType /\ Shape(p, phys) /\ Whole(p)
  BY DEF Typed, Shaped, Laid
<1>2. p.visits \in Trails /\ p.route \in Trails /\ p.branches \subseteq Trails
  BY <1>1, PathParts
<1>3. \A v \in Occurrences(p) : v \in All(paths)
  BY DEF All
<1>4. Last(p.visits) = Endpoint(p)
  <2>1. Last(p.visits) \in Occurrences(p) /\ Endpoint(p) \in Occurrences(p)
    BY <1>1, <1>2, OccurrenceParts, TrailParts
  <2> QED BY <1>1, <1>3, <2>1, CopiesEqual DEF Whole
<1>5. CopiesAgree(Occurrences(p))
  <2>1. ASSUME NEW u \in Occurrences(p), NEW v \in Occurrences(p), u.node = v.node
        PROVE  (u.gen = v.gen => u = v) /\ (u.gen < v.gen => u.at <= v.at)
    <3>1. u.gen = v.gen => Id(u) = Id(v)
      BY <2>1 DEF Id
    <3>2. u.gen < v.gen => u.at <= v.at
      BY <1>3, <2>1 DEF Laid, Coherent, Twin
    <3> QED BY <1>3, <3>1, <3>2, CopiesEqual
  <2> QED BY <2>1 DEF CopiesAgree
<1>6. AuthorityOK(p)
  <2>1. AuthorityIds(p) = {Id(u) : u \in Authoritative(p)}
    BY DEF AuthorityIds, Ids, Authoritative, Tips
  <2> QED BY <1>1, <2>1 DEF AuthorityOK, Shape
<1>7. Head(p.visits) = p.visits[1]
  BY <1>2, TrailParts
<1>8. SpatialOK(p)
  <2>1. \A t : SeenAt(p.visits, t) => t \in {v.at : v \in ToSet(p.visits)}
    <3>1. ToSet(p.visits) = {p.visits[i] : i \in 1 .. Len(p.visits)}
      BY <1>2, TrailParts
    <3> QED BY <3>1 DEF SeenAt
  <2> QED BY <1>1, <1>7, <2>1 DEF SpatialOK, Whole
<1>9. Len(p.visits) < Limit => Head(p.visits).kind # "correlated_positive"
  BY <1>1, <1>7 DEF Whole
<1>10. p.confirmed => Len(p.visits) >= 3
  BY <1>1 DEF Whole
<1>11. \A r \in Records(p) : Chronological(r)
  BY LaidChronological
<1>12. SameOrder(p) /\ OneParent(p) /\ TipsOK(p)
  BY LaidSameOrder, LaidMoves, LaidTips
<1> QED BY <1>4, <1>5, <1>6, <1>8, <1>9, <1>10, <1>11, <1>12 DEF PathOK

LEMMA LaidAccounted ==
    ASSUME Typed, Shaped, Laid, NEW p \in paths, NEW v \in Occurrences(p) PROVE Accounted(p, v)
<1>1. p \in PathType /\ Shape(p, phys)
  BY DEF Typed, Shaped
<1>2. v \in VisitType /\ v \in All(paths) /\ Endpoint(p) \in Occurrences(p)
  BY <1>1, OccurrenceParts DEF All
<1>3. Entered(sources, v)
  BY <1>2 DEF Laid
<1>4. v.node \in Nodes /\ v.gen \in Nat
  BY <1>2, VisitParts
<1>5. /\ sources[v.node].gen \in Nat /\ phys[v.node].gen \in Nat
      /\ sources[v.node].gen <= phys[v.node].gen
      /\ sources[v.node].at \in Int /\ v.at \in Int
  BY <1>2, <1>4, Bounds DEF Typed, SourcesOK, SourceType, NodeState, VisitType
<1>6. ASSUME sources[v.node].gen > v.gen PROVE ~v.active /\ ~(v = Endpoint(p) /\ p.eligible)
  <2>1. phys[v.node].gen # v.gen
    BY <1>4, <1>5, <1>6
  <2> QED BY <1>1, <2>1 DEF Shape, BranchLive, EndpointLive, SameGeneration
<1> QED BY <1>3, <1>4, <1>5, <1>6 DEF Accounted, Entered

LEMMA TypedOK ==
    ASSUME Typed PROVE TypeOK
<1>1. ASSUME NEW p \in paths
      PROVE  /\ \A r \in Records(p) : IsRecords(r)
             /\ p.spatialAt \in 0 .. MaxTime /\ p.confirmed \in BOOLEAN /\ p.eligible \in BOOLEAN
  <2>1. p \in PathType
    BY DEF Typed
  <2>2. \A r \in Records(p) : r \in Trails
    BY RecordIn
  <2>3. ASSUME NEW r \in Trails PROVE IsRecords(r)
    BY TrailParts DEF IsRecords, Trails
  <2> QED BY <2>1, <2>2, <2>3, PathParts
<1> QED BY <1>1 DEF TypeOK, Typed, SourcesOK

-----------------------------------------------------------------------------
(* Observations that can be ranked have no cycle. *)

EdgeIds(edges) == {e[1] : e \in edges} \cup {e[2] : e \in edges}

\* What has a predecessor.
Peel(edges, S) == {i \in S : \E e \in edges : e[2] = i /\ e[1] \in S}

\* The first n rounds of peeling.
Peeled(edges, ids, n, g) ==
    g = [k \in 0 .. n |-> IF k = 0 THEN ids ELSE Peel(edges, g[k - 1])]

LEMMA PeeledExists ==
    ASSUME NEW edges, NEW ids, NEW n \in Nat
    PROVE  \E g : Peeled(edges, ids, n, g)
<1> DEFINE T == {m \in Nat : ~\E g : Peeled(edges, ids, m, g)}
<1>1. ASSUME NEW m \in T, \A k \in T : m <= k PROVE FALSE
  <2>1. CASE m = 0
    <3> DEFINE g == [k \in 0 .. 0 |-> ids]
    <3>1. g = [k \in 0 .. 0 |-> IF k = 0 THEN ids ELSE Peel(edges, g[k - 1])]
      OBVIOUS
    <3> QED BY <2>1, <3>1 DEF Peeled
  <2>2. CASE m # 0
    <3>1. m - 1 \in Nat /\ m - 1 \notin T
      BY <1>1, <2>2
    <3>2. PICK h : Peeled(edges, ids, m - 1, h)
      BY <3>1
    <3>3. \A k \in 0 .. m - 1 : h[k] = IF k = 0 THEN ids ELSE Peel(edges, h[k - 1])
      BY <3>2 DEF Peeled
    <3> DEFINE g == [k \in 0 .. m |-> IF k = m THEN Peel(edges, h[m - 1]) ELSE h[k]]
    <3>4. ASSUME NEW k \in 0 .. m PROVE g[k] = IF k = 0 THEN ids ELSE Peel(edges, g[k - 1])
      <4>1. CASE k = m
        BY <2>2, <3>1, <4>1
      <4>2. CASE k # m
        <5>1. k \in 0 .. m - 1 /\ g[k] = h[k]
          BY <3>1, <4>2
        <5>2. k # 0 => k - 1 \in 0 .. m /\ k - 1 # m /\ g[k - 1] = h[k - 1]
          BY <3>1, <5>1
        <5> QED BY <3>3, <5>1, <5>2
      <4> QED BY <4>1, <4>2
    <3>5. DOMAIN g = 0 .. m /\ g = [k \in 0 .. m |-> g[k]]
      OBVIOUS
    <3> HIDE DEF g
    <3>6. g = [k \in 0 .. m |-> IF k = 0 THEN ids ELSE Peel(edges, g[k - 1])]
      BY <3>4, <3>5
    <3> QED BY <3>6 DEF Peeled
  <2> QED BY <2>1, <2>2
<1>2. T = {}
  <2>1. T \in SUBSET Nat
    OBVIOUS
  <2> HIDE DEF T
  <2> QED BY <1>1, <2>1, LeastOf
<1> QED BY <1>2

\* What comes first in a finite set of ranked observations has no predecessor.
LEMMA PeelShrinks ==
    ASSUME NEW edges, NEW f, \A e \in edges : f[e[1]] < f[e[2]],
           NEW S, IsFiniteSet(S), \A i \in S : f[i] \in Nat, S # {}
    PROVE  /\ Peel(edges, S) \subseteq S
           /\ Cardinality(Peel(edges, S)) \in Nat
           /\ Cardinality(Peel(edges, S)) <= Cardinality(S) - 1
<1> DEFINE T == {f[i] : i \in S}
           P == Peel(edges, S)
<1>1. T \in SUBSET Nat /\ T # {}
  OBVIOUS
<1>2. PICK t \in T : \A k \in T : t <= k
  BY <1>1, LeastOf
<1>3. PICK i \in S : f[i] = t
  BY <1>2
<1>4. i \notin P
  <2>1. ASSUME NEW e \in edges, e[2] = i, e[1] \in S PROVE FALSE
    <3>1. f[e[1]] < f[i] /\ f[i] <= f[e[1]]
      BY <1>2, <1>3, <2>1
    <3>2. f[e[1]] \in Nat /\ f[i] \in Nat
      BY <2>1
    <3> QED BY <3>1, <3>2
  <2> QED BY <2>1 DEF Peel
<1>5. P \subseteq S
  BY DEF Peel
<1> HIDE DEF P, T
<1> DEFINE R == S \ {i}
<1>6. P \in SUBSET R
  BY <1>4, <1>5
<1>7. IsFiniteSet(R) /\ Cardinality(R) = Cardinality(S) - 1
  BY FS_RemoveElement
<1> HIDE DEF R
<1>8. IsFiniteSet(P) /\ Cardinality(P) <= Cardinality(R)
  BY <1>6, <1>7, FS_Subset
<1>9. Cardinality(P) \in Nat
  BY <1>8, FS_CardinalityType
<1> QED BY <1>5, <1>7, <1>8, <1>9 DEF P

LEMMA PeelsOff ==
    ASSUME NEW edges, NEW ids, IsFiniteSet(ids), NEW f, \A e \in edges : f[e[1]] < f[e[2]],
           \A i \in ids : f[i] \in Nat, NEW g, Peeled(edges, ids, Cardinality(ids), g)
    PROVE  g[Cardinality(ids)] = {}
<1> DEFINE C == Cardinality(ids)
           Small(k) == g[k] \subseteq ids /\ Cardinality(g[k]) <= C - k
           T == {k \in 0 .. C : ~Small(k)}
<1>1. C \in Nat
  BY FS_CardinalityType
<1>2. \A k \in 0 .. C : g[k] = IF k = 0 THEN ids ELSE Peel(edges, g[k - 1])
  BY DEF Peeled
<1> HIDE DEF C
<1>3. ASSUME NEW m \in T, \A k \in T : m <= k PROVE FALSE
  <2>1. CASE m = 0
    BY <1>1, <1>2, <2>1 DEF C
  <2>2. CASE m # 0
    <3>1. m - 1 \in 0 .. C /\ m - 1 \notin T /\ m \in 0 .. C
      BY <1>1, <1>3, <2>2
    <3> DEFINE S == g[m - 1]
    <3>2. S \in SUBSET ids /\ Cardinality(S) <= C - (m - 1)
      BY <3>1
    <3>3. g[m] = Peel(edges, S)
      BY <1>2, <2>2, <3>1
    <3> HIDE DEF S
    <3>4. IsFiniteSet(S) /\ Cardinality(S) \in Nat
      BY <3>2, FS_Subset, FS_CardinalityType
    <3>5. CASE S = {}
      <4>1. g[m] = {}
        BY <3>3, <3>5 DEF Peel
      <4>2. Cardinality(g[m]) = 0
        BY <4>1, FS_EmptySet
      <4>3. 0 <= C - m
        BY <1>1, <3>1
      <4>4. Small(m)
        BY <4>1, <4>2, <4>3
      <4> QED BY <1>3, <4>4
    <3>6. CASE S # {}
      <4>1. \A i \in S : f[i] \in Nat
        BY <3>2
      <4> HIDE DEF T, Small
      <4>2. /\ g[m] \subseteq S /\ Cardinality(g[m]) \in Nat
            /\ Cardinality(g[m]) <= Cardinality(S) - 1
        BY <3>3, <3>4, <3>6, <4>1, PeelShrinks
      <4>3. Cardinality(g[m]) <= C - m
        BY <1>1, <3>1, <3>2, <3>4, <4>2
      <4> QED BY <3>2, <4>2, <4>3 DEF T, Small
    <3> QED BY <3>5, <3>6
  <2> QED BY <2>1, <2>2
<1>4. T = {}
  <2>1. T \in SUBSET Nat
    BY <1>1
  <2> HIDE DEF T
  <2> QED BY <1>3, <2>1, LeastOf
<1>5. g[C] \in SUBSET ids /\ Cardinality(g[C]) <= 0
  BY <1>1, <1>4
<1>6. IsFiniteSet(g[C]) /\ Cardinality(g[C]) \in Nat
  BY <1>5, FS_Subset, FS_CardinalityType
<1>7. Cardinality(g[C]) = 0
  BY <1>5, <1>6
<1>8. g[C] = {}
  BY <1>6, <1>7, FS_EmptySet
<1> QED BY <1>8 DEF C

LEMMA RankedAcyclic ==
    ASSUME NEW edges, IsFiniteSet(EdgeIds(edges)), NEW f, \A e \in edges : f[e[1]] < f[e[2]],
           \A i \in EdgeIds(edges) : f[i] \in Nat
    PROVE  Acyclic(edges)
<1> DEFINE ids == EdgeIds(edges)
           C == Cardinality(ids)
           left == CHOOSE g : Peeled(edges, ids, C, g)
<1>1. C \in Nat
  BY FS_CardinalityType
<1>2. Peeled(edges, ids, C, left)
  BY <1>1, PeeledExists
<1>3. left[C] = {}
  BY <1>2, PeelsOff
<1> QED BY <1>3 DEF Acyclic, Peeled, Peel, EdgeIds

LEMMA FiniteAll ==
    ASSUME Typed, Shaped, Laid, Bounded PROVE IsFiniteSet({Id(v) : v \in All(paths)})
<1>1. ASSUME NEW p \in paths PROVE IsFiniteSet(Occurrences(p))
  <2>1. IsFiniteSet(p.branches) /\ p \in PathType
    BY LaidTips DEF Typed
  <2> DEFINE R == Records(p)
             f == [r \in R |-> ToSet(r)]
             T == {f[r] : r \in R}
  <2>2. IsFiniteSet({p.visits, p.route} \cup p.branches)
    <3>1. IsFiniteSet({p.visits}) /\ IsFiniteSet({p.route})
      BY FS_Singleton
    <3>2. {p.visits, p.route} \cup p.branches = {p.visits} \cup ({p.route} \cup p.branches)
      OBVIOUS
    <3>3. IsFiniteSet({p.route} \cup p.branches)
      BY <2>1, <3>1, FS_Union
    <3> QED BY <3>1, <3>2, <3>3, FS_Union
  <2>3. IsFiniteSet(R)
    BY <2>2 DEF Records
  <2>4. \A r \in R : IsFiniteSet(f[r])
    BY RecordIn, FiniteIds
  <2>5. Occurrences(p) = UNION T
    BY DEF Occurrences
  <2> HIDE DEF f, R
  <2>6. IsFiniteSet(T)
    BY <2>3, FiniteImage
  <2>7. \A t \in T : IsFiniteSet(t)
    BY <2>4
  <2> HIDE DEF T
  <2> QED BY <2>5, <2>6, <2>7, FS_UNION
<1> DEFINE f == [p \in paths |-> Occurrences(p)]
           T == {f[p] : p \in paths}
<1>2. All(paths) = UNION T /\ \A t \in T : IsFiniteSet(t)
  BY <1>1 DEF All
<1> HIDE DEF f
<1>3. IsFiniteSet(T)
  BY FiniteImage DEF Bounded
<1> HIDE DEF T
<1>4. IsFiniteSet(All(paths))
  BY <1>2, <1>3, FS_UNION
<1> DEFINE V == All(paths)
           g == [v \in V |-> Id(v)]
<1>5. {Id(v) : v \in All(paths)} = {g[v] : v \in V}
  OBVIOUS
<1>6. IsFiniteSet(V)
  BY <1>4
<1> HIDE DEF V, g
<1> QED BY <1>5, <1>6, FiniteImage

\* The recorded moves, and the generations that follow one another.
Moved(P) == UNION {{<<Id(r[i]), Id(r[i + 1])>> : i \in 1 .. Len(r) - 1} :
                       r \in UNION {Records(p) : p \in P}}
Renewed(P) == {<<Id(e[1]), Id(e[2])>> :
                  e \in {m \in All(P) \X All(P) : m[1].node = m[2].node /\ m[1].gen < m[2].gen}}

LEMMA BeforeOf == \A P : Before(P) = Moved(P) \cup Renewed(P)
BY DEF Before, Moved, Renewed, All

LEMMA BeforeEdges ==
    ASSUME Typed, Laid, NEW f, Ranks(f, paths), NEW e \in Before(paths)
    PROVE  /\ f[e[1]] < f[e[2]]
           /\ \E u, v \in All(paths) : e[1] = Id(u) /\ e[2] = Id(v)
<1> DEFINE rows == UNION {Records(p) : p \in paths}
           visits == UNION {Occurrences(p) : p \in paths}
<1>1. visits = All(paths)
  BY DEF All
<1>2. \/ \E r \in rows : \E i \in 1 .. Len(r) - 1 : e = <<Id(r[i]), Id(r[i + 1])>>
      \/ \E m \in visits \X visits : /\ m[1].node = m[2].node /\ m[1].gen < m[2].gen
                                     /\ e = <<Id(m[1]), Id(m[2])>>
  <2>1. e \in Moved(paths) \/ e \in Renewed(paths)
    BY BeforeOf
  <2>2. ASSUME e \in Moved(paths)
        PROVE  \E r \in rows : \E i \in 1 .. Len(r) - 1 : e = <<Id(r[i]), Id(r[i + 1])>>
    <3> DEFINE moves(r) == {<<Id(r[i]), Id(r[i + 1])>> : i \in 1 .. Len(r) - 1}
    <3>1. PICK r \in rows : e \in moves(r)
      BY <2>2 DEF Moved
    <3> QED BY <3>1
  <2>3. ASSUME e \in Renewed(paths)
        PROVE  \E m \in visits \X visits : /\ m[1].node = m[2].node /\ m[1].gen < m[2].gen
                                           /\ e = <<Id(m[1]), Id(m[2])>>
    <3> HIDE DEF visits
    <3> QED BY <1>1, <2>3 DEF Renewed
  <2> QED BY <2>1, <2>2, <2>3
<1>3. CASE \E r \in rows : \E i \in 1 .. Len(r) - 1 : e = <<Id(r[i]), Id(r[i + 1])>>
  <2>1. PICK r \in rows : \E i \in 1 .. Len(r) - 1 : e = <<Id(r[i]), Id(r[i + 1])>>
    BY <1>3
  <2>2. PICK i \in 1 .. Len(r) - 1 : e = <<Id(r[i]), Id(r[i + 1])>>
    BY <2>1
  <2>3. PICK p \in paths : r \in Records(p)
    BY <2>1
  <2>4. r \in Trails /\ \A j \in 1 .. Len(r) : r[j] \in All(paths)
    BY <2>3, RecordIn
  <2>5. i \in 1 .. Len(r) /\ i + 1 \in 1 .. Len(r) /\ i < i + 1
    BY <2>2, <2>4, TrailParts
  <2>6. Ascends(f, r)
    BY <2>3 DEF Ranks
  <2>7. f[Id(r[i])] < f[Id(r[i + 1])]
    BY <2>5, <2>6 DEF Ascends
  <2>8. e[1] = Id(r[i]) /\ e[2] = Id(r[i + 1])
    BY <2>2
  <2> QED BY <2>4, <2>5, <2>7, <2>8
<1>4. CASE \E m \in visits \X visits : /\ m[1].node = m[2].node /\ m[1].gen < m[2].gen
                                       /\ e = <<Id(m[1]), Id(m[2])>>
  <2>1. PICK m \in visits \X visits : /\ m[1].node = m[2].node /\ m[1].gen < m[2].gen
                                      /\ e = <<Id(m[1]), Id(m[2])>>
    BY <1>4
  <2>2. m[1] \in All(paths) /\ m[2] \in All(paths)
    BY <1>1, <2>1
  <2>3. f[Id(m[1])] < f[Id(m[2])]
    BY <2>1, <2>2 DEF Ranks
  <2>4. e[1] = Id(m[1]) /\ e[2] = Id(m[2])
    BY <2>1
  <2> QED BY <2>2, <2>3, <2>4
<1> QED BY <1>2, <1>3, <1>4

LEMMA LaidAcyclic ==
    ASSUME Typed, Shaped, Laid, Bounded PROVE Acyclic(Before(paths))
<1> DEFINE edges == Before(paths)
           ids == EdgeIds(edges)
           I == {Id(v) : v \in All(paths)}
<1>1. PICK f \in [Nodes \X Nat -> Nat] : Ranks(f, paths)
  BY DEF Laid, Ranked
<1>2. \A e \in edges : /\ f[e[1]] < f[e[2]] /\ e[1] \in I /\ e[2] \in I
  BY <1>1, BeforeEdges
<1>3. \A i \in I : f[i] \in Nat
  BY <1>1, AllIds
<1>4. IsFiniteSet(I)
  BY FiniteAll
<1> HIDE DEF edges, I
<1>5. ids \in SUBSET I
  BY <1>2 DEF EdgeIds
<1>6. IsFiniteSet(ids)
  BY <1>4, <1>5, FS_Subset
<1>7. \A i \in ids : f[i] \in Nat
  BY <1>3, <1>5
<1>8. \A e \in edges : f[e[1]] < f[e[2]]
  BY <1>2
<1>9. Acyclic(edges)
  BY <1>6, <1>7, <1>8, RankedAcyclic
<1> QED BY <1>9 DEF edges

LEMMA LaidRestorable ==
    ASSUME Typed, Shaped, Laid, Clocked, Bounded PROVE Restorable
<1>1. TypeOK /\ PathsValid
  BY TypedOK, LaidPath DEF PathsValid
<1>2. Cardinality(paths) <= count /\ (count = 0 => \A n \in Nodes : ~Pending(sources[n]))
  BY DEF Bounded, Clocked
<1>3. \A p, q \in paths : p # q =>
          {Id(v) : v \in Occurrences(p)} \cap {Id(v) : v \in Occurrences(q)} = {}
  BY DEF Laid, Apart
<1>4. \A p \in paths : \A v \in Occurrences(p) : Accounted(p, v)
  BY LaidAccounted
<1>5. \A p \in paths : \A m \in Moves(p) : Step(m[1].node, m[2].node)
  BY LaidMoves
<1>6. CopiesAgree(UNION {Occurrences(p) : p \in paths})
  <2>1. CopiesAgree(All(paths))
    <3>1. ASSUME NEW u \in All(paths), NEW v \in All(paths), u.node = v.node
          PROVE  (u.gen = v.gen => u = v) /\ (u.gen < v.gen => u.at <= v.at)
      <4>1. u.gen = v.gen => Id(u) = Id(v)
        BY <3>1 DEF Id
      <4>2. u.gen < v.gen => u.at <= v.at
        BY <3>1 DEF Laid, Coherent, Twin
      <4> QED BY <4>1, <4>2, CopiesEqual
    <3> QED BY <3>1 DEF CopiesAgree
  <2> QED BY <2>1 DEF All
<1>7. Acyclic(Before(paths))
  BY LaidAcyclic
<1>8. \A n \in Nodes : Physical(n)
  BY DEF Clocked
<1>9. Reconciled(paths, phys) = paths /\ ReconciledSources(sources, phys) = sources
  BY PathsFixed DEF Shaped
<1> QED BY <1>1, <1>2, <1>3, <1>4, <1>5, <1>6, <1>7, <1>8, <1>9 DEF Restorable

SInv == FInv /\ Bounded /\ Laid /\ Clocked /\ Timed

LEMMA StepSInv ==
    ASSUME SInv, FrontierNext PROVE SInv'
<1>1. FInv'
  BY StepHeld DEF SInv
<1>2. Bounded'
  BY StepBounded DEF SInv
<1>3. Laid' /\ Clocked'
  BY <1>1, StepLaid DEF SInv, FInv
<1>4. Timed'
  BY <1>1, StepTimed DEF SInv
<1> QED BY <1>1, <1>2, <1>3, <1>4 DEF SInv

\* What the snapshot of the paths and of the frontier is made of.
LEMMA FrontierSInv == FrontierSpec => []SInv
<1>1. FrontierInit => SInv
  BY InitTyped, InitHeld, InitLaid, InitTimed DEF SInv, FInv
<1>2. ASSUME SInv, [FrontierNext]_<<vars, frontier>> PROVE SInv'
  <2>1. CASE FrontierNext
    BY <1>2, <2>1, StepSInv
  <2>2. CASE UNCHANGED <<vars, frontier>>
    <3>1. UNCHANGED vars
      BY <2>2
    <3> QED BY <1>2, <2>2, <3>1, StutterHeld, StutterLaid, StutterTimed DEF SInv
  <2> QED BY <1>2, <2>1, <2>2
<1> QED BY <1>1, <1>2, PTL DEF FrontierSpec

\* Whatever the calls, the engine can load the paths and the frontier that it
\* saves, and no constructor of theirs has raised in the middle of a call.
THEOREM FrontierSnapshot == FrontierSpec => []SnapshotRestorable
<1>1. SInv => SnapshotRestorable
  <2>1. ASSUME SInv PROVE SnapshotRestorable
    BY <2>1, LaidRestorable, TimedRestorable DEF SInv, FInv, SnapshotRestorable
  <2> QED BY <2>1
<1> QED BY <1>1, FrontierSInv, PTL


-----------------------------------------------------------------------------
(* Who gives up a slot. *)

GivenUp == {p \in paths : \A q \in paths' : ~Continues(q, p)}

\* What a step does to the occupants that it no longer locates.
Sparing ==
    GivenUp # {} =>
        /\ Cardinality(paths') = count'
        /\ \A p \in GivenUp, q \in paths \ GivenUp : p.confirmed => q.confirmed

LEMMA FadedIds ==
    ASSUME NEW r \in Trails, NEW g, Fades(r, g) PROVE g \in Trails /\ Ids(g) = Ids(r)
<1>1. g \in Trails /\ Len(g) = Len(r) /\ \A i \in 1 .. Len(r) : Id(g[i]) = Id(r[i])
  BY DEF Fades, Dims
<1>2. Ids(g) = {Id(g[i]) : i \in 1 .. Len(g)} /\ Ids(r) = {Id(r[i]) : i \in 1 .. Len(r)}
  BY <1>1, IdsOf
<1> QED BY <1>1, <1>2

LEMMA ReconciledIds ==
    ASSUME NEW p \in PathType, NEW ph PROVE Ids(ReconciledPath(p, ph).visits) = Ids(p.visits)
<1>1. PathFades(p, ReconciledPath(p, ph)) /\ p.visits \in Trails
  BY ReconciledFades, PathParts
<1> QED BY <1>1, FadedIds DEF PathFades

LEMMA SomeIds ==
    ASSUME NEW p \in PathType PROVE Ids(p.visits) # {}
BY PathParts, IdsOf

LEMMA VisitIds ==
    ASSUME NEW p \in PathType, NEW x \in Ids(p.visits)
    PROVE  \E v \in Occurrences(p) : Id(v) = x
<1>1. PICK v \in ToSet(p.visits) : Id(v) = x
  BY DEF Ids
<1> QED BY <1>1, OccurrenceParts

LEMMA SharedIds ==
    ASSUME Typed, Laid, NEW p \in paths, NEW q \in paths, Ids(p.visits) \cap Ids(q.visits) # {}
    PROVE  p = q
<1>1. p \in PathType /\ q \in PathType
  BY DEF Typed
<1>2. PICK x : x \in Ids(p.visits) /\ x \in Ids(q.visits)
  OBVIOUS
<1>3. PICK u \in Occurrences(p) : Id(u) = x
  BY <1>1, <1>2, VisitIds
<1>4. PICK v \in Occurrences(q) : Id(v) = x
  BY <1>1, <1>2, VisitIds
<1> QED BY <1>3, <1>4 DEF Laid, Apart

\* Paths that keep their slots go on, and nothing else does.
LEMMA KeptSparing ==
    ASSUME Typed, Laid, Bounded, NEW k \in Nat, NEW S \in Kept(paths, k),
           \A s \in S : \E q \in paths' : Ids(q.visits) = Ids(s.visits),
           \A q \in paths' : \/ \E s \in S : Ids(q.visits) = Ids(s.visits)
                             \/ \A p \in paths : ~Continues(q, p),
           Cardinality(S) = k => Cardinality(paths') = count'
    PROVE  Sparing
<1>1. /\ S \in SUBSET paths
      /\ Cardinality(S) = IF Cardinality(paths) < k THEN Cardinality(paths) ELSE k
      /\ \A p \in paths \ S, q \in S : ~Weaker(q, p)
  BY DEF Kept
<1>2. \A p \in paths : p \in PathType
  BY DEF Typed
<1>3. GivenUp \cap S = {}
  <2>1. ASSUME NEW p \in S PROVE \E q \in paths' : Continues(q, p)
    BY <1>1, <1>2, SomeIds DEF Continues
  <2> QED BY <2>1 DEF GivenUp
<1>4. \A p \in paths \ GivenUp : p \in S
  <2>1. ASSUME NEW p \in paths, NEW q \in paths', Continues(q, p) PROVE p \in S
    <3>1. PICK s \in S : Ids(q.visits) = Ids(s.visits)
      BY <2>1
    <3>2. s = p
      BY <1>1, <2>1, <3>1, SharedIds DEF Continues
    <3> QED BY <3>2
  <2> QED BY <2>1 DEF GivenUp
<1>5. ASSUME GivenUp # {} PROVE Cardinality(S) = k
  <2>1. S # paths
    BY <1>3, <1>5 DEF GivenUp
  <2>2. Cardinality(S) # Cardinality(paths)
    BY <1>1, <2>1, FS_Subset DEF Bounded
  <2> QED BY <1>1, <2>2
<1>6. ASSUME NEW p \in GivenUp, NEW q \in paths \ GivenUp, p.confirmed PROVE q.confirmed
  <2>1. p \in paths \ S /\ q \in S
    BY <1>3, <1>4 DEF GivenUp
  <2>2. ~Weaker(q, p)
    BY <1>1, <2>1
  <2>3. q.confirmed \in BOOLEAN /\ p.confirmed \in BOOLEAN
    BY <1>1, <1>2, <2>1, PathParts
  <2> QED BY <1>6, <2>2, <2>3 DEF Weaker
<1> QED BY <1>5, <1>6 DEF Sparing

LEMMA NoneLost ==
    ASSUME \A p \in paths : \E q \in paths' : Continues(q, p) PROVE Sparing
BY DEF Sparing, GivenUp

\* Reconciled paths stay as many as they were.
LEMMA ReconciledMany ==
    ASSUME NEW P \in SUBSET PathType, IsFiniteSet(P), NEW ph,
           \A p, q \in P : Ids(p.visits) = Ids(q.visits) => p = q
    PROVE  Cardinality(Reconciled(P, ph)) = Cardinality(P)
<1> DEFINE f == [p \in P |-> ReconciledPath(p, ph)]
           T == Reconciled(P, ph)
<1>1. f \in Surjection(P, T)
  BY DEF Surjection, Reconciled
<1>2. f \in Injection(P, T)
  <2>1. \A p \in P : f[p] \in T /\ Ids(f[p].visits) = Ids(p.visits)
    BY ReconciledIds DEF Reconciled
  <2>2. f \in [P -> T]
    BY <1>1 DEF Surjection
  <2> HIDE DEF f, T
  <2>3. \A p, q \in P : f[p] = f[q] => p = q
    BY <2>1
  <2> QED BY <2>2, <2>3 DEF Injection, IsInjective
<1> HIDE DEF f, T
<1>3. Cardinality(T) = Cardinality(P)
  BY <1>1, <1>2, FS_Surjection
<1> QED BY <1>3 DEF T

\* A new path beside those that keep their slots.
LEMMA InstalledSparing ==
    ASSUME Typed, Laid, Bounded, count # 0, count' = count, NEW S \in Kept(paths, count - 1),
           NEW r \in Trails, \A v \in ToSet(r) : Fresh(v), NEW srcs,
           Ends(S \cup {NewPath(r)}, srcs)
    PROVE  Sparing
<1> DEFINE new == NewPath(r)
           P == S \cup {new}
<1>1. /\ S \subseteq paths /\ S \subseteq PathType /\ count - 1 \in Nat /\ IsFiniteSet(S)
      /\ count \in Nat
  <2>1. count \in Nat /\ count - 1 \in Nat
    BY Bounds DEF Typed
  <2> QED BY <2>1, KeptBounded DEF Bounded, Typed
<1>2. new \in PathType /\ new.visits = r /\ Ids(r) # {}
  BY NewPathParts, IdsOf
<1>3. ASSUME NEW p \in paths PROVE Ids(r) \cap Ids(p.visits) = {}
  <2>1. ASSUME NEW x, x \in Ids(r), x \in Ids(p.visits) PROVE FALSE
    <3>1. PICK v \in ToSet(r) : Id(v) = x
      BY <2>1 DEF Ids
    <3>2. PICK u \in Occurrences(p) : Id(u) = x
      BY <2>1, VisitIds DEF Typed
    <3>3. u \in All(paths) /\ u.node = v.node /\ u.gen = v.gen
      BY <3>1, <3>2 DEF All, Id
    <3>4. u.gen < v.gen
      BY <3>3 DEF Fresh
    <3>5. v.gen \in Nat
      BY VisitParts DEF Fresh
    <3> QED BY <3>3, <3>4, <3>5
  <2> QED BY <2>1
<1>4. paths' = Reconciled(P, phys')
  BY DEF Ends, Settle
<1> HIDE DEF new
<1>5. P \in SUBSET PathType /\ IsFiniteSet(P)
  BY <1>1, <1>2, FS_AddElement
<1>6. \A p, q \in P : Ids(p.visits) = Ids(q.visits) => p = q
  <2>1. ASSUME NEW p \in S, NEW q \in S, Ids(p.visits) = Ids(q.visits) PROVE p = q
    BY <1>1, <2>1, SomeIds, SharedIds
  <2>2. ASSUME NEW p \in S PROVE Ids(p.visits) # Ids(new.visits)
    BY <1>1, <1>2, <1>3
  <2> QED BY <2>1, <2>2
<1>7. new \notin S
  BY <1>1, <1>2, <1>3
<1>8. Cardinality(P) = Cardinality(S) + 1
  BY <1>1, <1>7, FS_AddElement
<1> HIDE DEF P
<1>9. Cardinality(paths') = Cardinality(P)
  BY <1>4, <1>5, <1>6, ReconciledMany
<1>10. \A q \in paths' : \E p \in P : Ids(q.visits) = Ids(p.visits)
  BY <1>4, <1>5, ReconciledIds DEF Reconciled
<1>11. \A p \in P : \E q \in paths' : Ids(q.visits) = Ids(p.visits)
  BY <1>4, <1>5, ReconciledIds DEF Reconciled
<1>12. \A s \in S : \E q \in paths' : Ids(q.visits) = Ids(s.visits)
  BY <1>11 DEF P
<1>13. \A q \in paths' : \/ \E s \in S : Ids(q.visits) = Ids(s.visits)
                         \/ \A p \in paths : ~Continues(q, p)
  <2>1. ASSUME NEW q \in paths', Ids(q.visits) = Ids(new.visits)
        PROVE  \A p \in paths : ~Continues(q, p)
    BY <1>2, <1>3, <2>1 DEF Continues
  <2> QED BY <1>10, <2>1 DEF P
<1>14. Cardinality(S) = count - 1 => Cardinality(paths') = count'
  BY <1>1, <1>8, <1>9
<1> QED BY <1>1, <1>12, <1>13, <1>14, KeptSparing

\* A path whose history grows by one visit keeps one of those before.
LEMMA LongerContinues ==
    ASSUME NEW r \in Trails, NEW v \in VisitType
    PROVE  Ids(LastOf(Limit, Append(r, v))) \cap Ids(r) # {}
<1> DEFINE g == LastOf(Limit, Append(r, v))
<1>1. Extends(g, r, v)
  BY LongerExtends
<1> HIDE DEF g
<1>2. g \in Trails
  BY <1>1 DEF Extends
<1>3. PICK d \in {0, 1} : /\ Len(g) = Len(r) + 1 - d /\ (d = 1 <=> Len(r) = Limit)
                          /\ \A i \in 1 .. Len(r) - d : g[i] = r[i + d]
  BY <1>1 DEF Extends
<1>4. 1 \in 1 .. Len(r) - d /\ 1 \in 1 .. Len(g) /\ 1 + d \in 1 .. Len(r)
  BY <1>2, <1>3, Bounds, TrailParts
<1>5. g[1] = r[1 + d]
  BY <1>3, <1>4
<1>6. Id(g[1]) \in Ids(g) /\ Id(r[1 + d]) \in Ids(r)
  BY <1>2, <1>4, IdsOf
<1> QED BY <1>5, <1>6 DEF g

LEMMA EndsContinues ==
    ASSUME NEW P \in SUBSET PathType, NEW srcs, Ends(P, srcs), NEW p \in P
    PROVE  \E q \in paths' : Ids(q.visits) = Ids(p.visits)
BY ReconciledIds DEF Ends, Settle, Reconciled

LEMMA QuietSparing ==
    ASSUME Typed, NEW srcs, Ends(paths, srcs) PROVE Sparing
<1>1. ASSUME NEW p \in paths PROVE \E q \in paths' : Continues(q, p)
  <2>1. p \in PathType /\ \E q \in paths' : Ids(q.visits) = Ids(p.visits)
    BY EndsContinues DEF Typed
  <2> QED BY <2>1, SomeIds DEF Continues
<1> QED BY <1>1, NoneLost

LEMMA WentSparing ==
    ASSUME Typed, NEW target \in VisitType, NEW c, Went(target, c) PROVE Sparing
<1> DEFINE new == AdvancedPath(c, target)
           P == (paths \ {c.path}) \cup {new}
           srcs == Recorded(Spent(sources, Last(c.prefix)), target, TRUE)
<1>1. c.path \in paths /\ Witnessed(c) /\ Ends(P, srcs) /\ c.path \in PathType
  BY DEF Went, Typed
<1>2. new \in PathType /\ Ids(new.visits) \cap Ids(c.path.visits) # {}
  <2> DEFINE long == LongerOf(c, target)
  <2>1. new \in PathType /\ PathFades(long, new)
    BY <1>1, AdvancedParts
  <2>2. long \in PathType /\ long.visits = LastOf(Limit, Append(c.path.visits, target))
    BY <1>1, LongerParts
  <2> HIDE DEF new, long
  <2>3. Ids(new.visits) = Ids(long.visits)
    BY <2>1, <2>2, PathParts, FadedIds DEF PathFades
  <2>4. c.path.visits \in Trails
    BY <1>1, PathParts
  <2> QED BY <2>1, <2>2, <2>3, <2>4, LongerContinues
<1>3. P \in SUBSET PathType
  BY <1>2 DEF Typed
<1> HIDE DEF srcs, new
<1>4. \A p \in P : \E q \in paths' : Ids(q.visits) = Ids(p.visits)
  <2> HIDE DEF P
  <2> QED BY <1>1, <1>3, EndsContinues
<1>5. ASSUME NEW p \in paths PROVE \E q \in paths' : Continues(q, p)
  <2>1. CASE p = c.path
    BY <1>2, <1>4, <2>1 DEF Continues
  <2>2. CASE p # c.path
    <3>1. p \in PathType /\ \E q \in paths' : Ids(q.visits) = Ids(p.visits)
      BY <1>4, <2>2 DEF Typed
    <3> QED BY <3>1, SomeIds DEF Continues
  <2> QED BY <2>1, <2>2
<1> QED BY <1>5, NoneLost

LEMMA OutcomeSparing ==
    ASSUME Typed, Shaped, Laid, Clocked, Bounded, NEW n \in Nodes, NEW s, Begins(n, s),
           NEW adopts, ObserveEffect(n, s, adopts)
    PROVE  Sparing
<1> DEFINE target == TargetOf(n, s)
<1>1. /\ Outcome(target, adopts) /\ UNCHANGED <<now, count>>
      /\ target \in VisitType /\ Fresh(target)
  BY ObservedFrame, TargetParts, TargetFresh
<1> HIDE DEF target
<1>2. CASE Emptied(target) \/ Awaited(target)
  BY <1>2, QuietSparing DEF Emptied, Awaited
<1>3. CASE \E c : Went(target, c)
  BY <1>1, <1>3, WentSparing
<1>4. CASE count # 0 /\ \E m \in OriginNodes(sources, target) :
               OriginVisit(m) \in VisitType /\ \E S : Paired(target, m, S)
  <2>1. PICK m \in OriginNodes(sources, target) :
            OriginVisit(m) \in VisitType /\ \E S : Paired(target, m, S)
    BY <1>4
  <2>2. PICK S : Paired(target, m, S)
    BY <2>1
  <2> DEFINE r == <<OriginVisit(m), target>>
             srcs == Recorded([sources EXCEPT ![m].consumed = TRUE], target, TRUE)
  <2>3. r \in Trails /\ ToSet(r) = {OriginVisit(m), target}
    BY <1>1, <2>1, NewTrails
  <2>4. Fresh(OriginVisit(m))
    BY <2>1, OriginFresh
  <2>5. S \in Kept(paths, count - 1) /\ Ends(S \cup {NewPath(r)}, srcs)
    BY <2>2 DEF Paired
  <2>6. \A v \in ToSet(r) : Fresh(v)
    BY <1>1, <2>3, <2>4
  <2> HIDE DEF r, srcs
  <2> QED BY <1>1, <1>4, <2>3, <2>5, <2>6, InstalledSparing
<1>5. CASE count # 0 /\ \E S : Admitted(target, S)
  <2>1. PICK S : Admitted(target, S)
    BY <1>5
  <2> DEFINE r == <<target>>
             srcs == Recorded(sources, target, TRUE)
  <2>2. r \in Trails /\ ToSet(r) = {target}
    BY <1>1, NewTrails
  <2>3. S \in Kept(paths, count - 1) /\ Ends(S \cup {NewPath(r)}, srcs)
    BY <2>1 DEF Admitted
  <2>4. \A v \in ToSet(r) : Fresh(v)
    BY <1>1, <2>2
  <2> HIDE DEF r, srcs
  <2> QED BY <1>1, <1>5, <2>2, <2>3, <2>4, InstalledSparing
<1> QED BY <1>1, <1>2, <1>3, <1>4, <1>5 DEF Outcome

LEMMA CountSparing ==
    ASSUME Typed, Shaped, Laid, Bounded, NEW k \in 0 .. MaxCount, SetCount(k) PROVE Sparing
<1>1. paths' \in Kept(paths, k) /\ paths' \subseteq paths /\ count' = k
  BY CountParts
<1>2. k \in Nat
  BY Bounds
<1>3. Cardinality(paths') = k => Cardinality(paths') = count'
  BY <1>1
<1> DEFINE S == paths'
<1>4. /\ S \in Kept(paths, k) /\ \A s \in S : \E q \in paths' : Ids(q.visits) = Ids(s.visits)
      /\ \A q \in paths' : \E s \in S : Ids(q.visits) = Ids(s.visits)
      /\ Cardinality(S) = k => Cardinality(paths') = count'
  BY <1>1
<1> HIDE DEF S
<1> QED BY <1>2, <1>4, KeptSparing

LEMMA StepSparing ==
    ASSUME SInv, FrontierNext PROVE Sparing
<1> USE DEF SInv, FInv
<1>1. CASE \E n \in Nodes : \E s : Begins(n, s) /\ Observation(n, s)
  <2>1. PICK n \in Nodes : \E s : Begins(n, s) /\ Observation(n, s)
    BY <1>1
  <2>2. PICK s : Begins(n, s) /\ Observation(n, s)
    BY <2>1
  <2>3. \E adopts : ObserveEffect(n, s, adopts)
    BY <2>2, ObservationOutcome
  <2> QED BY <2>2, <2>3, OutcomeSparing
<1>2. CASE QuietCall
  BY <1>2, QuietEnds, QuietSparing
<1>3. CASE \E k \in 0 .. MaxCount : FrontierCount(k)
  BY <1>3, CountSparing DEF FrontierCount
<1> QED BY <1>1, <1>2, <1>3, StepCases

\* A located occupant is only given up for want of a slot, and a confirmed
\* one not before an unconfirmed one.
THEOREM FrontierOccupantKept == FrontierSpec => OccupantKept
<1> DEFINE A == LET lost == {p \in paths : \A q \in paths' : ~Continues(q, p)}
                IN  lost # {} =>
                      /\ Cardinality(paths') = count'
                      /\ \A p \in lost, q \in paths \ lost : p.confirmed => q.confirmed
<1>1. SInv /\ [FrontierNext]_<<vars, frontier>> => [A]_vars
  <2>1. ASSUME SInv, [FrontierNext]_<<vars, frontier>> PROVE [Sparing]_vars
    <3>1. CASE FrontierNext
      BY <2>1, <3>1, StepSparing
    <3>2. CASE UNCHANGED <<vars, frontier>>
      BY <3>2
    <3> QED BY <2>1, <3>1, <3>2
  <2>2. Sparing => A
    BY DEF Sparing, GivenUp
  <2> QED BY <2>1, <2>2
<1> QED BY <1>1, FrontierSInv, PTL DEF FrontierSpec, OccupantKept
=============================================================================
