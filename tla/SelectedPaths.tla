--------------------------- MODULE SelectedPaths ---------------------------
(***************************************************************************)
(* zone_model/selected_paths.py with the calls engine.py makes to it: one  *)
(* slot per expected occupant, each empty or holding the path of one       *)
(* anonymous occupant.  An accepted observation continues a path, begins   *)
(* one together with a pending origin, or becomes a pending origin itself. *)
(*                                                                         *)
(* A slot tuple in canonical order is a set of paths (an empty slot is one *)
(* missing from it).  Where the code orders equal candidates by their      *)
(* identifiers the choice is left open.  The engine refuses calls older    *)
(* than the last one, so every call carries the current time.              *)
(***************************************************************************)
EXTENDS Generations, FiniteSets, Sequences, SequencesExt

CONSTANTS
    Zone,       \* [Nodes -> zone]
    Adjacent,   \* the neighbours of each node on the map
    Limit,      \* _LIMIT: visits kept per history, route and witness
    MaxCount,   \* PRODUCT_MAX_OCCUPANTS
    Inputs,     \* which of "reopen", "startup", "count" happen
    Fallible,   \* bound on the nodes that fail or change while Home Assistant is down
    MaxTime,    \* bound on the time of a call
    MaxGen,     \* [Nodes -> Nat]: bound on the generations of each node
    MaxTotal    \* bound on the generations of all nodes

ASSUME MapAssumption ==
    /\ DOMAIN Zone = Nodes
    /\ Adjacent \in [Nodes -> SUBSET Nodes]
    /\ \A m, n \in Nodes : m \in Adjacent[n] <=> n \in Adjacent[m]
ASSUME LimitAssumption ==
    /\ Limit \in Nat /\ Limit >= 3 /\ MaxCount \in Nat /\ MaxTime \in Nat
    /\ MaxGen \in [Nodes -> Nat] /\ MaxTotal \in Nat
    /\ Inputs \subseteq {"reopen", "startup", "count"} /\ Fallible \subseteq Nodes

VARIABLES
    now,       \* the engine's frontier
    phys,      \* phys[n]: the physical generation of node n
    count,     \* the number of slots
    paths,     \* the located slots
    sources    \* sources[n]: the latest generation accounted for n

vars == <<now, phys, count, paths, sources>>

Kinds == {"positive", "correlated_positive", "interaction"}
Origins == {"none", "ordinary", "correlated", "interaction"}

(***************************************************************************)
(* Visits and paths                                                        *)
(***************************************************************************)
Kind(n, s) ==
    IF n \in InteractionNodes THEN "interaction"
    ELSE IF s.correlated THEN "correlated_positive" ELSE "positive"

Visit(n, s, kind) ==
    [node |-> n, gen |-> s.gen, at |-> s.at, kind |-> kind, active |-> TRUE]
Id(v) == <<v.node, v.gen>>
Ids(records) == {Id(v) : v \in ToSet(records)}

\* One step of the map, or a second sensor of the same zone.
Step(m, n) == Zone[m] = Zone[n] \/ n \in Adjacent[m]

Endpoint(p) == Last(p.route)
UpdatedAt(p) == Last(p.visits).at
Records(p) == {p.visits, p.route} \cup p.branches
Occurrences(p) == UNION {ToSet(r) : r \in Records(p)}
Tips(p) == {Last(w) : w \in p.branches}
Authoritative(p) == ToSet(p.route) \cup Tips(p)
Coverage(p) == {v \in Authoritative(p) : v.active \/ v = Endpoint(p)}
CoveredNodes(ps) == {v.node : v \in UNION {Coverage(p) : p \in ps}}

NoSource == [gen |-> 0, at |-> NoTime, origin |-> "none", consumed |-> FALSE]
Pending(src) == src.origin = "ordinary" /\ ~src.consumed
Consumed(src) == IF Pending(src) THEN [src EXCEPT !.consumed = TRUE] ELSE src

\* Mutant: one visit too many is kept.
MutLastOf(k, s) == SubSeq(s, IF Len(s) > k + 1 THEN Len(s) - k ELSE 1, Len(s))

\* The last k visits.
LastOf(k, s) == SubSeq(s, IF Len(s) > k THEN Len(s) - k + 1 ELSE 1, Len(s))

(***************************************************************************)
(* _normalized_path: every copy of a withdrawn visit loses its branch      *)
(* authority before the path is built; a branch without an authoritative   *)
(* tip is dropped.                                                         *)
(***************************************************************************)
Withdrawn(p) ==
    {Id(v) : v \in {u \in Occurrences(p) : ~u.active}}
    \cup (IF p.eligible THEN {} ELSE {Id(Endpoint(p))})

KeptBranches(p) ==
    {w \in p.branches : /\ Id(Last(w)) \in Ids(p.visits) \ Ids(p.route)
                        /\ Id(Last(w)) \notin Withdrawn(p)
                        /\ Last(w).kind # "interaction"}

\* Mutant: what a branch leaves behind keeps its authority.
MutRetired(v, withdrawn, authority) ==
    IF Id(v) \in withdrawn THEN [v EXCEPT !.active = FALSE] ELSE v

Retired(v, withdrawn, authority) ==
    IF Id(v) \in withdrawn \/ Id(v) \notin authority THEN [v EXCEPT !.active = FALSE] ELSE v
RetiredAll(records, withdrawn, authority) ==
    [i \in DOMAIN records |-> Retired(records[i], withdrawn, authority)]

NormalizedWith(p, kept, withdrawn, authority) ==
    [p EXCEPT !.visits = RetiredAll(p.visits, withdrawn, authority),
              !.route = RetiredAll(p.route, withdrawn, authority),
              !.branches = {RetiredAll(w, withdrawn, authority) : w \in kept}]

Normalized(p) ==
    NormalizedWith(p, KeptBranches(p), Withdrawn(p),
                   Ids(p.route) \cup {Id(Last(w)) : w \in KeptBranches(p)})

(***************************************************************************)
(* reconcile: physical states only withdraw authority                      *)
(***************************************************************************)
SameGeneration(v, ph) == ph[v.node].gen = v.gen

BranchLive(v, ph) ==
    SameGeneration(v, ph) /\ ph[v.node].status \notin {"baseline", "clear", "unavailable"}

\* Mutant: the clear of its sensor ends what locates an occupant.
MutEndpointLive(v, ph) == BranchLive(v, ph)

\* A clear endpoint still locates its occupant.
EndpointLive(v, ph) ==
    SameGeneration(v, ph) /\ ph[v.node].status \notin {"baseline", "unavailable"}

\* Mutant: branch authority follows the physical state both ways.
MutPruned(records, ph) ==
    [i \in DOMAIN records |-> [records[i] EXCEPT !.active = BranchLive(records[i], ph)]]

Pruned(records, ph) ==
    [i \in DOMAIN records |->
        [records[i] EXCEPT !.active = @ /\ BranchLive(records[i], ph)]]

ReconciledPath(p, ph) ==
    Normalized([p EXCEPT !.visits = Pruned(p.visits, ph), !.route = Pruned(p.route, ph),
                         !.branches = {Pruned(w, ph) : w \in p.branches},
                         !.eligible = @ /\ EndpointLive(Endpoint(p), ph)])
Reconciled(ps, ph) == {ReconciledPath(p, ph) : p \in ps}

SourceLive(n, src, ph) == ph[n].gen = src.gen /\ KnownOn(ph[n])

ReconciledSources(srcs, ph) ==
    [n \in Nodes |-> IF SourceLive(n, srcs[n], ph) THEN srcs[n] ELSE Consumed(srcs[n])]

(***************************************************************************)
(* Selection of what an observation continues                              *)
(***************************************************************************)
\* Fresh evidence on its own node rebinds an endpoint that lost eligibility.
EndpointUsable(p, target, ph) ==
    \/ Endpoint(p).node = target.node
    \/ p.eligible /\ EndpointLive(Endpoint(p), ph)

\* _eligible_sources: witnessed prefixes whose last visit may be continued.
EligibleSources(ps, target, ph) ==
    UNION {
        (IF EndpointUsable(p, target, ph) THEN {[path |-> p, prefix |-> p.route]} ELSE {})
        \cup {[path |-> p, prefix |-> SubSeq(p.route, 1, i)] :
                 i \in {j \in 1 .. Len(p.route) - 1 : p.route[j].active}}
        \cup {[path |-> p, prefix |-> w] : w \in p.branches}
        : p \in ps}

Reaches(c, target) == Step(Last(c.prefix).node, target.node)
IsEndpoint(c) == c.prefix = c.path.route

LaterTuple(a, b) == a[1] > b[1] \/ (a[1] = b[1] /\ a[2] > b[2])
Maximal(S, Key(_)) == {c \in S : \A d \in S : ~LaterTuple(Key(d), Key(c))}

\* A resident of the target's zone keeps it unless another path came nearer
\* since the last sign of a resident.
Arriving(ends, target) ==
    LET residents == {c \in ends : Zone[Endpoint(c.path).node] = Zone[target.node]}
        incoming == {c \in ends \ residents :
                        \A r \in residents : c.path.spatialAt > UpdatedAt(r.path)}
    IN  IF residents = {} THEN ends ELSE IF incoming # {} THEN incoming ELSE residents

\* causal_rank: retained input order decides between branches of one path.
Rank(c) ==
    LET tip == Id(Last(c.prefix))
        hits == {i \in DOMAIN c.path.visits : Id(c.path.visits[i]) = tip}
    IN  IF hits # {} THEN Limit + (CHOOSE i \in hits : TRUE)
        ELSE CHOOSE i \in DOMAIN c.path.route : Id(c.path.route[i]) = tip

EndpointKey(c) == <<UpdatedAt(c.path), 0>>
BranchKey(c) == <<Last(c.prefix).at, UpdatedAt(c.path)>>

\* _continuation: an endpoint if any, else the most recent branch.
Continuations(ps, target, ph) ==
    LET near == {c \in EligibleSources(ps, target, ph) : Reaches(c, target)}
        ends == {c \in near : IsEndpoint(c)}
        late == Maximal(near, BranchKey)
    IN  IF ends # {} THEN Maximal(Arriving(ends, target), EndpointKey)
        ELSE {c \in late : \A d \in late : d.path = c.path => Rank(d) <= Rank(c)}

\* _origin: the latest pending observation one step away.
OriginNodes(srcs, target) ==
    LET near == {n \in Nodes \ {target.node} : Pending(srcs[n]) /\ Step(n, target.node)}
    IN  {n \in near : \A m \in near : srcs[m].at <= srcs[n].at}

(***************************************************************************)
(* _advance_path                                                           *)
(***************************************************************************)
\* Route prefixes left behind by a branch stay witnesses of their live tips.
LeftBehind(p, prefix) ==
    {SubSeq(p.route, 1, i) :
        i \in {j \in DOMAIN p.route : /\ Id(p.route[j]) \notin Ids(prefix)
                                      /\ p.route[j].active
                                      /\ p.route[j].kind # "interaction"}}

\* Three ordinary steps through distinct nodes and changing zones.
Confirms(route) ==
    /\ Len(route) >= 3 /\ Last(route).kind = "positive"
    /\ LET r == LastOf(3, route)
       IN  /\ Cardinality({r[i].node : i \in 1 .. 3}) = 3
           /\ Zone[r[1].node] # Zone[r[2].node] /\ Zone[r[2].node] # Zone[r[3].node]

AdvancedPath(c, target) ==
    LET p == c.path
        route == LastOf(Limit, Append(c.prefix, target))
    IN  Normalized(
            [p EXCEPT !.visits = LastOf(Limit, Append(@, target)), !.route = route,
                      !.spatialAt = IF Zone[target.node] # Zone[Endpoint(p).node]
                                    THEN target.at ELSE @,
                      !.confirmed = @ \/ Confirms(route),
                      !.eligible = TRUE,
                      !.branches = @ \cup LeftBehind(p, c.prefix)])

NewPath(visits) ==
    [visits |-> visits, route |-> visits, spatialAt |-> Last(visits).at,
     confirmed |-> FALSE, eligible |-> TRUE, branches |-> {}]

\* Mutant: only the last move counts.
MutWeaker(p, q) == p.spatialAt < q.spatialAt

\* _weakness: unconfirmed before confirmed, the least recent move first.
Weaker(p, q) ==
    \/ ~p.confirmed /\ q.confirmed
    \/ p.confirmed = q.confirmed /\ p.spatialAt < q.spatialAt
Kept(ps, k) ==
    {S \in SUBSET ps :
        /\ Cardinality(S) = IF Cardinality(ps) < k THEN Cardinality(ps) ELSE k
        /\ \A p \in ps \ S, q \in S : ~Weaker(q, p)}

\* _install: an empty slot, or the weakest path gives up its own.
Installed(ps, path) == {S \cup {path} : S \in Kept(ps, count - 1)}

OriginOf(kind) ==
    CASE kind = "positive" -> "ordinary"
      [] kind = "correlated_positive" -> "correlated"
      [] kind = "interaction" -> "interaction"

\* _record
Recorded(srcs, v, consumed) ==
    [srcs EXCEPT ![v.node] = [gen |-> v.gen, at |-> v.at, origin |-> OriginOf(v.kind),
                              consumed |-> consumed \/ v.kind # "positive"]]
Spent(srcs, v) ==
    [srcs EXCEPT ![v.node] = IF @.gen = v.gen THEN [@ EXCEPT !.consumed = TRUE] ELSE @]

(***************************************************************************)
(* The calls.  Each ends with a reconciliation with the physical states.   *)
(***************************************************************************)
Init ==
    /\ now = 0
    /\ phys = [n \in Nodes |-> FreshNode]
    /\ count \in 0 .. MaxCount
    /\ paths = {}
    /\ sources = [n \in Nodes |-> NoSource]

Settle(ps, srcs, ph) ==
    /\ paths' = Reconciled(ps, ph)
    /\ sources' = ReconciledSources(srcs, ph)

\* observe continues the path of c: its source visit is spent.
Continue(ps, srcs, target, ph, c) ==
    Settle((ps \ {c.path}) \cup {AdvancedPath(c, target)},
           Recorded(Spent(srcs, Last(c.prefix)), target, TRUE), ph)

\* Mutant: the origin of a new path can be used again.
MutPairUp(ps, srcs, target, ph, n) ==
    \E slots \in Installed(ps, NewPath(<<Visit(n, srcs[n], "positive"), target>>)) :
        Settle(slots, Recorded(srcs, target, TRUE), ph)

\* observe pairs the target with the pending origin at n.
PairUp(ps, srcs, target, ph, n) ==
    \E slots \in Installed(ps, NewPath(<<Visit(n, srcs[n], "positive"), target>>)) :
        Settle(slots,
               Recorded([srcs EXCEPT ![n].consumed = TRUE], target, TRUE), ph)

\* A press, or an adopted positive, locates an occupant by itself.
Admit(ps, srcs, target, ph) ==
    \E slots \in Installed(ps, NewPath(<<target>>)) :
        Settle(slots, Recorded(srcs, target, TRUE), ph)

\* A positive nothing explains is pending; a correlated one is only recorded.
Await(ps, srcs, target, ph) == Settle(ps, Recorded(srcs, target, FALSE), ph)

\* Whether the paths account for the target by themselves.
Explained(ps, srcs, target, before) ==
    \/ Continuations(ps, target, before) # {}
    \/ OriginNodes(srcs, target) # {}
    \/ target.kind = "interaction"

\* adopts: the traversal frontier authorizes a positive that nothing explains,
\* and adopt gives it a slot.
Select(ps, srcs, target, before, after, adopts) ==
    LET found == Continuations(ps, target, before)
        origins == OriginNodes(srcs, target)
        admits == target.kind = "interaction" \/ (target.kind = "positive" /\ adopts)
    IN  \/ \E c \in found : Continue(ps, srcs, target, after, c)
        \/ found = {} /\ \E n \in origins : PairUp(ps, srcs, target, after, n)
        \/ found = {} /\ origins = {} /\ admits /\ Admit(ps, srcs, target, after)
        \/ found = {} /\ origins = {} /\ ~admits /\ Await(ps, srcs, target, after)

Generated(ph) == FoldFunction(LAMBDA s, sum : s.gen + sum, 0, ph)

\* A positive or a press of n: the engine has reconciled with the states before it.
ObserveEffect(n, s, adopts) ==
    LET after == [phys EXCEPT ![n] = s]
        ps == Reconciled(paths, phys)
        srcs == ReconciledSources(sources, phys)
        target == Visit(n, s, Kind(n, s))
    IN  /\ s.gen <= MaxGen[n] /\ Generated(phys) < MaxTotal
        /\ phys' = after
        /\ IF count = 0 THEN Settle(ps, Recorded(srcs, target, TRUE), after)
           ELSE Select(ps, srcs, target, phys, after, adopts)
        /\ UNCHANGED <<now, count>>

Press(n) == CanPress(n, phys[n], now) /\ ObserveEffect(n, Pressed(phys[n], now), FALSE)
Positive(n, adopts) ==
    CanStart(n, phys[n], now) /\ ObserveEffect(n, Started(n, phys[n], now, FALSE), adopts)
Correlated(n) ==
    /\ CanStart(n, phys[n], now) /\ CanLink(n, phys[n])
    /\ ObserveEffect(n, Started(n, phys[n], now, TRUE), FALSE)

\* Observations without an effect on the paths, and startup levels: the
\* physical states change and authority is only withdrawn.
PhysicalChange(ph) ==
    /\ phys' = ph
    /\ Settle(paths, sources, ph)
    /\ UNCHANGED <<now, count>>

Release(n) == CanRelease(phys[n]) /\ PhysicalChange([phys EXCEPT ![n] = Released(@)])
Reopen(n) ==
    /\ "reopen" \in Inputs /\ CanReopen(n, phys[n], now)
    /\ PhysicalChange([phys EXCEPT ![n] = Reopened(@)])
Lose(n) ==
    /\ n \in Fallible /\ CanLose(phys[n])
    /\ PhysicalChange([phys EXCEPT ![n] = Lost(@)])
Return(n) ==
    /\ n \in Fallible /\ CanReturn(n, phys[n])
    /\ PhysicalChange([phys EXCEPT ![n] = Returned(@)])

\* reconcile_restored_asserted_contexts after a restart.
StartupRead(read) == [n \in Nodes |-> IF n \in Fallible THEN read[n] ELSE phys[n]]
Startup ==
    \E read \in [Fallible -> UNION {StartupStates(n, phys[n], now) : n \in Fallible}] :
        /\ "startup" \in Inputs
        /\ \A n \in Fallible :
              read[n] \in StartupStates(n, phys[n], now) /\ read[n].gen <= MaxGen[n]
        /\ Generated(StartupRead(read)) <= MaxTotal
        /\ PhysicalChange(StartupRead(read))

\* advance, possibly to a later time at which a group of stable clears falls due.
Advance(settled) ==
    /\ now' \in {now, now + 1} /\ now' <= MaxTime
    /\ settled # {} => now' > now
    /\ \A n \in settled : CanSettle(phys[n])
    /\ phys' = [n \in Nodes |-> IF n \in settled THEN Settled(phys[n]) ELSE phys[n]]
    /\ Settle(paths, sources, phys')
    /\ UNCHANGED count

\* Count zero consumes every origin.
Forgotten(srcs, k) == IF k = 0 THEN [n \in Nodes |-> Consumed(srcs[n])] ELSE srcs

\* observe_count: the weakest paths give up the slots that are gone; count
\* zero also resets the cadence of every node.
SetCount(k) ==
    /\ "count" \in Inputs /\ k # count /\ count' = k
    /\ paths' \in Kept(Reconciled(paths, phys), k)
    /\ sources' = Forgotten(ReconciledSources(sources, phys), k)
    /\ phys' = [n \in Nodes |-> IF k = 0 THEN Uncorrelated(phys[n]) ELSE phys[n]]
    /\ UNCHANGED now

NodeCall(n) ==
    \/ Press(n) \/ Correlated(n) \/ \E adopts \in BOOLEAN : Positive(n, adopts)
    \/ Release(n) \/ Reopen(n) \/ Lose(n) \/ Return(n)

Next ==
    \/ \E n \in Nodes : NodeCall(n)
    \/ Startup
    \/ \E settled \in SUBSET Nodes : Advance(settled)
    \/ \E k \in 0 .. MaxCount : SetCount(k)

Spec == Init /\ [][Next]_vars

(***************************************************************************)
(* Properties                                                              *)
(***************************************************************************)
VisitType ==
    [node : Nodes, gen : Nat \ {0}, at : 0 .. MaxTime, kind : Kinds, active : BOOLEAN]
SourceType ==
    [gen : Nat, at : Nat \cup {NoTime}, origin : Origins, consumed : BOOLEAN]
IsRecords(r) == Len(r) \in 1 .. Limit /\ ToSet(r) \subseteq VisitType

\* The slots hold paths, the sources one record per node.
TypeOK ==
    /\ now \in 0 .. MaxTime /\ count \in 0 .. MaxCount
    /\ phys \in [Nodes -> NodeState]
    /\ sources \in [Nodes -> SourceType]
    /\ \A p \in paths :
          /\ \A r \in Records(p) : IsRecords(r)
          /\ p.spatialAt \in 0 .. MaxTime /\ p.confirmed \in BOOLEAN /\ p.eligible \in BOOLEAN

\* Observations of one record come in time and generation order.
Chronological(r) ==
    \A i, j \in DOMAIN r : i < j =>
        /\ r[i].at <= r[j].at
        /\ r[i].node = r[j].node => r[i].gen < r[j].gen

\* All copies of a visit agree, and later generations are not earlier in time.
CopiesAgree(visits) ==
    \A u, v \in visits : u.node = v.node =>
        (u.gen = v.gen => u = v) /\ (u.gen < v.gen => u.at <= v.at)

\* What the history and the route share comes in one order.
SameOrder(p) ==
    \A i, j \in DOMAIN p.visits, k, l \in DOMAIN p.route :
        Id(p.visits[i]) = Id(p.route[k]) /\ Id(p.visits[j]) = Id(p.route[l]) /\ i < j => k < l

TipsOK(p) ==
    /\ Cardinality(p.branches) < Limit
    /\ \A w, x \in p.branches : Id(Last(w)) = Id(Last(x)) => w = x
    /\ \A tip \in Tips(p) :
          /\ tip.kind # "interaction" /\ tip.active
          /\ Id(tip) \in Ids(p.visits) \ Ids(p.route)

AuthorityOK(p) ==
    /\ ~p.eligible => ~Endpoint(p).active
    /\ \A v \in Occurrences(p) : v.active => Id(v) \in {Id(u) : u \in Authoritative(p)}

SpatialOK(p) ==
    /\ p.spatialAt <= UpdatedAt(p)
    /\ Len(p.visits) < Limit \/ p.spatialAt >= Head(p.visits).at =>
          p.spatialAt \in {v.at : v \in ToSet(p.visits)}

\* Successive visits of routes and witnesses.
Moves(p) ==
    UNION {{<<r[i], r[i + 1]>> : i \in 1 .. Len(r) - 1} : r \in {p.route} \cup p.branches}

OneParent(p) == \A m, k \in Moves(p) : Id(m[2]) = Id(k[2]) => Id(m[1]) = Id(k[1])

\* SelectedPath.__post_init__
PathOK(p) ==
    /\ Last(p.visits) = Endpoint(p)
    /\ \A r \in Records(p) : Chronological(r)
    /\ CopiesAgree(Occurrences(p)) /\ SameOrder(p) /\ OneParent(p)
    /\ TipsOK(p) /\ AuthorityOK(p) /\ SpatialOK(p)
    /\ Len(p.visits) < Limit => Head(p.visits).kind # "correlated_positive"
    /\ p.confirmed => Len(p.visits) >= 3

\* What must come before what: recorded order and generation order.
Before(ps) ==
    LET visits == UNION {Occurrences(p) : p \in ps}
        rows == UNION {Records(p) : p \in ps}
    IN  (UNION {{<<Id(r[i]), Id(r[i + 1])>> : i \in 1 .. Len(r) - 1} : r \in rows})
        \cup {<<Id(e[1]), Id(e[2])>> :
                  e \in {m \in visits \X visits : m[1].node = m[2].node /\ m[1].gen < m[2].gen}}

\* _validate_causal_order: peeling off what has no predecessor leaves nothing.
Acyclic(edges) ==
    LET ids == {e[1] : e \in edges} \cup {e[2] : e \in edges}
        left[k \in 0 .. Cardinality(ids)] ==
            IF k = 0 THEN ids
            ELSE {i \in left[k - 1] : \E e \in edges : e[2] = i /\ e[1] \in left[k - 1]}
    IN  left[Cardinality(ids)] = {}

\* Every live transition builds a path that SelectedPath accepts: no
\* sequence of calls makes the constructor raise inside the engine.
PathsValid == \A p \in paths : PathOK(p)

Accounted(p, v) ==
    LET src == sources[v.node]
    IN  /\ src.origin # "none" /\ src.gen >= v.gen /\ src.at >= v.at
        /\ src.gen > v.gen => ~v.active /\ ~(v = Endpoint(p) /\ p.eligible)
        /\ src.gen = v.gen => src.consumed /\ src.origin = OriginOf(v.kind)

Physical(n) ==
    LET src == sources[n]
    IN  src.origin # "none" =>
            /\ src.gen <= phys[n].gen /\ src.at <= phys[n].at
            /\ src.gen = phys[n].gen =>
                  src.at = phys[n].at /\ (phys[n].correlated => src.origin = "correlated")

\* What restore and the engine's integrity check demand of a saved snapshot:
\* no observation serves two occupants, every visit is accounted for in the
\* ledger, routes follow the map, and no authority outlives its generation.
Restorable ==
    /\ TypeOK /\ PathsValid
    /\ Cardinality(paths) <= count
    /\ count = 0 => \A n \in Nodes : ~Pending(sources[n])
    /\ \A p, q \in paths : p # q =>
          {Id(v) : v \in Occurrences(p)} \cap {Id(v) : v \in Occurrences(q)} = {}
    /\ \A p \in paths : \A v \in Occurrences(p) : Accounted(p, v)
    /\ \A p \in paths : \A m \in Moves(p) : Step(m[1].node, m[2].node)
    /\ CopiesAgree(UNION {Occurrences(p) : p \in paths})
    /\ Acyclic(Before(paths))
    /\ \A n \in Nodes : Physical(n)
    /\ Reconciled(paths, phys) = paths /\ ReconciledSources(sources, phys) = sources

\* A visit comes into a path only as a new generation or a pending origin.
Earned(v) ==
    v.gen > sources[v.node].gen \/ (v.gen = sources[v.node].gen /\ Pending(sources[v.node]))

\* Authority that was withdrawn, spent, displaced or evicted never comes back:
\* not by a flap, a count raised again, a restart or the choice of a branch.
AuthorityNotRegained ==
    [][/\ \A q \in paths' : \A v \in Occurrences(q) :
             \/ Earned(v)
             \/ \E p \in paths : \E u \in Occurrences(p) : Id(u) = Id(v) /\ (v.active => u.active)
       /\ \A q \in paths' : q.eligible =>
             \/ Earned(Endpoint(q))
             \/ \E p \in paths : Id(Endpoint(p)) = Id(Endpoint(q)) /\ p.eligible]_vars

Continues(q, p) == Ids(q.visits) \cap Ids(p.visits) # {}

\* A located occupant is only given up for want of a slot, and a confirmed
\* one not before an unconfirmed one.
OccupantKept ==
    [][LET lost == {p \in paths : \A q \in paths' : ~Continues(q, p)}
       IN  lost # {} =>
             /\ Cardinality(paths') = count'
             /\ \A p \in lost, q \in paths \ lost : p.confirmed => q.confirmed]_vars
=============================================================================
