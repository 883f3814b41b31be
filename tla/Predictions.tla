---------------------------- MODULE Predictions -----------------------------
(***************************************************************************)
(* zone_model/prediction.py and the parts of engine.py that drive it: the  *)
(* leases issued when a confirmed track enters a node, the predicted phase *)
(* they give the policy of a neighbouring zone, and the learning of route  *)
(* counts, deferred while a lease stands on the row it was computed from.  *)
(*                                                                         *)
(* An action is one engine call, with every call it makes.  An episode is  *)
(* identified by its node and its start (one episode per node and time).   *)
(* Health, evidence and belief are inputs; a probability is kept as the    *)
(* weight of the target and the total of its row.                          *)
(***************************************************************************)
EXTENDS Integers, FiniteSets, FiniteSetsExt, Functions

CONSTANTS
    Nodes,           \* nodes of the map
    Adjacent,        \* [Nodes -> SUBSET Nodes]
    Zone,            \* [Nodes -> zones]
    Prior,           \* [Nodes -> Nat], route_prior_weight
    InitialCounts,   \* counts an installation starts with
    CountLimit,      \* MARKOV_COUNT_LIMIT
    LeaseDuration,   \* LEASE_DURATION
    LeaseLimit,      \* LEASE_LIMIT
    MaturityNum,     \* MATURITY_PROBABILITY is MaturityNum / MaturityDen
    MaturityDen,
    MaturitySupport, \* MATURITY_SUPPORT
    Fallible,        \* nodes whose sensor may become unhealthy
    MaxTime          \* bound on the time of a call

NoTime == -1
NoCount == -1
Times == 0 .. MaxTime
Edges == {e \in Nodes \X Nodes : e[2] \in Adjacent[e[1]]}
Zones == {Zone[n] : n \in Nodes}
Row(s) == {e \in Edges : e[1] = s}

ASSUME MapAssumption ==
    /\ IsFiniteSet(Nodes)
    /\ Adjacent \in [Nodes -> SUBSET Nodes]
    /\ \A s \in Nodes : s \notin Adjacent[s]
    /\ Prior \in [Nodes -> Nat \ {0}]
    /\ Fallible \subseteq Nodes

ASSUME LimitAssumption ==
    /\ {CountLimit, LeaseDuration, LeaseLimit, MaturityDen, MaturityNum} \subseteq Nat \ {0}
    /\ MaturitySupport \in Nat /\ MaxTime \in Nat
    /\ MaturityNum <= MaturityDen /\ MaturityDen < 2 * MaturityNum
    /\ InitialCounts \subseteq [Edges -> 0 .. CountLimit]

VARIABLES
    updatedAt,  \* engine._updated_at
    empty,      \* the expected count is zero
    lastEvent,  \* [Nodes -> time of the last accepted event]
    unhealthy,  \* nodes for which _health_blocked holds
    counts,     \* chain.counts, as [Edges -> Nat]
    deferred,   \* _deferred_counts: the prospective count or NoCount
    pending,    \* _pending_prediction_learning, as [Edges -> Nat]
    leases,     \* _leases: a set of records
    grants,     \* keys of _grants
    policy      \* [Zones -> phase and, when predicted, what it rests on]

learning == <<counts, deferred, pending>>
vars == <<updatedAt, empty, lastEvent, unhealthy, learning, leases, grants, policy>>

Lease == [src : Nodes, cur : Nodes, tgt : Nodes, created : Times, selected : BOOLEAN,
          support : Nat, weight : Nat, total : Nat]

Key(l) == <<l.src, l.cur, l.tgt, l.created>>
Expires(l) == l.created + LeaseDuration

Mature(l) == l.weight * MaturityDen >= MaturityNum * l.total /\ l.support >= MaturitySupport

\* The fields of a lease a predicted policy remembers.
Basis(l) == [cur |-> l.cur, created |-> l.created, support |-> l.support,
             weight |-> l.weight, total |-> l.total]
Inactive == [phase |-> "inactive"]
Active == [phase |-> "active"]
Predicted(l) == [phase |-> "predicted", basis |-> Basis(l)]

(***************************************************************************)
(* Learning                                                                *)
(***************************************************************************)
NonePending == [e \in Edges |-> 0]

\* Mutant: a prospective count starts again from the committed one.
MutProjected(batch) ==
    [e \in Edges |->
        IF batch[e] = 0 THEN deferred[e]
        ELSE LET p == Min({CountLimit, counts[e] + batch[e]})
             IN  IF p > counts[e] THEN p ELSE NoCount]

\* Mutant: nothing limits a count.
MutUncapped(batch) ==
    [e \in Edges |->
        IF batch[e] = 0 THEN deferred[e]
        ELSE (IF deferred[e] = NoCount THEN counts[e] ELSE deferred[e]) + batch[e]]

\* _project_deferred: one more observation at a time, up to the limit.
Projected(batch) ==
    [e \in Edges |->
        IF batch[e] = 0 THEN deferred[e]
        ELSE LET base == IF deferred[e] = NoCount THEN counts[e] ELSE deferred[e]
                 p == Min({CountLimit, base + batch[e]})
             IN  IF p > counts[e] THEN p ELSE NoCount]

\* Mutant: rows are learned whatever leases stand on them.
MutBlocked(L) == {}

Blocked(L) == {l.cur : l \in L}

Weight(e) == counts[e] + Prior[e[2]]
Total(s) == SumFunction([e \in Row(s) |-> Weight(e)])

(***************************************************************************)
(* Leases                                                                  *)
(***************************************************************************)
Alive(L, at) == {l \in L : Expires(l) > at}

\* Mutant: evidence at the target leaves its lease alone.
MutContradicted(l, events, observed) == FALSE

Contradicted(l, events, observed) == l.tgt \in observed \/ events[l.tgt] > l.created

\* An authorization of the call: the step of a confirmed track from src to cur.
\* source is FALSE when the engine keeps it from issuing (the zone was
\* predicted, or the effect is a correlated one).
Auths(n) == {x \in [src : {s \in Nodes : n \in Adjacent[s]}, selected : BOOLEAN, source : BOOLEAN] :
                x.selected => x.source}
NoAuth == [none |-> TRUE]

Departed(auth) == IF auth = NoAuth THEN {} ELSE {auth.src}

Issues(auth) == auth # NoAuth /\ auth.source

\* What the step adds to _pending_prediction_learning.
Batch(n, auth) ==
    IF Issues(auth) /\ ~auth.selected THEN [NonePending EXCEPT ![<<auth.src, n>>] = 1] ELSE NonePending

\* _create_leases
Created(auth, n, at, sick) ==
    IF ~Issues(auth) \/ n \in sick THEN {}
    ELSE {[src |-> auth.src, cur |-> n, tgt |-> t, created |-> at, selected |-> auth.selected,
           support |-> counts[<<n, t>>], weight |-> Weight(<<n, t>>), total |-> Total(n)] :
              t \in (Adjacent[n] \ {auth.src}) \ sick}

\* _enforce_bound: the latest LeaseLimit leases stay; identifiers break ties.
BoundedSets(L) ==
    IF Cardinality(L) <= LeaseLimit THEN {L}
    ELSE {K \in SUBSET L : Cardinality(K) = LeaseLimit
                           /\ \A k \in K, d \in L \ K : k.created >= d.created}

Granted(L) == {Key(l) : l \in {k \in L : k.selected}}

\* prepare, before the leases it creates.
Kept(at, events, sick, observed, auth) ==
    {l \in Alive(leases, at) :
        /\ l.cur \notin sick
        /\ ~Contradicted(l, events, observed)
        /\ l.cur \notin Departed(auth)}

(***************************************************************************)
(* Policies                                                                *)
(***************************************************************************)
Due(p, at) == p.phase = "predicted" /\ p.basis.created + LeaseDuration <= at

\* Mutant: a canceled lease leaves its zone predicted until the deadline.
MutBacked(z, p, L) == TRUE

\* A mature lease for the zone that agrees with what the policy remembers.
Backed(z, p, L) == \E l \in L : Mature(l) /\ Zone[l.tgt] = z /\ Basis(l) = p.basis

\* _release_due_policies: deadlines of the predicted phase that have passed.
Expired(at) == [z \in Zones |-> IF Due(policy[z], at) THEN Inactive ELSE policy[z]]

\* expire_prediction, as _evaluate_policies calls it without local evidence.
Elsewhere(z, p, at, L) ==
    IF p.phase = "predicted" /\ (Due(p, at) \/ ~Backed(z, p, L)) THEN Inactive ELSE p

\* Active zones may be released whenever belief and dwell say so.
LetGo(p) ==
    {[z \in Zones |-> IF z \in released THEN Inactive ELSE p[z]] :
        released \in SUBSET {z \in Zones : p[z] = Active}}

\* The policies after an evaluation of every zone without local evidence.
Evaluated(was, at, L) == LetGo([z \in Zones |-> Elsewhere(z, was[z], at, L)])

\* Mutant: a new lease renews the prediction it has just evicted.
MutPromoted(z, before, p, new) ==
    LET mine == {l \in new : Mature(l) /\ Zone[l.tgt] = z}
    IN  IF p = Inactive /\ mine # {} THEN Predicted(CHOOSE l \in mine : TRUE) ELSE p

\* apply_prediction for the mature lease just issued, unless the zone is
\* active, or its earlier prediction has ended in this very call.
Promoted(z, before, p, new) ==
    LET mine == {l \in new : Mature(l) /\ Zone[l.tgt] = z}
    IN  IF before.phase # "predicted" /\ p = Inactive /\ mine # {}
        THEN Predicted(CHOOSE l \in mine : TRUE) ELSE p

(***************************************************************************)
(* Engine calls                                                            *)
(***************************************************************************)
Init ==
    /\ updatedAt = 0 /\ empty = FALSE
    /\ lastEvent = [n \in Nodes |-> NoTime] /\ unhealthy = {}
    /\ counts \in InitialCounts
    /\ deferred = [e \in Edges |-> NoCount] /\ pending = NonePending
    /\ leases = {} /\ grants = {}
    /\ policy = [z \in Zones |-> Inactive]

\* _fold_prior_learning, then what this call has learned.
Learn(batch) == deferred' = Projected(pending) /\ pending' = batch /\ UNCHANGED counts

\* observe: an accepted event of n; its effect may authorize a step of a
\* track.  Its own zone is occupied after it (acquired, confirmed or held) or
\* not (never acquired, unconfirmed or released); the engine may let an active
\* zone go before the event or after it, with the same outcome.
Observe(n, at, auth, sick, occupied) ==
    /\ ~empty /\ updatedAt <= at
    /\ auth # NoAuth =>
        /\ lastEvent[n] < at
        /\ auth.source => Expired(at)[Zone[n]].phase # "predicted"
    /\ updatedAt' = at
    /\ lastEvent' = [lastEvent EXCEPT ![n] = at]
    /\ unhealthy' = IF sick THEN unhealthy \cup {n} ELSE unhealthy \ {n}
    /\ LET was == Expired(at)
           kept == Kept(at, lastEvent', unhealthy', {n}, auth)
           made == Created(auth, n, at, unhealthy')
           local == IF occupied THEN Active ELSE Inactive
       IN  /\ leases' \in BoundedSets(kept \cup made)
           /\ grants' = Granted(leases')
           /\ \E q \in Evaluated(was, at, leases') :
                policy' = [z \in Zones |->
                    Promoted(z, was[z], IF z = Zone[n] THEN local ELSE q[z], made \cap leases')]
    /\ Learn(Batch(n, auth))
    /\ UNCHANGED empty

\* observe or observe_count of an input that is not accepted: only deadlines.
Rejected(at) ==
    /\ updatedAt <= at
    /\ updatedAt' = at
    /\ leases' = Alive(leases, at)
    /\ grants' = Granted(leases')
    /\ policy' \in LetGo(Expired(at))
    /\ UNCHANGED <<empty, lastEvent, unhealthy, learning>>

\* advance, and observe_count of another positive count.
Advance(at) ==
    /\ updatedAt <= at
    /\ updatedAt' = at
    /\ leases' = IF empty THEN {} ELSE Kept(at, lastEvent, unhealthy, {}, NoAuth)
    /\ grants' = Granted(leases')
    /\ policy' \in Evaluated(policy, at, leases')
    /\ UNCHANGED <<empty, lastEvent, unhealthy, learning>>

\* observe_count accepts zero; count zero clears leases and policies.
CountZero(at) ==
    /\ ~empty /\ updatedAt <= at
    /\ updatedAt' = at /\ empty' = TRUE
    /\ leases' = {} /\ grants' = {}
    /\ policy' = [z \in Zones |-> Inactive]
    /\ UNCHANGED <<lastEvent, unhealthy, learning>>

CountPositive(at) == empty /\ empty' = FALSE /\ updatedAt <= at /\ updatedAt' = at
                     /\ UNCHANGED <<lastEvent, unhealthy, learning, leases, grants, policy>>

\* _observe_empty_house
ObserveEmpty(n, at, sick) ==
    /\ empty /\ updatedAt <= at
    /\ updatedAt' = at
    /\ lastEvent' = [lastEvent EXCEPT ![n] = at]
    /\ unhealthy' = IF sick THEN unhealthy \cup {n} ELSE unhealthy \ {n}
    /\ Learn(NonePending)
    /\ UNCHANGED <<empty, leases, grants, policy>>

\* commit_prediction_learning, after publication.
CommitLearning ==
    /\ counts' = [e \in Edges |->
            LET p == Projected(pending)[e]
            IN  IF p # NoCount /\ e[1] \notin Blocked(leases) THEN p ELSE counts[e]]
    /\ deferred' = [e \in Edges |->
            IF e[1] \notin Blocked(leases) THEN NoCount ELSE Projected(pending)[e]]
    /\ pending' = NonePending
    /\ UNCHANGED <<updatedAt, empty, lastEvent, unhealthy, leases, grants, policy>>

\* A restart: the serialized state is restored, the sensors of changed are
\* found at another level, and the snapshot is reconciled at at.
Restart(at, changed, sick) ==
    /\ updatedAt <= at
    /\ updatedAt' = at
    /\ deferred' = Projected(pending) /\ pending' = NonePending
    /\ lastEvent' = [n \in Nodes |-> IF n \in changed THEN at ELSE lastEvent[n]]
    /\ unhealthy' = (unhealthy \ changed) \cup sick
    /\ leases' = IF empty THEN {} ELSE Kept(at, lastEvent', unhealthy', {}, NoAuth)
    /\ grants' = Granted(leases')
    /\ policy' \in Evaluated(policy, at, leases')
    /\ UNCHANGED <<empty, counts>>

SickAllowed(n) == IF n \in Fallible THEN BOOLEAN ELSE {FALSE}

ObserveSome(n, auth) ==
    \E at \in Times, sick \in SickAllowed(n), occupied \in BOOLEAN :
        Observe(n, at, auth, sick, occupied)

Unobserving ==
    \/ \E at \in Times : Rejected(at)
    \/ \E at \in Times : Advance(at)
    \/ \E at \in Times : CountZero(at)
    \/ \E at \in Times : CountPositive(at)
    \/ \E n \in Nodes, at \in Times : \E sick \in SickAllowed(n) : ObserveEmpty(n, at, sick)
    \/ CommitLearning
    \/ \E at \in Times, changed \in SUBSET Nodes :
        \E sick \in SUBSET (changed \cap Fallible) : Restart(at, changed, sick)

Next ==
    \/ \E n \in Nodes : \E auth \in Auths(n) \cup {NoAuth} : ObserveSome(n, auth)
    \/ Unobserving

Spec == Init /\ [][Next]_vars

(***************************************************************************)
(* Properties                                                              *)
(***************************************************************************)
\* Type invariant of the lease manager and the predicted phases.
TypeOK ==
    /\ updatedAt \in Times /\ empty \in BOOLEAN
    /\ lastEvent \in [Nodes -> Times \cup {NoTime}] /\ unhealthy \subseteq Nodes
    /\ counts \in [Edges -> 0 .. CountLimit]
    /\ deferred \in [Edges -> {NoCount} \cup 1 .. CountLimit]
    /\ pending \in [Edges -> Nat]
    /\ leases \subseteq Lease
    /\ \A z \in Zones : policy[z].phase \in {"inactive", "active", "predicted"}

LeaseCurrent(l) ==
    /\ l.created <= updatedAt /\ updatedAt < Expires(l)
    /\ lastEvent[l.tgt] <= l.created
    /\ l.selected => l.cur \notin unhealthy

\* A lease agrees with the row it was computed from as long as it lives, however
\* many observations of that row were accepted meanwhile.
LeaseExact(l) ==
    /\ l.support = counts[<<l.cur, l.tgt>>]
    /\ l.weight = Weight(<<l.cur, l.tgt>>) /\ l.total = Total(l.cur)

\* Between calls the state is one that a restart accepts: what restore of
\* prediction.py and _validate_prediction_consistency of engine.py require.
Restorable ==
    /\ TypeOK
    /\ \A l \in leases : LeaseCurrent(l) /\ LeaseExact(l)
    /\ grants = Granted(leases)
    /\ Cardinality(leases) <= LeaseLimit
    /\ \A e \in Edges : deferred[e] = NoCount \/ (counts[e] < deferred[e] /\ deferred[e] <= CountLimit)
    /\ empty => leases = {} /\ \A z \in Zones : policy[z] = Inactive

\* A predicted zone rests on exactly one live mature lease, after evictions,
\* departures, contradicting evidence and restarts.
PredictedBacked ==
    \A z \in Zones : policy[z].phase = "predicted" =>
        Cardinality({l \in leases : Mature(l) /\ Zone[l.tgt] = z /\ Basis(l) = policy[z].basis}) = 1

\* A prediction is never renewed: as long as a zone stays predicted its lease,
\* and with it the deadline, is the one it was activated by.  Another lease takes
\* over only in a call that found the earlier prediction past its deadline.
NonRenewing ==
    [][\A z \in Zones : policy[z].phase = "predicted" /\ policy'[z].phase = "predicted"
            => policy'[z].basis = policy[z].basis \/ Due(policy[z], updatedAt')]_vars
=============================================================================
