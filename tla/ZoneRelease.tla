---------------------------- MODULE ZoneRelease ----------------------------
(***************************************************************************)
(* The light of one zone: its only sensor, its belief and its policy, in   *)
(* the order ZoneModelEngine (zone_model/engine.py) updates them in one    *)
(* call.  The rest of the house enters through what it does to this zone:  *)
(* it moves the selected path away, resolves the occupancy record,         *)
(* registers outward movement, and grants or cancels a prediction lease.   *)
(*                                                                         *)
(* zone is the state of the engine for the zone; published is the last     *)
(* public event.  Each action is one whole call of the engine.             *)
(***************************************************************************)
EXTENDS ZonePolicy

CONSTANTS
    Stay,           \* the profile's role is stay
    Presence,       \* the profile is stay_presence
    Burst, Hold, StableClear,  \* burst window, hardware hold, stable clear window
    OutwardWindow,  \* validity of outward context and of departure tokens
    LeaseTime,      \* lifetime of a prediction lease
    Seeds,          \* active flags a legacy store may carry over
    Inputs,         \* bound on the calls: which of InputKinds an instance has
    MaxStep,        \* bound on the time between two calls
    MaxTime         \* bound on time

InputKinds == {"local", "path", "lease", "movement", "count", "restart"}

ASSUME ReleaseAssumption ==
    /\ Inputs \subseteq InputKinds /\ Seeds \subseteq BOOLEAN
    /\ Stay \in BOOLEAN /\ Presence \in BOOLEAN /\ (Presence => Stay)
    /\ {Burst, Hold} \subseteq Nat /\ Burst < StableClear
    /\ {StableClear, OutwardWindow, LeaseTime, MaxStep} \subseteq Nat \ {0}
    /\ MaxTime \in Nat

VARIABLES zone, published

vars == <<zone, published>>

\* What a restart publishes, whatever it changes.
Silent == "silent"

Levels == {"on", "off", "unavailable"}
Statuses == {"baseline", "asserted", "clearing", "clear", "unavailable"}
Covers == {"none", "branch", "endpoint"}

(***************************************************************************)
(* The state                                                               *)
(***************************************************************************)
InitialSensor ==
    [level |-> "unavailable", status |-> "baseline", start |-> NoTime,
     clearedAt |-> NoTime, correlated |-> FALSE]

\* A cold engine; seed is the active flag a legacy store carries over.
InitialZone(seed) ==
    [at |-> 0, occupied |-> TRUE, sensor |-> InitialSensor,
     belief |-> InitialBelief(0), policy |-> InitialPolicy(0, seed),
     cover |-> "none",      \* covered_zones, and whether by an endpoint
     visit |-> NoTime,      \* the episode whose visit has branch authority
     pending |-> FALSE,     \* the source is ordinary and not yet consumed
     source |-> NoTime,     \* the episode in the selected source ledger
     departs |-> NoTime,    \* validity of a confirmed path away from the zone
     settled |-> FALSE,     \* a support is settled at the zone
     lease |-> NoTime]      \* expiry of the mature lease that targets the zone

Init ==
    /\ \E seed \in Seeds : zone = InitialZone(seed)
    /\ published = NoEvent

\* A part of a call: the state it left and the event it published, if any.
Step(z, event) == [zone |-> z, event |-> event]
Quiet(z) == Step(z, NoEvent)

\* The second part runs on what the first left; at most one event is public.
Then(s, next) == Step(next.zone, IF next.event # NoEvent THEN next.event ELSE s.event)

(***************************************************************************)
(* Holds                                                                   *)
(***************************************************************************)
KnownOn(s) == s.level = "on"

Witnessed(z) ==
    /\ Presence /\ z.occupied
    /\ z.source # NoTime /\ z.source = z.sensor.start
    /\ \/ KnownOn(z.sensor)
       \/ z.belief.hold /\ z.sensor.status = "clearing" /\ z.sensor.level = "off"

\* _retained_endpoint_hold_zones
RetainedZone(z) ==
    \/ z.cover # "none"
    \/ z.policy.provenance = "evidence" /\ Retains(z.belief, z.policy.activatedAt)

\* _asserted_stay_hold_zones, without the legacy count-conflict clause
AssertedStay(z) ==
    \/ z.belief.hold /\ z.policy.provenance = "evidence"
    \/ /\ Stay /\ z.cover # "none" /\ z.belief.displacedAt = NoTime
       /\ z.sensor.status \in {"asserted", "clearing"} /\ z.sensor.correlated

Evaluated(z, input) ==
    LET o == Evaluate(z.policy, z.belief, input)
    IN  Step([z EXCEPT !.policy = o.policy], o.event)

\* The two evaluations whose result the engine does not publish.
Silently(z, input) == Evaluated(z, input).zone

(***************************************************************************)
(* Coverage                                                                *)
(***************************************************************************)
\* _coverage_changed: loss of coverage displaces the zone, and the loss of
\* its hold is consumed at once.
CoverageChanged(before, z) ==
    LET moved == [z EXCEPT !.belief = Displace(z.belief)]
    IN  IF before.cover = "none" \/ z.cover # "none" THEN z
        ELSE IF moved.policy.held /\ ~RetainedZone(moved) THEN Silently(moved, Unheard)
        ELSE moved

\* What the selected paths and the source ledger hold of the zone.
Located(z, cover, visit, pending) ==
    [z EXCEPT !.cover = cover, !.visit = visit, !.pending = pending]

\* The episode e still goes on: it is the current one, and it is not over.
Eligible(s, e) == s.start = e /\ s.status \notin {"baseline", "clear", "unavailable"}

\* SelectedPaths.reconcile: a visit has authority as long as its own episode
\* goes on, and an endpoint outlives it; an origin needs the level on too.
Withdrawn(z) ==
    LET live == Eligible(z.sensor, z.visit)
    IN  Located(z, IF z.cover = "branch" /\ ~live THEN "none" ELSE z.cover,
                IF live THEN z.visit ELSE NoTime,
                z.pending /\ Eligible(z.sensor, z.source) /\ KnownOn(z.sensor))

\* Mutant: a visit counts for whichever episode of its sensor goes on.
MutReconciled(z) ==
    LET kept == z.cover = "branch" /\ z.sensor.status \in {"asserted", "clearing"}
    IN  CoverageChanged(z, IF kept THEN [Withdrawn(z) EXCEPT !.cover = z.cover, !.visit = z.visit]
                           ELSE Withdrawn(z))

\* _reconcile_selected
Reconciled(z) == CoverageChanged(z, Withdrawn(z))

\* Mutant: the dwell of a lost hold starts with the episode that was held.
MutReconcileHold(z) ==
    LET held  == Witnessed(z)
        after == [z EXCEPT !.belief = SetHold(@, held)]
    IN  IF z.belief.hold # held /\ z.policy.active /\ z.policy.provenance = "evidence"
        THEN Silently(after, [Unheard EXCEPT !.below = z.sensor.start,
                                             !.retained = RetainedZone(after)])
        ELSE after

\* _reconcile_physical_holds: a change is consumed by an active policy.
ReconcileHold(z) ==
    LET held   == Witnessed(z)
        chosen == IF held /\ KnownOn(z.sensor)
                  THEN Reselect(z.belief, z.sensor.start) ELSE z.belief
        after  == [z EXCEPT !.belief = SetHold(chosen, held)]
    IN  IF z.belief.hold # held /\ z.policy.active /\ z.policy.provenance = "evidence"
        THEN Silently(after, [Unheard EXCEPT !.below = z.belief.at,
                                             !.retained = RetainedZone(after)])
        ELSE after

\* The belief at which the hold was lost, or what was kept before.
LossOr(before, after, kept) == IF before.belief.hold /\ ~after.belief.hold THEN after.belief ELSE kept

(***************************************************************************)
(* Deadlines                                                               *)
(***************************************************************************)
\* Any belief kept for the evaluation that ends the call.
Nothing == [at |-> NoTime]
IsKept(b) == b # Nothing

ClearsAt(z) == z.sensor.clearedAt + StableClear
ClearDue(z, t) == z.sensor.status = "clearing" /\ ClearsAt(z) <= t

At(z, t) == [z EXCEPT !.at = t, !.belief = AdvanceTo(@, t)]

\* _apply_effect of the stable clear, with the confirmed departure it finds.
StableClearEffect(z) ==
    LET s == [z.sensor EXCEPT !.status = "clear", !.clearedAt = NoTime]
        b == IF z.belief.generation = s.start THEN ApplyStableClear(z.belief, z.at) ELSE z.belief
        left == /\ Stay /\ b.context \in Cleared /\ b.generation # NoTime
                /\ z.departs > z.at
    IN  IF ~z.occupied THEN [z EXCEPT !.sensor = s]
        ELSE [z EXCEPT !.sensor = s,
                       !.belief = IF left THEN RegisterOutward(b, z.departs, TRUE) ELSE b]

\* kept is the belief _capture_qualified_release_belief or the loss keeps.
Consumed(clear) ==
    LET held  == ReconcileHold(clear)
        proof == \/ clear.policy.held /\ clear.belief.departedAt = clear.at
                 \/ clear.belief.displacedAt = clear.at
    IN  [zone |-> held,
         kept |-> LossOr(clear, held, IF proof THEN clear.belief ELSE Nothing)]

\* _advance_episode_effects: the deadline is consumed at its own time.
EpisodeEffects(z, t) ==
    IF ClearDue(z, t) THEN Consumed(Reconciled(StableClearEffect(At(z, ClearsAt(z)))))
    ELSE [zone |-> z, kept |-> Nothing]


\* When the dwell of a release that is due before an input started.
DueBelow(z, before) ==
    LET crossed  == CrossedAt(before, z.at)
        frontier == IF z.belief.displacedAt # NoTime \/ z.belief.resolvedAt # NoTime
                    THEN ReleaseFrontier(z.belief)
                    ELSE IF z.settled THEN z.belief.departedAt ELSE NoTime
    IN  IF z.policy.provenance = "evidence" /\ frontier # NoTime
        THEN Later(Known(crossed, z.at), frontier) ELSE crossed

Progresses(z) ==
    /\ z.policy.provenance = "evidence"
    /\ \/ z.belief.displacedAt # NoTime \/ z.belief.resolvedAt # NoTime
       \/ z.settled /\ z.belief.departedAt # NoTime

ExpireDue(z, force) ==
    LET o == ExpirePrediction(z.policy, z.at, force)
    IN  Step([z EXCEPT !.policy = o.policy], o.event)

LeaseLasts(z) == [z EXCEPT !.lease = IF @ <= z.at THEN NoTime ELSE @]

\* The policy part of _release_due_policies, s being what expired first.
ReleasedAfter(s, before) ==
    LET z == s.zone
        p == z.policy
        since == Known(p.pending, DueBelow(z, before))
        retained == RetainedZone(z) /\ p.provenance = "evidence"
        held == [Unheard EXCEPT !.asserted = AssertedStay(z), !.retained = retained]
    IN  IF p.phase # "active" THEN s
        ELSE IF retained \/ p.held
        THEN IF retained /\ ~p.held THEN Then(s, Evaluated(z, held)) ELSE s
        ELSE IF AssertedStay(z)
        THEN IF p.pending # NoTime THEN Then(s, Evaluated(z, held)) ELSE s
        ELSE IF z.belief.level > OffLevel \/ since = NoTime THEN s
        ELSE IF z.at < since + Dwell /\ ~(Progresses(z) /\ p.pending = NoTime) THEN s
        ELSE Then(s, Evaluated(z, [Unheard EXCEPT !.below = DueBelow(z, before)]))

\* _release_due_policies: deadlines before an external input take effect.
ReleaseDue(z, before) == ReleasedAfter(ExpireDue(LeaseLasts(z), FALSE), before)

\* Mutant: a policy with a lost lease goes on to its evaluation.
MutEvaluatePolicies(z, input, before) ==
    LET below == [input EXCEPT !.below = CrossedAt(before, z.at),
                               !.asserted = AssertedStay(z), !.retained = RetainedZone(z)]
        due   == ExpireDue(z, FALSE)
    IN  IF due.event # NoEvent THEN due ELSE Evaluated(z, below)

\* _evaluate_policies: a prediction whose lease is gone ends first, and then
\* the policy is not evaluated.
EvaluatePolicies(z, input, before) ==
    LET below == [input EXCEPT !.below = CrossedAt(before, z.at),
                               !.asserted = AssertedStay(z), !.retained = RetainedZone(z)]
        due   == ExpireDue(z, ~input.observed /\ z.lease # z.policy.expires)
    IN  IF due.event # NoEvent THEN due ELSE Evaluated(z, below)

(***************************************************************************)
(* The start of every external input: what was due before it               *)
(***************************************************************************)
KeptOr(kept, b) == IF IsKept(kept) THEN kept ELSE b

\* e is what the deadlines of the zone left, before the input at time t.
BeforeInput(z, e, t) ==
    [step |-> ReleaseDue(Reconciled(At(e.zone, t)), KeptOr(e.kept, z.belief)),
     retained |-> KeptOr(e.kept, IF e.zone.policy.held THEN e.zone.belief ELSE Nothing)]

Pre(z, t) == BeforeInput(z, EpisodeEffects(z, t), t)

Times == zone.at .. (IF zone.at + MaxStep > MaxTime THEN MaxTime ELSE zone.at + MaxStep)

Call(s) == zone' = s.zone /\ published' = s.event

\* The end of an accepted observation of the zone: s is what is published so
\* far, before the belief the evaluation is told about.
Concluded(s, input, before) ==
    LET held == ReconcileHold(s.zone)
        z    == LeaseLasts([held EXCEPT !.lease = NoTime])
    IN  Then(s, EvaluatePolicies(z, [input EXCEPT !.observed = TRUE],
                                 LossOr(s.zone, held, before)))

(***************************************************************************)
(* Observations of the zone's sensor, house occupied                       *)
(***************************************************************************)
ContinuesFlap(s, t) ==
    /\ s.start # NoTime /\ s.status # "unavailable"
    /\ \/ s.clearedAt # NoTime /\ t <= s.clearedAt + Burst
       \/ t < s.start + Hold

\* A flap reasserts the episode; a reopened one takes outward context back.
FlapOn(pre, reopened) ==
    LET z   == pre.step.zone
        on  == [z EXCEPT !.sensor.level = "on", !.sensor.status = "asserted",
                         !.sensor.clearedAt = NoTime,
                         !.belief = IF reopened THEN SupersedeOutward(@) ELSE @]
    IN  /\ zone.occupied /\ ~KnownOn(z.sensor) /\ ContinuesFlap(z.sensor, z.at)
        /\ Call(Concluded(Step(Reconciled(on), pre.step.event), Unheard, z.belief))

Started(s, t, correlated) ==
    [s EXCEPT !.level = "on", !.status = "asserted", !.start = t,
              !.clearedAt = NoTime, !.correlated = correlated]

\* _update_occupancy_evidence for the zone of the effect.
Witness(b, authorized) ==
    IF Stay /\ (b.latest # NoTime \/ (b.level >= OnLevel /\ authorized)) THEN Observe(b) ELSE b

\* The zone becomes the endpoint of a path, and its source is consumed.
AtEndpoint(z) ==
    [Located(z, "endpoint", z.sensor.start, FALSE) EXCEPT !.belief = RestorePath(@)]

\* The positive is selected.
SelectedArrival(z) ==
    [AtEndpoint(z) EXCEPT !.departs = NoTime, !.belief = Witness(ApplyArrival(@), TRUE)]

\* The positive is not selected: an ordinary one waits in the ledger for a
\* positive of a neighbor, or is adopted when it is authorized.
OtherArrival(z, correlated, authorized) ==
    LET chosen  == IF authorized /\ ~correlated THEN AtEndpoint(z)
                   ELSE Located(z, "none", NoTime, ~correlated)
        arrived == IF authorized THEN ApplyArrival(chosen.belief) ELSE chosen.belief
    IN  [chosen EXCEPT !.belief = Witness(arrived, authorized)]

StartOn(pre, correlated, selected, authorized) ==
    LET z    == pre.step.zone
        gain == IF correlated THEN CorrelatedGain ELSE PositiveGain
        on   == [z EXCEPT !.sensor = Started(@, z.at, correlated), !.source = z.at,
                          !.belief = ApplyPositive(@, z.at, z.at, gain)]
        after == IF selected THEN SelectedArrival(on) ELSE OtherArrival(on, correlated, authorized)
        input == [Unheard EXCEPT !.fact = IF correlated THEN "correlated_positive" ELSE "positive",
                                 !.authorized = authorized]
    IN  /\ zone.occupied /\ ~KnownOn(z.sensor) /\ ~ContinuesFlap(z.sensor, z.at)
        /\ z.at > z.sensor.start
        /\ correlated => Presence /\ z.sensor.status = "clear"
        /\ z.cover # "none" => selected
        /\ selected => authorized
        /\ Call(Concluded(Step(Reconciled(after), pre.step.event), input, z.belief))

ClearEdge(pre) ==
    LET z   == pre.step.zone
        off == [z EXCEPT !.sensor.level = "off", !.sensor.status = "clearing",
                         !.sensor.clearedAt = z.at]
        end == Reconciled(off)
    IN  /\ zone.occupied /\ KnownOn(z.sensor)
        /\ Call(Concluded(Step(end, pre.step.event), Unheard,
                          KeptOr(pre.retained, ReconcileHold(end).belief)))

\* An inert clear must not replace an earlier proof of hold loss.
BaselineBefore(cleared, before, kept) ==
    IF /\ cleared = before /\ IsKept(kept)
       /\ kept.generation = cleared.generation /\ kept.context = cleared.context
       /\ kept.departedAt = cleared.departedAt
    THEN kept ELSE before

BaselineOff(pre) ==
    LET z   == pre.step.zone
        off == Reconciled([z EXCEPT !.sensor.level = "off",
                                    !.sensor.status = IF @ = "unavailable" THEN "baseline" ELSE @])
        clr == AvailabilityClear(off.belief)
    IN  /\ zone.occupied /\ z.sensor.level = "unavailable"
        /\ Call(Concluded(Step([off EXCEPT !.belief = clr], pre.step.event), Unheard,
                          BaselineBefore(clr, off.belief, pre.retained)))

Outage(pre) ==
    LET z    == pre.step.zone
        lost == Reconciled([z EXCEPT !.sensor.level = "unavailable", !.sensor.status = "unavailable",
                                     !.sensor.clearedAt = NoTime, !.sensor.correlated = FALSE,
                                     !.departs = NoTime])
    IN  /\ zone.occupied /\ z.sensor.level # "unavailable"
        /\ Call(Concluded(Step([lost EXCEPT !.belief = ApplyUnavailable(@)], pre.step.event),
                          Unheard, lost.belief))

\* _evaluate_retention_loss
RetentionLoss(s, kept) ==
    LET z == s.zone
    IN  IF IsKept(kept) /\ z.policy.held /\ ~RetainedZone(z)
        THEN Then(s, Evaluated(z, [Unheard EXCEPT !.below = CrossedAt(kept, z.at),
                                                  !.asserted = AssertedStay(z)]))
        ELSE s

\* A duplicate level, or a count that changes nothing.
IgnoredCall(pre) == RetentionLoss(pre.step, pre.retained)

Ignored(pre) == zone.occupied /\ Call(IgnoredCall(pre))

(***************************************************************************)
(* Calls about the rest of the house                                       *)
(***************************************************************************)
\* What paths that are dropped leave of the coverage: a zone may be the
\* endpoint of one path and a branch of the other.
CoversKept(z) ==
    {z.cover, "none"} \cup IF z.cover = "endpoint" /\ z.visit # NoTime THEN {"branch"} ELSE {}

\* What a selected positive elsewhere makes of it: the path of this zone may
\* move on, or a new path begins at the origin that waits here.
CoversLeft(z) == CoversKept(z) \cup IF z.pending THEN {"branch"} ELSE {}

\* A path that begins here visits the episode of the source and consumes it.
Recovered(z, cover) ==
    Located(z, cover,
            IF cover = "none" THEN NoTime ELSE IF z.cover = "none" THEN z.source ELSE z.visit,
            z.pending /\ cover = "none")

\* The occupancy record of the zone, if a positive elsewhere resolves it.
Resolved(z, resolves) == IF resolves THEN [z EXCEPT !.belief = Resolve(@)] ELSE z

\* What a call elsewhere does to the lease that targets the zone.  A zone has
\* one lease at a time here.
LeaseChanges == {"kept", "cancelled", "granted"}

LeaseAllowed(z, change) ==
    /\ change = "cancelled" => z.lease # NoTime
    /\ change = "granted" => z.lease = NoTime

Leased(z, change) ==
    [z EXCEPT !.lease = IF change = "granted" THEN z.at + LeaseTime
                        ELSE IF change = "cancelled" \/ @ <= z.at THEN NoTime ELSE @]

Granted(s, change) ==
    LET o == ApplyPrediction(s.zone.policy, s.zone.at, s.zone.lease)
    IN  IF change # "granted" THEN s ELSE Then(s, Step([s.zone EXCEPT !.policy = o.policy], o.event))

\* A call that is not about the zone's sensor ends with the evaluation.
Elsewhere(s, kept, lease) ==
    LET held == ReconcileHold(s.zone)
        z    == Leased(held, lease)
        last == KeptOr(LossOr(s.zone, held, kept), z.belief)
    IN  Granted(Then(s, EvaluatePolicies(z, Unheard, last)), lease)

\* A selected positive elsewhere: it may take the path of this zone along, use
\* up its episode, begin a path here, and account for its occupancy.  The
\* displacement of this zone stays: only the zone it arrives in is restored.
SelectedElsewhere(pre, cover, resolves, lease) ==
    LET z   == pre.step.zone
        now == CoverageChanged(z, Recovered(Resolved(z, resolves), cover))
    IN  /\ zone.occupied /\ cover \in CoversLeft(z) /\ LeaseAllowed(z, lease)
        /\ resolves => Unresolved(z.belief)
        /\ Call(Elsewhere(Step(Reconciled(now), pre.step.event), pre.retained, lease))

\* What an authorized positive elsewhere says of a movement out of the zone.
Movements == {"none", "outward", "qualified"}

Moved(z, movement) ==
    IF movement = "none" \/ z.belief.generation = NoTime THEN z
    ELSE [z EXCEPT !.belief = RegisterOutward(@, z.at + OutwardWindow, movement = "qualified"),
                   !.departs = IF movement = "qualified" THEN z.at + OutwardWindow ELSE @]

\* A positive elsewhere that is not selected: when it is adopted, its path may
\* evict the one of this zone; settled is what the supports are at the end.
OtherElsewhere(pre, cover, movement, resolves, settled) ==
    LET z    == pre.step.zone
        left == CoverageChanged(z, Recovered(z, cover))
        now  == Resolved(Moved(left, movement), resolves)
        s    == Elsewhere(Step(Reconciled(now), pre.step.event), pre.retained, "kept")
    IN  /\ zone.occupied /\ cover \in CoversKept(z)
        /\ movement = "none" \/ z.sensor.status \in {"asserted", "clearing"}
        /\ resolves => Unresolved(z.belief)
        /\ settled => z.belief.generation # NoTime
        /\ Call(Step([s.zone EXCEPT !.settled = settled], s.event))

\* observe_count, accepted and not zero: paths may be dropped.
CountChange(pre, cover) ==
    LET z    == pre.step.zone
        now  == CoverageChanged(z, Recovered(z, cover))
        held == ReconcileHold([now EXCEPT !.occupied = TRUE])
        end  == Leased(held, "kept")
    IN  /\ cover \in CoversKept(z)
        /\ zone.occupied \/ cover = "none"
        /\ Call(Then(Step(end, pre.step.event),
                     EvaluatePolicies(end, Unheard, KeptOr(pre.retained, end.belief))))

\* Everything the house forgets when it is empty.
Emptied(z) ==
    [Located(z, "none", NoTime, FALSE) EXCEPT
        !.occupied = FALSE, !.lease = NoTime, !.departs = NoTime, !.settled = FALSE,
        !.belief = EmptyBaseline(z.at)]

ZeroPolicy(z) ==
    LET o == CountZero(z.policy, z.at) IN Step([z EXCEPT !.policy = o.policy], o.event)

ZeroCount(pre) ==
    LET z   == pre.step.zone
        now == ReconcileHold([CoverageChanged(z, Located(z, "none", NoTime, FALSE)) EXCEPT
                                 !.occupied = FALSE, !.sensor.correlated = FALSE])
    IN  zone.occupied /\ Call(Then(pre.step, ZeroPolicy(Emptied(now))))

\* The sensor of an empty house follows its level.
VacantSensor(s, level, t, correlated) ==
    IF level = s.level THEN s
    ELSE IF level = "unavailable"
    THEN [s EXCEPT !.level = level, !.status = level, !.clearedAt = NoTime, !.correlated = FALSE]
    ELSE IF level = "off"
    THEN IF s.level = "on" THEN [s EXCEPT !.level = level, !.status = "clearing", !.clearedAt = t]
         ELSE [s EXCEPT !.level = level, !.status = IF @ = "unavailable" THEN "baseline" ELSE @]
    ELSE IF ContinuesFlap(s, t)
    THEN [s EXCEPT !.level = level, !.status = "asserted", !.clearedAt = NoTime]
    ELSE Started(s, t, correlated)

\* _observe_empty_house: the sensor is followed, nothing is inferred.
EmptyHouse(t, level, correlated) ==
    LET due == IF ClearDue(zone, t) THEN [zone.sensor EXCEPT !.status = "clear", !.clearedAt = NoTime]
               ELSE zone.sensor
        now == VacantSensor(due, level, t, correlated)
    IN  /\ ~zone.occupied /\ (now.start = due.start \/ t > due.start)
        /\ correlated => Presence /\ due.status = "clear" /\ now.start # due.start
        /\ Call(ZeroPolicy(Emptied([zone EXCEPT !.at = t, !.sensor = now,
                                       !.source = IF now.start # due.start THEN t ELSE @])))

(***************************************************************************)
(* Time and restarts                                                       *)
(***************************************************************************)
\* advance, e being what the deadlines of the zone left
AdvanceFrom(e, t) ==
    EvaluatePolicies(LeaseLasts(Reconciled(At(e.zone, t))), Unheard,
                     KeptOr(e.kept, e.zone.belief))

Advance(z, t) == AdvanceFrom(EpisodeEffects(z, t), t)

Timer(t) == Call(Advance(zone, t))

\* reconcile_startup_snapshot: the level read at startup ends or continues the
\* episode; one that is on without it starts another, which no source records.
StartupContinues(s, level) ==
    \/ level = "on" /\ KnownOn(s)
    \/ level = "off" /\ s.level = "off" /\ s.status \in {"clearing", "clear"}
    \/ level = s.level /\ s.status \in {"baseline", "unavailable"}

StartupSensor(s, level, t) ==
    IF StartupContinues(s, level) THEN s
    ELSE IF level = "on" THEN Started(s, t, FALSE)
    ELSE [s EXCEPT !.level = level, !.clearedAt = NoTime, !.correlated = FALSE,
                   !.status = IF level = "off" THEN "baseline" ELSE "unavailable"]

\* The levels are installed and the episode that goes on, or not, is applied.
StartupRead(z, s, level) ==
    [z EXCEPT !.sensor = s,
              !.belief = IF ~z.occupied THEN @
                         ELSE IF s.start # z.sensor.start
                         THEN ApplyPositive(@, z.at, z.at, PositiveGain)
                         ELSE IF s # z.sensor /\ s.start # NoTime THEN ApplyUnavailable(@)
                         ELSE @,
              !.departs = IF level = z.sensor.level THEN @ ELSE NoTime]

\* What is predicted without its lease ends; an asserted level is selected.
StartupEnd(z) ==
    LET end == ExpireDue(z, z.lease # z.policy.expires).zone
    IN  IF end.occupied /\ KnownOn(end.sensor)
        THEN [end EXCEPT !.belief = Reselect(@, end.sensor.start)] ELSE end

StartupFrom(z, s, level) ==
    /\ s.start = z.sensor.start \/ z.at > z.sensor.start
    /\ zone' = StartupEnd(LeaseLasts(ReconcileHold(Reconciled(StartupRead(z, s, level)))))
    /\ published' = Silent

Startup(z, level) == StartupFrom(z, StartupSensor(z.sensor, level, z.at), level)

\* A restart at time t: elapsed deadlines are replayed in silence.
Restart(t, level) == Startup(IF t > zone.at THEN Advance(zone, t).zone ELSE zone, level)

(***************************************************************************)
(* The specification                                                       *)
(***************************************************************************)
Local(pre) ==
    /\ "local" \in Inputs
    /\ \/ \E reopened \in BOOLEAN : FlapOn(pre, reopened)
       \/ \E correlated, selected, authorized \in BOOLEAN :
             StartOn(pre, correlated, selected, authorized)
       \/ ClearEdge(pre) \/ BaselineOff(pre) \/ Outage(pre)

Remote(pre) ==
    \/ \E cover \in Covers, resolves \in BOOLEAN, lease \in LeaseChanges :
          /\ "path" \in Inputs /\ ("lease" \in Inputs \/ lease = "kept")
          /\ SelectedElsewhere(pre, cover, resolves, lease)
    \/ \E cover \in Covers, movement \in Movements, resolves, settled \in BOOLEAN :
          "movement" \in Inputs /\ OtherElsewhere(pre, cover, movement, resolves, settled)

Counts(pre) ==
    /\ "count" \in Inputs
    /\ ZeroCount(pre) \/ \E cover \in Covers : CountChange(pre, cover)

Next ==
    \E t \in Times :
        \/ LET pre == Pre(zone, t) IN Local(pre) \/ Remote(pre) \/ Counts(pre) \/ Ignored(pre)
        \/ \E level \in Levels, correlated \in BOOLEAN : EmptyHouse(t, level, correlated)
        \/ Timer(t)
        \/ \E level \in Levels : "restart" \in Inputs /\ Restart(t, level)

Spec == Init /\ [][Next]_vars

(***************************************************************************)
(* What must hold                                                          *)
(***************************************************************************)
SensorType ==
    [level : Levels, status : Statuses, start : Nat \cup {NoTime},
     clearedAt : Nat \cup {NoTime}, correlated : BOOLEAN]

\* The shape of the engine's state for one zone.
TypeOK ==
    /\ zone \in [at : Nat, occupied : BOOLEAN, sensor : SensorType, belief : BeliefType,
                policy : PolicyType, cover : Covers, visit : Nat \cup {NoTime},
                pending : BOOLEAN, source : Nat \cup {NoTime},
                departs : Nat \cup {NoTime}, settled : BOOLEAN, lease : Nat \cup {NoTime}]
    /\ published \in Events \cup {Silent}

\* Every state the engine reaches can be saved and loaded again: the checks of
\* __post_init__ and of validate_restore_consistency pass for belief, policy
\* and their relation to the sensor, between any two calls.
Restorable ==
    /\ TypeOK
    /\ BeliefOK(zone.belief) /\ PolicyOK(zone.policy)
    /\ zone.belief.at <= zone.at /\ zone.policy.evaluatedAt <= zone.at
    /\ zone.belief.generation \in {NoTime, zone.sensor.start}
    /\ zone.belief.hold = Witnessed(zone)
    /\ Withdrawn(zone) = zone
    /\ ~zone.occupied => /\ zone.policy.phase = "inactive" /\ zone.belief.generation = NoTime
                         /\ zone.cover = "none" /\ zone.lease = NoTime

\* A light that changes is announced: the evaluations the engine runs without
\* publishing them, when cover or presence is lost in the middle of a call,
\* never end the dwell themselves.
Announced ==
    [][published' # Silent /\ zone.policy.active # zone'.policy.active =>
          published' = IF zone'.policy.active THEN "acquired" ELSE "released"]_vars

\* A predicted zone has a live lease, the one it was lit for.
PredictionLeased ==
    zone.policy.phase = "predicted" => zone.lease = zone.policy.expires /\ zone.lease > zone.at

\* REQ-POLICY-002: presence, selected coverage and unresolved occupancy keep a
\* zone that evidence made active; a correlated stay keeps any covered one.
Shielded(z) ==
    \/ /\ z.policy.provenance = "evidence"
       /\ \/ z.belief.hold \/ z.cover # "none"
          \/ Unresolved(z.belief) /\ z.belief.latest >= z.policy.activatedAt
    \/ AssertedStay(z)

\* The zone is active and nothing but the dwell keeps it so.
Free(z) == z.policy.phase = "active" /\ z.belief.level <= OffLevel /\ ~Shielded(z)

\* A release that is due is never left standing by a call.
NoLateRelease ==
    Free(zone) /\ zone.policy.pending # NoTime =>
        zone.at < PendingSince(zone.policy, zone.belief) + Dwell

\* REQ-POLICY-014: zones that evidence made active and that were displaced.
DisplacedActive == zone.policy.provenance = "evidence" /\ zone.belief.displacedAt # NoTime

\* Looking ahead, past the next clear and a whole dwell.
Ahead == zone.at .. zone.at + StableClear + 2 * Dwell

\* Those of the times at which the next call of the timer leaves the light on.
LeftOn(z, times) == {t \in times : Advance(z, t).zone.policy.active}

After(t1) == {t \in Ahead : t > t1}

\* How far a clear that falls due in the late call may move the dwell.
Slack == IF zone.sensor.status = "clearing" THEN StableClear ELSE 0


=============================================================================
