----------------------------- MODULE ZoneBelief -----------------------------
(***************************************************************************)
(* zone_model/filter.py: the belief that one zone is occupied, as          *)
(* functions from belief records to belief records.                        *)
(*                                                                         *)
(* The probability is an integer level and the exponential decay towards a *)
(* baseline is a linear one: both are monotone and compose over time,      *)
(* which is all the policy relies on.  An episode is its start time.  The  *)
(* health contexts are left out: the engine turns those warnings off.  The *)
(* asserted episode is the generation exactly in the context "asserted".   *)
(***************************************************************************)
EXTENDS Integers

CONSTANTS
    Prior, OffLevel, OnLevel, TopLevel,  \* levels: prior, the two thresholds, the bound
    PositiveGain, CorrelatedGain,        \* what the two kinds of arrival add
    ClearLoss,                           \* what a stable clear takes away
    Baseline, Rate                       \* [Contexts -> level], [Contexts -> levels per unit]

NoTime == -1
Contexts == {"asserted", "cleared_with_outward", "cleared_without_outward", "unavailable"}
Cleared == {"cleared_with_outward", "cleared_without_outward"}
BeliefLevels == 0 .. TopLevel

ASSUME BeliefAssumption ==
    /\ TopLevel \in Nat /\ {Prior, OffLevel, OnLevel} \subseteq BeliefLevels
    /\ Prior <= OffLevel /\ OffLevel < OnLevel
    /\ {PositiveGain, CorrelatedGain, ClearLoss} \subseteq Nat
    /\ Baseline \in [Contexts -> BeliefLevels] /\ Rate \in [Contexts -> Nat \ {0}]

Later(s, t) == IF s >= t THEN s ELSE t
Known(t, default) == IF t = NoTime THEN default ELSE t

InitialBelief(t) ==
    [level |-> Prior, at |-> t, context |-> "cleared_without_outward", generation |-> NoTime,
     outward |-> NoTime, qualified |-> NoTime, departedAt |-> NoTime,
     displacedAt |-> NoTime, hold |-> FALSE, latest |-> NoTime, resolvedAt |-> NoTime]

\* The occupancy record of the zone: its latest observation is not accounted for.
Unresolved(b) == b.latest # NoTime /\ b.resolvedAt = NoTime

\* OccupancyEvidence.retains for the activation of the policy.
Retains(b, activatedAt) == Unresolved(b) /\ activatedAt # NoTime /\ b.latest >= activatedAt

(***************************************************************************)
(* Elapsed time                                                            *)
(***************************************************************************)
\* Protection by presence, then by unresolved occupancy, then displacement.
DecayContext(b) ==
    IF b.hold THEN "asserted"
    ELSE IF Unresolved(b)
    THEN IF b.context = "cleared_with_outward" THEN "cleared_without_outward" ELSE b.context
    ELSE IF b.displacedAt # NoTime THEN "cleared_with_outward"
    ELSE b.context

Towards(level, goal, step) ==
    IF level > goal THEN Later(goal, level - step)
    ELSE IF goal - level <= step THEN goal ELSE level + step

Decays(b) == b.generation # NoTime \/ b.context # "cleared_without_outward"

\* advance: the decay does not depend on the outward context that expires.
AdvanceTo(b, t) ==
    LET context == DecayContext(b)
    IN  [b EXCEPT !.level = IF Decays(b)
                            THEN Towards(@, Baseline[context], Rate[context] * (t - b.at))
                            ELSE @,
                  !.at = t,
                  !.outward = IF @ <= t THEN NoTime ELSE @,
                  !.qualified = IF @ <= t THEN NoTime ELSE @]

\* threshold_crossed_at: when the belief, left alone since b, fell below.
CrossedAt(b, t) ==
    LET low == {s \in b.at .. t : AdvanceTo(b, s).level <= OffLevel}
    IN  IF b.level <= OffLevel THEN b.at
        ELSE IF low = {} THEN NoTime ELSE CHOOSE s \in low : \A r \in low : s <= r

(***************************************************************************)
(* Local evidence of an episode e                                          *)
(***************************************************************************)
\* Mutant: a sum of log-odds is not clipped.
MutBounded(level) == level

Bounded(level) == IF level > TopLevel THEN TopLevel ELSE IF level < 0 THEN 0 ELSE level

\* Mutant: the new generation keeps the displacement time of the old one.
MutAsserted(b, e, gain) ==
    [b EXCEPT !.level = Bounded(@ + gain), !.context = "asserted", !.generation = e,
              !.outward = NoTime, !.qualified = NoTime, !.departedAt = NoTime]

\* A new generation; displacement is inherited, from the start of the episode.
Asserted(b, e, gain) ==
    [b EXCEPT !.level = Bounded(@ + gain), !.context = "asserted", !.generation = e,
              !.outward = NoTime, !.qualified = NoTime, !.departedAt = NoTime,
              !.displacedAt = IF @ # NoTime THEN b.at ELSE NoTime]

\* apply_positive and apply_correlated_positive
ApplyPositive(b, e, t, gain) ==
    IF b.generation = e THEN AdvanceTo(b, t) ELSE Asserted(AdvanceTo(b, t), e, gain)

\* apply_arrival_transition: three in four at least, whatever it was before
ApplyArrival(b) == [b EXCEPT !.level = OnLevel]

ApplyStableClear(b, t) ==
    IF b.context \in Cleared THEN b
    ELSE [b EXCEPT !.level = Bounded(@ - ClearLoss),
                   !.context = IF b.outward # NoTime THEN "cleared_with_outward"
                               ELSE "cleared_without_outward",
                   !.outward = NoTime, !.qualified = NoTime,
                   !.departedAt = IF b.qualified # NoTime THEN t ELSE NoTime]

ApplyUnavailable(b) ==
    IF b.context = "unavailable" /\ b.outward = NoTime THEN b
    ELSE [b EXCEPT !.context = "unavailable", !.outward = NoTime, !.qualified = NoTime,
                   !.departedAt = NoTime]

\* apply_availability_clear: without a generation the prior is reinstalled.
AvailabilityClear(b) ==
    IF b.context # "unavailable" THEN b
    ELSE [b EXCEPT !.level = IF b.generation = NoTime THEN Prior ELSE @,
                   !.context = "cleared_without_outward", !.outward = NoTime,
                   !.qualified = NoTime, !.departedAt = NoTime]

\* reselect_asserted_context: an asserted episode is chosen, no evidence added.
Reselect(b, e) ==
    IF b.context = "asserted" /\ b.generation = e /\ b.outward = NoTime THEN b
    ELSE [b EXCEPT !.context = "asserted", !.generation = e, !.outward = NoTime,
                   !.qualified = NoTime, !.departedAt = NoTime,
                   !.displacedAt = IF @ # NoTime THEN Later(@, e) ELSE NoTime]

EmptyBaseline(t) == InitialBelief(t)

(***************************************************************************)
(* Evidence that the occupant has gone elsewhere                           *)
(***************************************************************************)
\* register_outward, for a context the zone can leave: valid until u.
RegisterOutward(b, u, qualified) ==
    IF b.context = "unavailable" \/ u <= b.at THEN b
    ELSE IF b.context \in Cleared
    THEN [b EXCEPT !.context = "cleared_with_outward", !.outward = NoTime,
                   !.departedAt = IF @ = NoTime /\ qualified THEN b.at ELSE @]
    ELSE [b EXCEPT !.outward = Later(@, u),
                   !.qualified = IF qualified THEN Later(@, u) ELSE @]

SupersedeOutward(b) ==
    IF b.outward = NoTime /\ b.context # "cleared_with_outward" THEN b
    ELSE [b EXCEPT !.context = IF @ = "cleared_with_outward" THEN "cleared_without_outward"
                               ELSE @,
                   !.outward = NoTime, !.qualified = NoTime, !.departedAt = NoTime]

\* displace_path: the first displacement of a generation stays.
Displace(b) ==
    IF b.generation # NoTime /\ b.displacedAt = NoTime
    THEN [b EXCEPT !.displacedAt = b.at] ELSE b

RestorePath(b) == [b EXCEPT !.displacedAt = NoTime]
SetHold(b, held) == [b EXCEPT !.hold = held]
Observe(b) == [b EXCEPT !.latest = b.at, !.resolvedAt = NoTime]
Resolve(b) == [b EXCEPT !.resolvedAt = b.at]

(***************************************************************************)
(* What ZoneBeliefState.__post_init__ and _validate_state accept           *)
(***************************************************************************)
BeliefType ==
    [level : BeliefLevels, at : Nat, context : Contexts, generation : Nat \cup {NoTime},
     outward : Nat \cup {NoTime}, qualified : Nat \cup {NoTime},
     departedAt : Nat \cup {NoTime}, displacedAt : Nat \cup {NoTime},
     hold : BOOLEAN, latest : Nat \cup {NoTime}, resolvedAt : Nat \cup {NoTime}]

EvidenceOK(b) ==
    /\ b.latest # NoTime => b.generation # NoTime /\ b.latest <= b.at
    /\ b.resolvedAt # NoTime => b.latest # NoTime /\ b.latest <= b.resolvedAt
                                /\ b.resolvedAt <= b.at

DepartureOK(b) ==
    b.departedAt # NoTime =>
        /\ b.departedAt <= b.at /\ b.generation # NoTime /\ b.generation <= b.departedAt
        /\ b.context = "cleared_with_outward" /\ b.outward = NoTime

DisplacementOK(b) ==
    b.displacedAt # NoTime =>
        b.generation # NoTime /\ b.generation <= b.displacedAt /\ b.displacedAt <= b.at

ContextOK(b) ==
    /\ b.outward # NoTime =>
          b.generation # NoTime /\ b.outward > b.at /\ b.context = "asserted"
    /\ b.qualified # NoTime => b.outward # NoTime /\ b.qualified > b.at
    /\ b.context \in {"asserted", "cleared_with_outward"} => b.generation # NoTime
    /\ b.generation = NoTime /\ b.context = "cleared_without_outward" => b.level = Prior

BeliefOK(b) == EvidenceOK(b) /\ DepartureOK(b) /\ DisplacementOK(b) /\ ContextOK(b)
=============================================================================
