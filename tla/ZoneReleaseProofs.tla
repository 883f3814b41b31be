-------------------------- MODULE ZoneReleaseProofs --------------------------
(***************************************************************************)
(* The light of a zone after any sequence of engine calls: its state can   *)
(* be restored, its predictions have their leases, its releases are not    *)
(* late, and its changes are announced, for any profile, levels and times. *)
(***************************************************************************)
EXTENDS ZoneRelease, FiniteSetTheorems, WellFoundedInduction, TLAPS

-----------------------------------------------------------------------------
(* What every part of a call keeps. *)

GoodBelief(b) ==
    /\ b \in BeliefType /\ BeliefOK(b) /\ b.generation <= b.at
    /\ b.qualified # NoTime => b.qualified <= b.outward

\* A policy in the middle of its evaluation: held is what the last one left.
FairPolicy(p) ==
    /\ p \in PolicyType /\ PhaseOK(p) /\ ActivationOK(p) /\ PendingOK(p) /\ DedupOK(p)
    /\ IsFiniteSet(p.dedup)
    /\ p.pending # NoTime => p.phase = "active"

GoodPolicy(p) == FairPolicy(p) /\ HeldOK(p)

\* An episode has a start, and a stable clear has the edge it counts from.
GoodSensor(s, at) ==
    /\ s \in SensorType /\ s.start <= at /\ s.clearedAt <= at
    /\ s.level = "on" \/ s.status \in {"asserted", "clearing", "clear"} => s.start # NoTime
    /\ s.status = "clearing" => s.clearedAt # NoTime

ZoneState ==
    [at : Nat, occupied : BOOLEAN, sensor : SensorType, belief : BeliefType,
     policy : PolicyType, cover : Covers, visit : Nat \cup {NoTime},
     pending : BOOLEAN, source : Nat \cup {NoTime},
     departs : Nat \cup {NoTime}, settled : BOOLEAN, lease : Nat \cup {NoTime}]

\* Presence holds the policy that evidence made active: no dwell runs.
HoldsStill(z) == z.belief.hold /\ z.policy.provenance = "evidence" => z.policy.pending = NoTime

Formed(z) ==
    /\ z \in ZoneState
    /\ GoodBelief(z.belief) /\ GoodPolicy(z.policy) /\ GoodSensor(z.sensor, z.at)
    /\ z.belief.at = z.at /\ z.policy.evaluatedAt <= z.at
    /\ z.belief.generation \in {NoTime, z.sensor.start}

Sane(z) == Formed(z) /\ HoldsStill(z)

\* Nothing is inferred in an empty house.
VacantOK(z) ==
    ~z.occupied => /\ z.policy.phase = "inactive" /\ z.belief.generation = NoTime
                   /\ z.cover = "none" /\ z.lease = NoTime

HoldOK(z) == z.belief.hold = Witnessed(z)
ClearAhead(z) == z.sensor.status = "clearing" => z.at < ClearsAt(z)
LeaseOK(z) == z.policy.phase = "predicted" => z.lease = z.policy.expires /\ z.at < z.lease

\* A dwell that is over does not wait, once the belief is low.
NotLate(z) ==
    z.policy.pending # NoTime /\ z.belief.level <= OffLevel =>
        z.at < PendingSince(z.policy, z.belief) + Dwell

\* Between two calls.
Settled(z) ==
    Sane(z) /\ VacantOK(z) /\ HoldOK(z) /\ ClearAhead(z) /\ LeaseOK(z) /\ NotLate(z)

-----------------------------------------------------------------------------
(* Beliefs. *)

LEMMA Constants ==
    /\ NoTime = -1 /\ TopLevel \in Nat /\ BeliefLevels = 0 .. TopLevel
    /\ Prior \in BeliefLevels /\ OnLevel \in BeliefLevels /\ OffLevel \in BeliefLevels
    /\ PositiveGain \in Nat /\ CorrelatedGain \in Nat /\ ClearLoss \in Nat
    /\ Dwell \in Nat /\ Dwell > 0 /\ RefreshRetention \in Nat /\ RefreshRetention > 0
    /\ RefreshLimit \in Nat /\ RefreshLimit > 0
    /\ StableClear \in Nat /\ StableClear > 0 /\ OutwardWindow \in Nat /\ OutwardWindow > 0
    /\ LeaseTime \in Nat /\ LeaseTime > 0 /\ MaxStep \in Nat /\ MaxTime \in Nat
    /\ Stay \in BOOLEAN /\ Presence \in BOOLEAN /\ Seeds \subseteq BOOLEAN
BY BeliefAssumption, PolicyAssumption, ReleaseAssumption DEF NoTime, BeliefLevels

LEMMA BeliefParts ==
    ASSUME NEW b \in BeliefType
    PROVE  /\ b.level \in BeliefLevels /\ b.at \in Nat /\ b.context \in Contexts
           /\ b.generation \in Nat \cup {NoTime} /\ b.outward \in Nat \cup {NoTime}
           /\ b.qualified \in Nat \cup {NoTime} /\ b.departedAt \in Nat \cup {NoTime}
           /\ b.displacedAt \in Nat \cup {NoTime} /\ b.hold \in BOOLEAN
           /\ b.latest \in Nat \cup {NoTime} /\ b.resolvedAt \in Nat \cup {NoTime}
BY DEF BeliefType

LEMMA BoundedLevel ==
    ASSUME NEW n \in Int PROVE Bounded(n) \in BeliefLevels
BY Constants DEF Bounded

LEMMA TowardsLevel ==
    ASSUME NEW n \in BeliefLevels, NEW goal \in BeliefLevels, NEW step \in Nat
    PROVE  Towards(n, goal, step) \in BeliefLevels
BY Constants DEF Towards, Later

\* What a part of a call that is not evidence of a generation leaves alone.
Same(b, c) ==
    /\ c.at = b.at /\ c.hold = b.hold /\ c.generation = b.generation
    /\ c.latest = b.latest /\ c.resolvedAt = b.resolvedAt

LEMMA Advanced ==
    ASSUME NEW b, GoodBelief(b), NEW t \in Nat, b.at <= t
    PROVE  LET c == AdvanceTo(b, t)
           IN  /\ GoodBelief(c) /\ c.at = t /\ c.hold = b.hold /\ c.generation = b.generation
               /\ c.context = b.context /\ c.departedAt = b.departedAt
               /\ c.displacedAt = b.displacedAt
               /\ c.latest = b.latest /\ c.resolvedAt = b.resolvedAt
               /\ t = b.at => c.outward = b.outward /\ c.qualified = b.qualified
<1> DEFINE context == DecayContext(b)
           x == IF Decays(b)
                THEN Towards(b.level, Baseline[context], Rate[context] * (t - b.at))
                ELSE b.level
           o == IF b.outward <= t THEN NoTime ELSE b.outward
           q == IF b.qualified <= t THEN NoTime ELSE b.qualified
           c == [b EXCEPT !.level = x, !.at = t, !.outward = o, !.qualified = q]
<1>1. AdvanceTo(b, t) = c
  BY DEF AdvanceTo
<1>2. b \in BeliefType
  BY DEF GoodBelief
<1>3. x \in BeliefLevels
  <2>1. context \in Contexts
    BY <1>2, BeliefParts DEF DecayContext, Contexts
  <2>2. Baseline[context] \in BeliefLevels /\ Rate[context] \in Nat
    BY <2>1, BeliefAssumption
  <2> DEFINE r == Rate[context]
             e == t - b.at
  <2>3. e \in Nat
    BY <1>2, BeliefParts
  <2>4. r * e \in Nat
    <3> HIDE DEF r, e
    <3>1. \A i, j \in Nat : i * j \in Nat
      OBVIOUS
    <3> QED BY <2>2, <2>3, <3>1 DEF r
  <2>5. Towards(b.level, Baseline[context], r * e) \in BeliefLevels
    <3> HIDE DEF r, e
    <3> QED BY <1>2, <2>2, <2>4, BeliefParts, TowardsLevel
  <2> QED BY <1>2, <2>5, BeliefParts
<1>4. o \in Nat \cup {NoTime} /\ q \in Nat \cup {NoTime}
  BY <1>2, BeliefParts
<1>5. ~Decays(b) => x = b.level
  OBVIOUS
<1> HIDE DEF x
<1>6. /\ (o # NoTime => o = b.outward /\ o > t) /\ (q # NoTime => q = b.qualified /\ q > t)
      /\ (b.outward > t => o = b.outward)
      /\ (t = b.at => o = b.outward /\ q = b.qualified)
  BY <1>2, BeliefParts, Constants DEF GoodBelief, BeliefOK, ContextOK
<1> HIDE DEF o, q
<1>7. /\ c \in BeliefType
      /\ c.level = x /\ c.at = t /\ c.outward = o /\ c.qualified = q
      /\ c.context = b.context /\ c.generation = b.generation /\ c.departedAt = b.departedAt
      /\ c.displacedAt = b.displacedAt /\ c.hold = b.hold /\ c.latest = b.latest
      /\ c.resolvedAt = b.resolvedAt
  BY <1>2, <1>3, <1>4 DEF BeliefType
<1> HIDE DEF c
<1>8. EvidenceOK(c) /\ DepartureOK(c) /\ DisplacementOK(c) /\ c.generation <= c.at
  BY <1>2, <1>6, <1>7, BeliefParts, Constants
     DEF GoodBelief, BeliefOK, EvidenceOK, DepartureOK, DisplacementOK
<1>9. c.qualified # NoTime => c.outward # NoTime /\ c.qualified > c.at /\ c.qualified <= c.outward
  BY <1>2, <1>6, <1>7, BeliefParts, Constants DEF GoodBelief, BeliefOK, ContextOK
<1>10. ContextOK(c)
  BY <1>2, <1>5, <1>6, <1>7, <1>9, BeliefParts DEF GoodBelief, BeliefOK, ContextOK, Decays
<1> QED BY <1>1, <1>6, <1>7, <1>8, <1>9, <1>10 DEF GoodBelief, BeliefOK

\* Evidence of a new generation e, at the time of the belief.
LEMMA Positive ==
    ASSUME NEW b, GoodBelief(b), NEW gain \in Nat
    PROVE  LET c == ApplyPositive(b, b.at, b.at, gain)
           IN  /\ GoodBelief(c) /\ c.at = b.at /\ c.hold = b.hold /\ c.generation = b.at
               /\ c.latest = b.latest /\ c.resolvedAt = b.resolvedAt
<1>1. b \in BeliefType
  BY DEF GoodBelief
<1>2. CASE b.generation = b.at
  BY <1>1, <1>2, Advanced, BeliefParts DEF ApplyPositive
<1>3. CASE b.generation # b.at
  <2> DEFINE d == AdvanceTo(b, b.at)
             e == b.at
             x == Bounded(d.level + gain)
             m == IF d.displacedAt # NoTime THEN d.at ELSE NoTime
             c == [d EXCEPT !.level = x, !.context = "asserted", !.generation = e,
                            !.outward = NoTime, !.qualified = NoTime, !.departedAt = NoTime,
                            !.displacedAt = m]
  <2>1. ApplyPositive(b, b.at, b.at, gain) = c
    BY <1>3 DEF ApplyPositive, Asserted
  <2>2. /\ GoodBelief(d) /\ d.at = e /\ d.hold = b.hold
        /\ d.latest = b.latest /\ d.resolvedAt = b.resolvedAt /\ e \in Nat
    BY <1>1, Advanced, BeliefParts
  <2> HIDE DEF d, e
  <2>3. d \in BeliefType /\ x \in BeliefLevels /\ (m = e \/ m = NoTime)
    <3>1. d \in BeliefType
      BY <2>2 DEF GoodBelief
    <3>2. d.level + gain \in Int
      BY <3>1, BeliefParts, Constants
    <3> QED BY <2>2, <3>1, <3>2, BoundedLevel
  <2> HIDE DEF x, m
  <2>4. /\ c \in BeliefType
        /\ c.at = d.at /\ c.outward = NoTime /\ c.qualified = NoTime
        /\ c.context = "asserted" /\ c.generation = e /\ c.departedAt = NoTime
        /\ c.displacedAt = m /\ c.hold = d.hold /\ c.latest = d.latest
        /\ c.resolvedAt = d.resolvedAt
    BY <2>2, <2>3 DEF BeliefType, Contexts
  <2> HIDE DEF c
  <2>5. EvidenceOK(c)
    BY <2>2, <2>4, Constants DEF GoodBelief, BeliefOK, EvidenceOK
  <2>6. GoodBelief(c)
    BY <2>2, <2>3, <2>4, <2>5, Constants
       DEF GoodBelief, BeliefOK, DepartureOK, DisplacementOK, ContextOK
  <2> QED BY <2>1, <2>2, <2>4, <2>6 DEF e
<1> QED BY <1>2, <1>3

LEMMA Arrival ==
    ASSUME NEW b, GoodBelief(b), b.generation # NoTime
    PROVE  LET c == ApplyArrival(b) IN GoodBelief(c) /\ Same(b, c)
<1> DEFINE c == [b EXCEPT !.level = OnLevel]
<1>1. b \in BeliefType
  BY DEF GoodBelief
<1>2. /\ c \in BeliefType
      /\ c.at = b.at /\ c.outward = b.outward /\ c.qualified = b.qualified
      /\ c.context = b.context /\ c.generation = b.generation /\ c.departedAt = b.departedAt
      /\ c.displacedAt = b.displacedAt /\ c.hold = b.hold /\ c.latest = b.latest
      /\ c.resolvedAt = b.resolvedAt
  BY <1>1, Constants DEF BeliefType
<1> HIDE DEF c
<1>3. GoodBelief(c) /\ Same(b, c)
  BY <1>2 DEF GoodBelief, BeliefOK, EvidenceOK, DepartureOK, DisplacementOK, ContextOK, Same
<1> QED BY <1>3 DEF ApplyArrival, c

LEMMA StablyCleared ==
    ASSUME NEW b, GoodBelief(b), b.generation # NoTime
    PROVE  LET c == ApplyStableClear(b, b.at) IN GoodBelief(c) /\ Same(b, c)
<1>1. b \in BeliefType
  BY DEF GoodBelief
<1>2. CASE b.context \in Cleared
  BY <1>2 DEF ApplyStableClear, Same
<1>3. CASE b.context \notin Cleared
  <2> DEFINE x == Bounded(b.level - ClearLoss)
             k == IF b.outward # NoTime THEN "cleared_with_outward" ELSE "cleared_without_outward"
             d == IF b.qualified # NoTime THEN b.at ELSE NoTime
             c == [b EXCEPT !.level = x, !.context = k, !.outward = NoTime,
                            !.qualified = NoTime, !.departedAt = d]
  <2>1. ApplyStableClear(b, b.at) = c
    BY <1>3 DEF ApplyStableClear
  <2>2. x \in BeliefLevels
    <3>1. b.level \in Int /\ ClearLoss \in Int
      BY <1>1, BeliefParts, Constants
    <3>2. b.level - ClearLoss \in Int
      BY <3>1
    <3> QED BY <3>2, BoundedLevel
  <2>3. /\ k \in Contexts /\ k # "asserted" /\ d \in Nat \cup {NoTime}
        /\ d # NoTime => d = b.at /\ k = "cleared_with_outward"
    BY <1>1, BeliefParts DEF GoodBelief, BeliefOK, ContextOK, Contexts
  <2> HIDE DEF x, k, d
  <2>4. /\ c \in BeliefType
        /\ c.at = b.at /\ c.outward = NoTime /\ c.qualified = NoTime
        /\ c.context = k /\ c.generation = b.generation /\ c.departedAt = d
        /\ c.displacedAt = b.displacedAt /\ c.hold = b.hold /\ c.latest = b.latest
        /\ c.resolvedAt = b.resolvedAt
    BY <1>1, <2>2, <2>3 DEF BeliefType
  <2> HIDE DEF c
  <2>5. GoodBelief(c) /\ Same(b, c)
    BY <1>1, <2>3, <2>4, BeliefParts
       DEF GoodBelief, BeliefOK, EvidenceOK, DepartureOK, DisplacementOK, ContextOK, Same
  <2> QED BY <2>1, <2>5
<1> QED BY <1>2, <1>3

LEMMA Unavailable ==
    ASSUME NEW b, GoodBelief(b)
    PROVE  LET c == ApplyUnavailable(b)
           IN  /\ GoodBelief(c) /\ Same(b, c)
               /\ c.level = b.level /\ c.displacedAt = b.displacedAt
<1> DEFINE c == [b EXCEPT !.context = "unavailable", !.outward = NoTime, !.qualified = NoTime,
                          !.departedAt = NoTime]
<1>1. b \in BeliefType
  BY DEF GoodBelief
<1>2. /\ c \in BeliefType
      /\ c.level = b.level /\ c.at = b.at /\ c.outward = NoTime /\ c.qualified = NoTime
      /\ c.context = "unavailable" /\ c.generation = b.generation /\ c.departedAt = NoTime
      /\ c.displacedAt = b.displacedAt /\ c.hold = b.hold /\ c.latest = b.latest
      /\ c.resolvedAt = b.resolvedAt
  BY <1>1 DEF BeliefType, Contexts
<1> HIDE DEF c
<1>3. GoodBelief(c) /\ Same(b, c)
  BY <1>2 DEF GoodBelief, BeliefOK, EvidenceOK, DepartureOK, DisplacementOK, ContextOK, Same
<1>4. ApplyUnavailable(b) \in {b, c}
  BY DEF ApplyUnavailable, c
<1> QED BY <1>2, <1>3, <1>4 DEF Same

LEMMA AvailableAgain ==
    ASSUME NEW b, GoodBelief(b)
    PROVE  LET c == AvailabilityClear(b) IN GoodBelief(c) /\ Same(b, c)
<1> DEFINE x == IF b.generation = NoTime THEN Prior ELSE b.level
           c == [b EXCEPT !.level = x, !.context = "cleared_without_outward",
                          !.outward = NoTime, !.qualified = NoTime, !.departedAt = NoTime]
<1>1. b \in BeliefType
  BY DEF GoodBelief
<1>2. x \in BeliefLevels /\ (b.generation = NoTime => x = Prior)
  BY <1>1, BeliefParts, Constants
<1>3. AvailabilityClear(b) \in {b, c}
  BY DEF AvailabilityClear
<1> HIDE DEF x
<1>4. /\ c \in BeliefType
      /\ c.level = x /\ c.at = b.at /\ c.outward = NoTime /\ c.qualified = NoTime
      /\ c.context = "cleared_without_outward" /\ c.generation = b.generation
      /\ c.departedAt = NoTime
      /\ c.displacedAt = b.displacedAt /\ c.hold = b.hold /\ c.latest = b.latest
      /\ c.resolvedAt = b.resolvedAt
  BY <1>1, <1>2 DEF BeliefType, Contexts
<1> HIDE DEF c
<1>5. GoodBelief(c) /\ Same(b, c)
  BY <1>2, <1>4 DEF GoodBelief, BeliefOK, EvidenceOK, DepartureOK, DisplacementOK, ContextOK, Same
<1> QED BY <1>3, <1>5 DEF Same

LEMMA Reselected ==
    ASSUME NEW b, GoodBelief(b), NEW e \in Nat, e <= b.at
    PROVE  LET c == Reselect(b, e)
           IN  /\ GoodBelief(c) /\ c.at = b.at /\ c.hold = b.hold /\ c.generation = e
               /\ c.latest = b.latest /\ c.resolvedAt = b.resolvedAt /\ c.level = b.level
               /\ (c.displacedAt = NoTime <=> b.displacedAt = NoTime)
               /\ b.displacedAt <= c.displacedAt
<1> DEFINE m == IF b.displacedAt # NoTime THEN Later(b.displacedAt, e) ELSE NoTime
           c == [b EXCEPT !.context = "asserted", !.generation = e, !.outward = NoTime,
                          !.qualified = NoTime, !.departedAt = NoTime, !.displacedAt = m]
<1>1. b \in BeliefType
  BY DEF GoodBelief
<1>2. /\ m \in Nat \cup {NoTime} /\ (m = NoTime <=> b.displacedAt = NoTime)
      /\ m # NoTime => e <= m /\ m <= b.at
      /\ b.displacedAt <= m
  BY <1>1, BeliefParts, Constants DEF GoodBelief, BeliefOK, DisplacementOK, Later
<1>3. CASE b.context = "asserted" /\ b.generation = e /\ b.outward = NoTime
  <2>1. Reselect(b, e) = b
    BY <1>3 DEF Reselect
  <2>2. b.displacedAt <= b.displacedAt
    <3>1. b.displacedAt \in Int
      BY <1>1, BeliefParts DEF NoTime
    <3> QED BY <3>1
  <2> QED BY <1>3, <2>1, <2>2
<1>4. CASE ~(b.context = "asserted" /\ b.generation = e /\ b.outward = NoTime)
  <2>1. Reselect(b, e) = c
    BY <1>4 DEF Reselect
  <2> HIDE DEF m
  <2>2. /\ c \in BeliefType
        /\ c.level = b.level /\ c.at = b.at /\ c.outward = NoTime /\ c.qualified = NoTime
        /\ c.context = "asserted" /\ c.generation = e /\ c.departedAt = NoTime
        /\ c.displacedAt = m /\ c.hold = b.hold /\ c.latest = b.latest
        /\ c.resolvedAt = b.resolvedAt
    BY <1>1, <1>2 DEF BeliefType, Contexts
  <2> HIDE DEF c
  <2>3. GoodBelief(c)
    BY <1>2, <2>2, Constants
       DEF GoodBelief, BeliefOK, EvidenceOK, DepartureOK, DisplacementOK, ContextOK
  <2> QED BY <1>2, <2>1, <2>2, <2>3
<1> QED BY <1>3, <1>4

LEMMA Initially ==
    ASSUME NEW t \in Nat
    PROVE  LET c == InitialBelief(t)
           IN  /\ GoodBelief(c) /\ c.at = t /\ c.hold = FALSE /\ c.generation = NoTime
               /\ c.level = Prior
<1> DEFINE c == InitialBelief(t)
<1>1. /\ c \in BeliefType
      /\ c.level = Prior /\ c.at = t /\ c.outward = NoTime /\ c.qualified = NoTime
      /\ c.context = "cleared_without_outward" /\ c.generation = NoTime
      /\ c.departedAt = NoTime /\ c.displacedAt = NoTime /\ c.hold = FALSE
      /\ c.latest = NoTime /\ c.resolvedAt = NoTime
  BY Constants DEF InitialBelief, BeliefType, Contexts
<1> HIDE DEF c
<1>2. GoodBelief(c)
  BY <1>1, Constants
     DEF GoodBelief, BeliefOK, EvidenceOK, DepartureOK, DisplacementOK, ContextOK
<1> QED BY <1>1, <1>2 DEF c

LEMMA OutwardRegistered ==
    ASSUME NEW b, GoodBelief(b), b.generation # NoTime, NEW u \in Nat, NEW qualified \in BOOLEAN
    PROVE  LET c == RegisterOutward(b, u, qualified) IN GoodBelief(c) /\ Same(b, c)
<1>1. b \in BeliefType
  BY DEF GoodBelief
<1>2. CASE b.context = "unavailable" \/ u <= b.at
  BY <1>2 DEF RegisterOutward, Same
<1>3. CASE ~(b.context = "unavailable" \/ u <= b.at) /\ b.context \in Cleared
  <2> DEFINE d == IF b.departedAt = NoTime /\ qualified THEN b.at ELSE b.departedAt
             c == [b EXCEPT !.context = "cleared_with_outward", !.outward = NoTime,
                            !.departedAt = d]
  <2>1. RegisterOutward(b, u, qualified) = c
    BY <1>3 DEF RegisterOutward
  <2>2. d \in Nat \cup {NoTime} /\ (d # b.departedAt => d = b.at)
    BY <1>1, BeliefParts
  <2>3. b.outward = NoTime /\ b.qualified = NoTime
    BY <1>3 DEF GoodBelief, BeliefOK, ContextOK, Cleared
  <2> HIDE DEF d
  <2>4. /\ c \in BeliefType
        /\ c.level = b.level /\ c.at = b.at /\ c.outward = NoTime /\ c.qualified = b.qualified
        /\ c.context = "cleared_with_outward" /\ c.generation = b.generation
        /\ c.departedAt = d
        /\ c.displacedAt = b.displacedAt /\ c.hold = b.hold /\ c.latest = b.latest
        /\ c.resolvedAt = b.resolvedAt
    BY <1>1, <2>2 DEF BeliefType, Contexts
  <2> HIDE DEF c
  <2>5. DepartureOK(c)
    BY <1>1, <2>2, <2>4, BeliefParts DEF GoodBelief, BeliefOK, DepartureOK
  <2>6. GoodBelief(c) /\ Same(b, c)
    BY <2>3, <2>4, <2>5 DEF GoodBelief, BeliefOK, EvidenceOK, DisplacementOK, ContextOK, Same
  <2> QED BY <2>1, <2>6
<1>4. CASE ~(b.context = "unavailable" \/ u <= b.at) /\ b.context \notin Cleared
  <2> DEFINE o == Later(b.outward, u)
             q == IF qualified THEN Later(b.qualified, u) ELSE b.qualified
             c == [b EXCEPT !.outward = o, !.qualified = q]
  <2>1. RegisterOutward(b, u, qualified) = c
    BY <1>4 DEF RegisterOutward
  <2>2. b.context = "asserted"
    BY <1>1, <1>4, BeliefParts DEF Contexts, Cleared
  <2>3. /\ o \in Nat /\ o > b.at /\ q \in Nat \cup {NoTime} /\ o # NoTime
        /\ q # NoTime => q > b.at /\ q <= o
    <3>1. /\ b.outward \in Nat \cup {NoTime} /\ b.qualified \in Nat \cup {NoTime} /\ b.at \in Nat
          /\ u > b.at
          /\ b.qualified # NoTime => b.qualified > b.at /\ b.qualified <= b.outward
      BY <1>1, <1>4, BeliefParts DEF GoodBelief, BeliefOK, ContextOK
    <3> DEFINE bo == b.outward
               bq == b.qualified
               ba == b.at
    <3>2. /\ o = (IF bo >= u THEN bo ELSE u)
          /\ q = (IF qualified THEN IF bq >= u THEN bq ELSE u ELSE bq)
      BY DEF Later
    <3> HIDE DEF o, q, bo, bq, ba
    <3>3. /\ bo \in Nat \cup {NoTime} /\ bq \in Nat \cup {NoTime} /\ ba \in Nat /\ u > ba
          /\ bq # NoTime => bq > ba /\ bq <= bo
      BY <3>1 DEF bo, bq, ba
    <3>4. /\ o \in Nat /\ o > ba /\ q \in Nat \cup {NoTime} /\ o # NoTime
          /\ q # NoTime => q > ba /\ q <= o
      BY <3>2, <3>3, Constants
    <3> QED BY <3>4 DEF ba
  <2>4. b.departedAt = NoTime
    BY <2>2 DEF GoodBelief, BeliefOK, DepartureOK
  <2> HIDE DEF o, q
  <2>5. /\ c \in BeliefType
        /\ c.level = b.level /\ c.at = b.at /\ c.outward = o /\ c.qualified = q
        /\ c.context = b.context /\ c.generation = b.generation
        /\ c.departedAt = b.departedAt
        /\ c.displacedAt = b.displacedAt /\ c.hold = b.hold /\ c.latest = b.latest
        /\ c.resolvedAt = b.resolvedAt
    BY <1>1, <2>3 DEF BeliefType
  <2> HIDE DEF c
  <2>6. GoodBelief(c) /\ Same(b, c)
    BY <2>2, <2>3, <2>4, <2>5
       DEF GoodBelief, BeliefOK, EvidenceOK, DepartureOK, DisplacementOK, ContextOK, Same
  <2> QED BY <2>1, <2>6
<1> QED BY <1>2, <1>3, <1>4

LEMMA OutwardSuperseded ==
    ASSUME NEW b, GoodBelief(b)
    PROVE  LET c == SupersedeOutward(b) IN GoodBelief(c) /\ Same(b, c)
<1> DEFINE k == IF b.context = "cleared_with_outward" THEN "cleared_without_outward" ELSE b.context
           c == [b EXCEPT !.context = k, !.outward = NoTime, !.qualified = NoTime,
                          !.departedAt = NoTime]
<1>1. b \in BeliefType
  BY DEF GoodBelief
<1>2. SupersedeOutward(b) \in {b, c}
  BY DEF SupersedeOutward
<1>3. /\ k \in Contexts /\ k # "cleared_with_outward"
      /\ k # b.context => b.generation # NoTime /\ k = "cleared_without_outward"
  BY <1>1, BeliefParts DEF GoodBelief, BeliefOK, ContextOK, Contexts
<1> HIDE DEF k
<1>4. /\ c \in BeliefType
      /\ c.level = b.level /\ c.at = b.at /\ c.outward = NoTime /\ c.qualified = NoTime
      /\ c.context = k /\ c.generation = b.generation /\ c.departedAt = NoTime
      /\ c.displacedAt = b.displacedAt /\ c.hold = b.hold /\ c.latest = b.latest
      /\ c.resolvedAt = b.resolvedAt
  BY <1>1, <1>3 DEF BeliefType
<1> HIDE DEF c
<1>5. GoodBelief(c) /\ Same(b, c)
  BY <1>3, <1>4 DEF GoodBelief, BeliefOK, EvidenceOK, DepartureOK, DisplacementOK, ContextOK, Same
<1> QED BY <1>2, <1>5 DEF Same

\* The displacement of a generation, taken back or made.
LEMMA DisplacementSet ==
    ASSUME NEW b, GoodBelief(b), NEW m \in {b.at, NoTime}, m = b.at => b.generation # NoTime
    PROVE  LET c == [b EXCEPT !.displacedAt = m]
           IN  GoodBelief(c) /\ Same(b, c) /\ c.level = b.level /\ c.displacedAt = m
               /\ c.departedAt = b.departedAt
<1> DEFINE c == [b EXCEPT !.displacedAt = m]
<1>1. b \in BeliefType
  BY DEF GoodBelief
<1>2. m \in Nat \cup {NoTime}
  BY <1>1, BeliefParts
<1>3. /\ c \in BeliefType
      /\ c.level = b.level /\ c.at = b.at /\ c.outward = b.outward /\ c.qualified = b.qualified
      /\ c.context = b.context /\ c.generation = b.generation /\ c.departedAt = b.departedAt
      /\ c.displacedAt = m /\ c.hold = b.hold /\ c.latest = b.latest
      /\ c.resolvedAt = b.resolvedAt
  BY <1>1, <1>2 DEF BeliefType
<1> HIDE DEF c
<1>4. DisplacementOK(c)
  BY <1>1, <1>3, BeliefParts DEF GoodBelief, DisplacementOK
<1>5. GoodBelief(c) /\ Same(b, c)
  BY <1>3, <1>4 DEF GoodBelief, BeliefOK, EvidenceOK, DepartureOK, ContextOK, Same
<1> QED BY <1>3, <1>5 DEF c

LEMMA Displaced ==
    ASSUME NEW b, GoodBelief(b)
    PROVE  LET c == Displace(b)
           IN  /\ GoodBelief(c) /\ Same(b, c) /\ c.level = b.level
               /\ b.displacedAt <= c.displacedAt /\ c.departedAt = b.departedAt
<1>1. b.at \in Nat /\ b.displacedAt \in Nat \cup {NoTime}
  BY BeliefParts DEF GoodBelief
<1>2. CASE b.generation # NoTime /\ b.displacedAt = NoTime
  <2>1. Displace(b) = [b EXCEPT !.displacedAt = b.at]
    BY <1>2 DEF Displace
  <2>2. b.displacedAt <= b.at
    BY <1>1, <1>2, Constants
  <2> QED BY <1>2, <2>1, <2>2, DisplacementSet
<1>3. CASE ~(b.generation # NoTime /\ b.displacedAt = NoTime)
  BY <1>1, <1>3, Constants DEF Displace, Same
<1> QED BY <1>2, <1>3

LEMMA PathRestored ==
    ASSUME NEW b, GoodBelief(b)
    PROVE  LET c == RestorePath(b) IN GoodBelief(c) /\ Same(b, c)
<1>1. NoTime # b.at
  BY BeliefParts, Constants DEF GoodBelief
<1> QED BY <1>1, DisplacementSet DEF RestorePath

LEMMA HoldSet ==
    ASSUME NEW b, GoodBelief(b), NEW held \in BOOLEAN
    PROVE  LET c == SetHold(b, held)
           IN  /\ GoodBelief(c) /\ c.at = b.at /\ c.hold = held /\ c.generation = b.generation
               /\ c.latest = b.latest /\ c.resolvedAt = b.resolvedAt /\ c.level = b.level
               /\ c.displacedAt = b.displacedAt /\ c.departedAt = b.departedAt
<1> DEFINE c == [b EXCEPT !.hold = held]
<1>1. b \in BeliefType
  BY DEF GoodBelief
<1>2. /\ c \in BeliefType
      /\ c.level = b.level /\ c.at = b.at /\ c.outward = b.outward /\ c.qualified = b.qualified
      /\ c.context = b.context /\ c.generation = b.generation /\ c.departedAt = b.departedAt
      /\ c.displacedAt = b.displacedAt /\ c.hold = held /\ c.latest = b.latest
      /\ c.resolvedAt = b.resolvedAt
  BY <1>1 DEF BeliefType
<1> HIDE DEF c
<1>3. GoodBelief(c)
  BY <1>2 DEF GoodBelief, BeliefOK, EvidenceOK, DepartureOK, DisplacementOK, ContextOK
<1> QED BY <1>2, <1>3 DEF SetHold, c

\* The occupancy record, for a zone that has had a generation.
Recorded(b, l, r) == [b EXCEPT !.latest = l, !.resolvedAt = r]

LEMMA RecordSet ==
    ASSUME NEW b, GoodBelief(b), NEW l \in Nat \cup {NoTime}, NEW r \in Nat \cup {NoTime},
           \/ l = b.at /\ r = NoTime /\ b.generation # NoTime
           \/ l = b.latest /\ r = b.at /\ b.latest # NoTime
    PROVE  LET c == Recorded(b, l, r)
           IN  GoodBelief(c) /\ c.at = b.at /\ c.hold = b.hold /\ c.generation = b.generation
<1> DEFINE c == [b EXCEPT !.latest = l, !.resolvedAt = r]
<1>1. b \in BeliefType
  BY DEF GoodBelief
<1>2. /\ c \in BeliefType
      /\ c.level = b.level /\ c.at = b.at /\ c.outward = b.outward /\ c.qualified = b.qualified
      /\ c.context = b.context /\ c.generation = b.generation /\ c.departedAt = b.departedAt
      /\ c.displacedAt = b.displacedAt /\ c.hold = b.hold /\ c.latest = l
      /\ c.resolvedAt = r
  BY <1>1 DEF BeliefType
<1> HIDE DEF c
<1>3. EvidenceOK(c)
  BY <1>1, <1>2, BeliefParts, Constants DEF GoodBelief, BeliefOK, EvidenceOK
<1>4. GoodBelief(c)
  BY <1>2, <1>3 DEF GoodBelief, BeliefOK, DepartureOK, DisplacementOK, ContextOK
<1> QED BY <1>2, <1>4 DEF Recorded, c

LEMMA Observed ==
    ASSUME NEW b, GoodBelief(b), b.generation # NoTime, NEW authorized
    PROVE  LET c == Witness(b, authorized)
           IN  GoodBelief(c) /\ c.at = b.at /\ c.hold = b.hold /\ c.generation = b.generation
<1>1. b.at \in Nat
  BY BeliefParts DEF GoodBelief
<1>2. Witness(b, authorized) \in {b, Recorded(b, b.at, NoTime)}
  BY DEF Witness, Observe, Recorded
<1>3. LET c == Recorded(b, b.at, NoTime)
      IN  GoodBelief(c) /\ c.at = b.at /\ c.hold = b.hold /\ c.generation = b.generation
  BY <1>1, RecordSet
<1> QED BY <1>2, <1>3

LEMMA ResolvedIs ==
    ASSUME NEW b, GoodBelief(b), Unresolved(b)
    PROVE  LET c == Resolve(b)
           IN  /\ GoodBelief(c) /\ c.at = b.at /\ c.hold = b.hold /\ c.generation = b.generation
               /\ c.latest = b.latest
<1>1. b \in BeliefType /\ b.at \in Nat /\ b.latest \in Nat \cup {NoTime} /\ b.latest # NoTime
  BY BeliefParts DEF GoodBelief, Unresolved
<1>2. Resolve(b) = Recorded(b, b.latest, b.at)
  BY <1>1 DEF Resolve, Recorded, BeliefType
<1>3. Recorded(b, b.latest, b.at).latest = b.latest
  BY <1>1 DEF Recorded, BeliefType
<1> QED BY <1>1, <1>2, <1>3, RecordSet

-----------------------------------------------------------------------------
(* Policies. *)

LEMMA Earliest ==
    ASSUME NEW T \in SUBSET Nat, T # {} PROVE \E n \in T : \A k \in T : n <= k
<1>1. PICK n \in T : \A k \in T : ~(<<k, n>> \in OpToRel(<, Nat))
  BY WFMin, NatLessThanWellFounded
<1>2. ASSUME NEW k \in T PROVE n <= k
  <2>1. k \in Nat /\ n \in Nat
    OBVIOUS
  <2>2. <<k, n>> \in OpToRel(<, Nat) <=> k < n
    BY <2>1 DEF OpToRel
  <2>3. ~(k < n)
    BY <1>1, <2>2
  <2> QED BY <2>1, <2>3
<1> QED BY <1>2

\* A belief crosses the threshold no earlier than itself and no later than now.
LEMMA Crossing ==
    ASSUME NEW b, GoodBelief(b), NEW t \in Nat, b.at <= t
    PROVE  CrossedAt(b, t) \in Nat \cup {NoTime} /\ CrossedAt(b, t) <= t
<1> DEFINE low == {s \in b.at .. t : AdvanceTo(b, s).level <= OffLevel}
<1>1. b.at \in Nat
  BY BeliefParts DEF GoodBelief
<1>2. low \in SUBSET Nat /\ \A s \in low : s <= t
  BY <1>1
<1>3. CrossedAt(b, t) \in {b.at, NoTime} \/ CrossedAt(b, t) \in low
  <2>1. CASE b.level <= OffLevel \/ low = {}
    BY <2>1 DEF CrossedAt
  <2>2. CASE ~(b.level <= OffLevel \/ low = {})
    <3>1. CrossedAt(b, t) = CHOOSE s \in low : \A r \in low : s <= r
      BY <2>2 DEF CrossedAt
    <3> HIDE DEF low
    <3>2. \E s \in low : \A r \in low : s <= r
      BY <1>2, <2>2, Earliest
    <3> QED BY <3>1, <3>2
  <2> QED BY <2>1, <2>2
<1> HIDE DEF low
<1> DEFINE x == CrossedAt(b, t)
<1>4. CASE x = b.at
  BY <1>1, <1>4
<1>5. CASE x = NoTime
  BY <1>5, Constants
<1>6. CASE x \in low
  BY <1>2, <1>6
<1> QED BY <1>3, <1>4, <1>5, <1>6

LEMMA PolicyParts ==
    ASSUME NEW p \in PolicyType
    PROVE  /\ p.active \in BOOLEAN /\ p.phase \in Phases /\ p.provenance \in Provenances
           /\ p.pending \in Nat \cup {NoTime} /\ p.expires \in Nat \cup {NoTime}
           /\ p.activatedAt \in Nat \cup {NoTime} /\ p.held \in BOOLEAN
           /\ p.dedup \in SUBSET Nat /\ p.evaluatedAt \in Nat
BY DEF PolicyType

\* The episodes remembered at time t.
GoodDedup(D, t) ==
    /\ D \subseteq Nat /\ IsFiniteSet(D) /\ Cardinality(D) <= RefreshLimit
    /\ \A e \in D : e <= t /\ e + RefreshRetention > t

LEMMA FewerEpisodes ==
    ASSUME NEW D, NEW t, GoodDedup(D, t), NEW E \in SUBSET D, NEW u,
           \A e \in E : e <= u /\ e + RefreshRetention > u
    PROVE  GoodDedup(E, u)
<1>1. /\ IsFiniteSet(E) /\ Cardinality(E) <= Cardinality(D)
      /\ Cardinality(E) \in Nat /\ Cardinality(D) \in Nat /\ Cardinality(D) <= RefreshLimit
  BY FS_Subset, FS_CardinalityType DEF GoodDedup
<1>2. Cardinality(E) <= RefreshLimit
  BY <1>1, Constants
<1> QED BY <1>1, <1>2 DEF GoodDedup

LEMMA PrunedGood ==
    ASSUME NEW p, FairPolicy(p), NEW t \in Nat, p.evaluatedAt <= t
    PROVE  GoodDedup(Pruned(p, t), t)
<1>1. GoodDedup(p.dedup, p.evaluatedAt)
  BY PolicyParts DEF FairPolicy, DedupOK, GoodDedup
<1>2. Pruned(p, t) \in SUBSET p.dedup
  BY DEF Pruned
<1>3. \A e \in Pruned(p, t) : e <= t /\ e + RefreshRetention > t
  <2>1. \A e \in p.dedup : e \in Nat /\ e <= p.evaluatedAt
    BY <1>1 DEF GoodDedup
  <2>2. p.evaluatedAt \in Nat
    BY PolicyParts DEF FairPolicy
  <2> QED BY <1>2, <2>1, <2>2 DEF Pruned
<1> HIDE DEF Pruned
<1> QED BY <1>1, <1>2, <1>3, FewerEpisodes

\* One more episode: the oldest makes room for it.
LEMMA RememberedGood ==
    ASSUME NEW t \in Nat, NEW D, GoodDedup(D, t)
    PROVE  GoodDedup(Remembered(D, t), t)
<1> DEFINE all == D \cup {t}
           K == Remembered(D, t)
<1>1. all \in SUBSET Nat /\ IsFiniteSet(all) /\ K \in SUBSET all
  <2>1. IsFiniteSet(all)
    BY FS_AddElement DEF GoodDedup
  <2> QED BY <2>1 DEF GoodDedup, Remembered
<1>2. IsFiniteSet(K) /\ Cardinality(K) \in Nat
  BY <1>1, FS_Subset, FS_CardinalityType
<1>3. Cardinality(K) <= RefreshLimit
  <2> SUFFICES ASSUME ~(Cardinality(K) <= RefreshLimit) PROVE FALSE
    OBVIOUS
  <2>1. K # {}
    BY <1>2, FS_EmptySet, Constants
  <2>2. K \in SUBSET Nat
    BY <1>1
  <2> HIDE DEF K
  <2>3. PICK m \in K : \A k \in K : m <= k
    BY <2>1, <2>2, Earliest
  <2> DEFINE H == {g \in all : g > m}
             R == K \ {m}
  <2>4. Cardinality(H) < RefreshLimit
    BY <2>3 DEF K, Remembered
  <2>5. R \subseteq H
    <3> SUFFICES ASSUME NEW k \in K, k # m PROVE k \in all /\ k > m
      OBVIOUS
    <3>1. m <= k /\ m \in Nat /\ k \in Nat
      BY <2>2, <2>3
    <3> QED BY <1>1, <3>1
  <2>6. IsFiniteSet(H) /\ Cardinality(H) \in Nat
    <3>1. H \in SUBSET all
      OBVIOUS
    <3> HIDE DEF H, all
    <3> QED BY <1>1, <3>1, FS_Subset, FS_CardinalityType
  <2> HIDE DEF H
  <2>7. Cardinality(R) <= Cardinality(H)
    BY <2>5, <2>6, FS_Subset
  <2>8. Cardinality(R) = Cardinality(K) - 1
    BY <1>2, <2>3, FS_RemoveElement
  <2> QED BY <1>2, <2>4, <2>6, <2>7, <2>8, Constants
<1>4. \A e \in all : e <= t /\ e + RefreshRetention > t
  BY Constants DEF GoodDedup
<1> HIDE DEF K
<1> QED BY <1>1, <1>2, <1>3, <1>4 DEF GoodDedup, K

LEMMA OffGood ==
    ASSUME NEW p, FairPolicy(p), NEW t \in Nat, p.evaluatedAt <= t
    PROVE  LET q == Off(p, t)
           IN  /\ GoodPolicy(q) /\ q.evaluatedAt = t /\ q.active = FALSE /\ q.phase = "inactive"
               /\ q.provenance = "none" /\ q.pending = NoTime
<1> DEFINE D == Pruned(p, t)
           q == Off(p, t)
<1>1. GoodDedup(D, t)
  BY PrunedGood
<1>2. q = [active |-> FALSE, phase |-> "inactive", provenance |-> "none", pending |-> NoTime,
           expires |-> NoTime, activatedAt |-> NoTime, held |-> FALSE,
           dedup |-> D, evaluatedAt |-> t]
  BY DEF Off
<1> HIDE DEF D, q
<1>3. /\ q \in PolicyType
      /\ q.active = FALSE /\ q.phase = "inactive" /\ q.provenance = "none" /\ q.pending = NoTime
      /\ q.expires = NoTime /\ q.activatedAt = NoTime /\ q.held = FALSE /\ q.dedup = D
      /\ q.evaluatedAt = t
  BY <1>1, <1>2 DEF PolicyType, Phases, Provenances, GoodDedup
<1>4. PhaseOK(q)
  BY <1>3 DEF PhaseOK
<1>5. ActivationOK(q) /\ PendingOK(q) /\ HeldOK(q)
  BY <1>3, Constants DEF ActivationOK, PendingOK, HeldOK
<1>6. DedupOK(q) /\ IsFiniteSet(q.dedup)
  BY <1>1, <1>3 DEF DedupOK, GoodDedup
<1> QED BY <1>3, <1>4, <1>5, <1>6 DEF q, GoodPolicy, FairPolicy

\* The policy as an evaluation at time t finds it.
Ready(p, t) == [p EXCEPT !.dedup = Pruned(p, t), !.evaluatedAt = t]

LEMMA ReadyFair ==
    ASSUME NEW p, FairPolicy(p), NEW t \in Nat, p.evaluatedAt <= t,
           p.phase = "predicted" => p.expires > t
    PROVE  LET q == Ready(p, t)
           IN  /\ FairPolicy(q) /\ q.evaluatedAt = t /\ q.active = p.active /\ q.phase = p.phase
               /\ q.provenance = p.provenance /\ q.pending = p.pending /\ q.expires = p.expires
               /\ q.activatedAt = p.activatedAt /\ q.held = p.held
<1> DEFINE D == Pruned(p, t)
           q == [p EXCEPT !.dedup = D, !.evaluatedAt = t]
<1>1. GoodDedup(D, t)
  BY PrunedGood
<1>2. p \in PolicyType
  BY DEF FairPolicy
<1> HIDE DEF D
<1>3. /\ q \in PolicyType
      /\ q.active = p.active /\ q.phase = p.phase /\ q.provenance = p.provenance
      /\ q.pending = p.pending /\ q.expires = p.expires /\ q.activatedAt = p.activatedAt
      /\ q.held = p.held /\ q.dedup = D /\ q.evaluatedAt = t
  BY <1>1, <1>2 DEF PolicyType, GoodDedup
<1> HIDE DEF q
<1>4. PhaseOK(q)
  BY <1>3 DEF FairPolicy, PhaseOK
<1>5. ActivationOK(q) /\ PendingOK(q)
  <2>1. p.activatedAt <= t /\ (p.pending # NoTime => p.active /\ p.pending <= t)
    BY <1>2, PolicyParts, Constants DEF FairPolicy, ActivationOK, PendingOK
  <2> QED BY <1>3, <2>1 DEF FairPolicy, ActivationOK, PendingOK
<1>6. DedupOK(q) /\ IsFiniteSet(q.dedup)
  BY <1>1, <1>3 DEF DedupOK, GoodDedup
<1>7. q.pending # NoTime => q.phase = "active"
  BY <1>3 DEF FairPolicy
<1> QED BY <1>3, <1>4, <1>5, <1>6, <1>7 DEF FairPolicy, Ready, D, q

LEMMA ActivatedFair ==
    ASSUME NEW p, FairPolicy(p), NEW t \in Nat, p.evaluatedAt = t
    PROVE  LET q == Activated(p, t)
           IN  /\ FairPolicy(q) /\ q.evaluatedAt = t /\ q.active = TRUE /\ q.phase = "active"
               /\ q.provenance = "evidence" /\ q.pending = NoTime
<1> DEFINE D == Remembered(p.dedup, t)
           q == [p EXCEPT !.active = TRUE, !.phase = "active", !.provenance = "evidence",
                          !.pending = NoTime, !.expires = NoTime, !.activatedAt = t, !.dedup = D]
<1>1. GoodDedup(D, t)
  <2>1. GoodDedup(p.dedup, t)
    BY PolicyParts DEF FairPolicy, DedupOK, GoodDedup
  <2> QED BY <2>1, RememberedGood
<1>2. p \in PolicyType
  BY DEF FairPolicy
<1> HIDE DEF D
<1>3. /\ q \in PolicyType
      /\ q.active = TRUE /\ q.phase = "active" /\ q.provenance = "evidence"
      /\ q.pending = NoTime /\ q.expires = NoTime /\ q.activatedAt = t
      /\ q.dedup = D /\ q.evaluatedAt = t
  BY <1>1, <1>2 DEF PolicyType, Phases, Provenances, GoodDedup
<1> HIDE DEF q
<1>4. PhaseOK(q)
  BY <1>3 DEF PhaseOK
<1>5. ActivationOK(q) /\ PendingOK(q)
  BY <1>3, Constants DEF ActivationOK, PendingOK
<1>6. DedupOK(q) /\ IsFiniteSet(q.dedup)
  BY <1>1, <1>3 DEF DedupOK, GoodDedup
<1> QED BY <1>3, <1>4, <1>5, <1>6 DEF FairPolicy, Activated, D, q

LEMMA PendingFair ==
    ASSUME NEW p, FairPolicy(p), p.phase = "active", NEW m \in Nat \cup {NoTime},
           m <= p.evaluatedAt
    PROVE  LET q == [p EXCEPT !.pending = m]
           IN  /\ FairPolicy(q) /\ q.evaluatedAt = p.evaluatedAt /\ q.active = p.active
               /\ q.phase = p.phase /\ q.provenance = p.provenance /\ q.pending = m
               /\ q.activatedAt = p.activatedAt /\ q.dedup = p.dedup
<1> DEFINE q == [p EXCEPT !.pending = m]
<1>1. p \in PolicyType
  BY DEF FairPolicy
<1>2. /\ q \in PolicyType
      /\ q.active = p.active /\ q.phase = p.phase /\ q.provenance = p.provenance
      /\ q.pending = m /\ q.expires = p.expires /\ q.activatedAt = p.activatedAt
      /\ q.held = p.held /\ q.dedup = p.dedup /\ q.evaluatedAt = p.evaluatedAt
  BY <1>1 DEF PolicyType
<1> HIDE DEF q
<1>3. PhaseOK(q)
  BY <1>2 DEF FairPolicy, PhaseOK
<1>4. ActivationOK(q)
  BY <1>2 DEF FairPolicy, ActivationOK
<1>5. q.active
  BY <1>2 DEF FairPolicy, PhaseOK
<1>6. PendingOK(q)
  BY <1>2, <1>5 DEF PendingOK
<1>7. DedupOK(q) /\ IsFiniteSet(q.dedup)
  BY <1>2 DEF FairPolicy, DedupOK
<1> QED BY <1>2, <1>3, <1>4, <1>6, <1>7 DEF FairPolicy, q

LEMMA RefreshFair ==
    ASSUME NEW p, FairPolicy(p), NEW b, p.evaluatedAt = b.at, b.at \in Nat, NEW e, NEW i
    PROVE  LET o == Refresh(Outcome(p, e), b, i)
           IN  /\ FairPolicy(o.policy) /\ o.policy.evaluatedAt = p.evaluatedAt
               /\ o.policy.active = p.active /\ o.policy.phase = p.phase
               /\ o.policy.provenance = p.provenance /\ o.policy.pending = p.pending
               /\ o.policy.activatedAt = p.activatedAt
               /\ o.event = e \/ (o.event = "refreshed" /\ p.active)
<1> DEFINE D == Remembered(p.dedup, b.at)
           q == [p EXCEPT !.dedup = D]
           o == Refresh(Outcome(p, e), b, i)
<1>1. GoodDedup(D, b.at)
  <2>1. GoodDedup(p.dedup, b.at)
    BY PolicyParts DEF FairPolicy, DedupOK, GoodDedup
  <2> QED BY <2>1, RememberedGood
<1>2. p \in PolicyType
  BY DEF FairPolicy
<1>3. \/ Refresh(Outcome(p, e), b, i) = Outcome(p, e)
      \/ Refresh(Outcome(p, e), b, i) = Outcome(q, "refreshed") /\ p.active
  BY DEF Refresh, Outcome
<1> HIDE DEF D
<1>4. /\ q \in PolicyType
      /\ q.active = p.active /\ q.phase = p.phase /\ q.provenance = p.provenance
      /\ q.pending = p.pending /\ q.expires = p.expires /\ q.activatedAt = p.activatedAt
      /\ q.held = p.held /\ q.dedup = D /\ q.evaluatedAt = p.evaluatedAt
  BY <1>1, <1>2 DEF PolicyType, GoodDedup
<1> HIDE DEF q
<1>5. PhaseOK(q)
  BY <1>4 DEF FairPolicy, PhaseOK
<1>6. ActivationOK(q)
  BY <1>4 DEF FairPolicy, ActivationOK
<1>7. PendingOK(q)
  BY <1>4 DEF FairPolicy, PendingOK
<1>8. DedupOK(q) /\ IsFiniteSet(q.dedup)
  BY <1>1, <1>4 DEF DedupOK, GoodDedup
<1>9. FairPolicy(q)
  BY <1>4, <1>5, <1>6, <1>7, <1>8 DEF FairPolicy
<1>10. \A r, v : Outcome(r, v).policy = r /\ Outcome(r, v).event = v
  BY DEF Outcome
<1> HIDE DEF o
<1>11. CASE o = Outcome(p, e)
  <2>1. o.policy = p /\ o.event = e
    BY <1>10, <1>11
  <2> QED BY <2>1 DEF o
<1>12. CASE o = Outcome(q, "refreshed") /\ p.active
  <2>1. o.policy = q /\ o.event = "refreshed"
    BY <1>10, <1>12
  <2> QED BY <1>4, <1>9, <1>12, <2>1 DEF o
<1> QED BY <1>3, <1>11, <1>12 DEF o

\* The memory of a hold makes a fair policy good when no dwell runs under it.
LEMMA HeldGood ==
    ASSUME NEW p, FairPolicy(p), NEW h \in BOOLEAN,
           h => p.phase = "active" /\ p.provenance = "evidence" /\ p.pending = NoTime
    PROVE  LET q == [p EXCEPT !.held = h]
           IN  /\ GoodPolicy(q) /\ q.evaluatedAt = p.evaluatedAt /\ q.active = p.active
               /\ q.phase = p.phase /\ q.provenance = p.provenance /\ q.pending = p.pending
               /\ q.expires = p.expires /\ q.activatedAt = p.activatedAt /\ q.held = h
<1> DEFINE q == [p EXCEPT !.held = h]
<1>1. p \in PolicyType
  BY DEF FairPolicy
<1>2. /\ q \in PolicyType
      /\ q.active = p.active /\ q.phase = p.phase /\ q.provenance = p.provenance
      /\ q.pending = p.pending /\ q.expires = p.expires /\ q.activatedAt = p.activatedAt
      /\ q.held = h /\ q.dedup = p.dedup /\ q.evaluatedAt = p.evaluatedAt
  BY <1>1 DEF PolicyType
<1> HIDE DEF q
<1>3. PhaseOK(q)
  BY <1>2 DEF FairPolicy, PhaseOK
<1>4. ActivationOK(q)
  BY <1>2 DEF FairPolicy, ActivationOK
<1>5. PendingOK(q)
  BY <1>2 DEF FairPolicy, PendingOK
<1>6. DedupOK(q) /\ IsFiniteSet(q.dedup)
  BY <1>2 DEF FairPolicy, DedupOK
<1>7. HeldOK(q)
  BY <1>2 DEF HeldOK
<1> QED BY <1>2, <1>3, <1>4, <1>5, <1>6, <1>7 DEF GoodPolicy, FairPolicy, q

InputType ==
    [fact : {"none", "positive", "correlated_positive"}, observed : BOOLEAN, authorized : BOOLEAN,
     below : Nat \cup {NoTime}, asserted : BOOLEAN, retained : BOOLEAN]

\* The belief crossed the threshold in the past.
GoodInput(i, t) == i \in InputType /\ i.below <= t

LEMMA InputParts ==
    ASSUME NEW i \in InputType
    PROVE  /\ i.fact \in {"none", "positive", "correlated_positive"} /\ i.observed \in BOOLEAN
           /\ i.authorized \in BOOLEAN /\ i.below \in Nat \cup {NoTime}
           /\ i.asserted \in BOOLEAN /\ i.retained \in BOOLEAN
BY DEF InputType

LEMMA Frontiers ==
    ASSUME NEW b, GoodBelief(b)
    PROVE  /\ ReleaseFrontier(b) \in Nat \cup {NoTime} /\ ReleaseFrontier(b) <= b.at
           /\ b.displacedAt # NoTime => ReleaseFrontier(b) \in Nat
           /\ b.departedAt <= b.at /\ b.resolvedAt <= b.at /\ b.displacedAt <= b.at
<1>1. b \in BeliefType
  BY DEF GoodBelief
<1>2. b.departedAt <= b.at /\ b.resolvedAt <= b.at /\ b.displacedAt <= b.at
  BY <1>1, BeliefParts, Constants
     DEF GoodBelief, BeliefOK, EvidenceOK, DepartureOK, DisplacementOK
<1>3. /\ b.displacedAt \in Nat \cup {NoTime} /\ b.resolvedAt \in Nat \cup {NoTime} /\ b.at \in Nat
  BY <1>1, BeliefParts
<1>4. ReleaseFrontier(b) = IF b.displacedAt >= b.resolvedAt THEN b.displacedAt ELSE b.resolvedAt
  BY DEF ReleaseFrontier, Later
<1> DEFINE d == b.displacedAt
           r == b.resolvedAt
           f == ReleaseFrontier(b)
<1>5. /\ f = (IF d >= r THEN d ELSE r) /\ d \in Nat \cup {NoTime} /\ r \in Nat \cup {NoTime}
      /\ d <= b.at /\ r <= b.at
  BY <1>2, <1>3, <1>4
<1> HIDE DEF d, r, f
<1>6. f \in Nat \cup {NoTime} /\ f <= b.at /\ (d # NoTime => f \in Nat)
  BY <1>3, <1>5, Constants
<1> QED BY <1>2, <1>6 DEF d, f

\* A dwell starts in the past, and not before the displacement it accounts for.
LEMMA DwellStart ==
    ASSUME NEW b, GoodBelief(b), NEW p, FairPolicy(p), p.evaluatedAt <= b.at,
           NEW i, GoodInput(i, b.at)
    PROVE  /\ ReleasePending(p, b, i) \in Nat /\ ReleasePending(p, b, i) <= b.at
           /\ b.displacedAt # NoTime => ReleaseFrontier(b) <= ReleasePending(p, b, i)
           /\ p.pending = NoTime /\ Known(i.below, b.at) = b.at => ReleasePending(p, b, i) = b.at
<1> DEFINE n == b.at
           f == ReleaseFrontier(b)
           d == b.displacedAt
           g == b.departedAt
           v == i.below
           w == p.pending
           kv == IF v = NoTime THEN n ELSE v
           kg == IF g = NoTime THEN n ELSE g
           H == p.held /\ ~RetainedFor(p, b, i)
           hold == IF H THEN (IF kv >= kg THEN kv ELSE kg) ELSE v
           kh == IF hold = NoTime THEN n ELSE hold
           s == IF d # NoTime THEN (IF kh >= f THEN kh ELSE f) ELSE hold
           ks == IF s = NoTime THEN n ELSE s
           c == IF w # NoTime /\ d # NoTime THEN (IF w >= f THEN w ELSE f) ELSE w
           r == IF c = NoTime THEN ks ELSE c
<1>1. ReleasePending(p, b, i) = r
  <2>1. BelowSince(p, b, i) = s
    BY DEF BelowSince, Later, Known
  <2>2. PendingSince(p, b) = c
    BY DEF PendingSince, Later
  <2> HIDE DEF s, c
  <2> QED BY <2>1, <2>2 DEF ReleasePending, Known
<1>2. /\ n \in Nat /\ f \in Nat \cup {NoTime} /\ f <= n /\ d \in Nat \cup {NoTime}
      /\ (d # NoTime => f \in Nat)
      /\ g \in Nat \cup {NoTime} /\ g <= n
  BY Frontiers, BeliefParts DEF GoodBelief
<1>3. v \in Nat \cup {NoTime} /\ v <= n
  BY InputParts DEF GoodInput
<1>4. w \in Nat \cup {NoTime} /\ w <= n
  <2>1. w \in Nat \cup {NoTime} /\ p.evaluatedAt \in Nat /\ (w # NoTime => w <= p.evaluatedAt)
    BY PolicyParts DEF FairPolicy, PendingOK
  <2> QED BY <1>2, <2>1, Constants
<1>5. Known(i.below, b.at) = kv
  BY DEF Known
<1> HIDE DEF n, f, d, g, v, w
<1>6. kv \in Nat /\ kv <= n /\ kg \in Nat /\ kg <= n /\ (kv = n => v \in {n, NoTime})
  BY <1>2, <1>3, Constants
<1> HIDE DEF kv, kg, H
<1>7. /\ hold \in Nat \cup {NoTime} /\ hold <= n
      /\ kv = n => hold \in {n, NoTime}
  BY <1>2, <1>3, <1>6, Constants
<1> HIDE DEF hold
<1>8. /\ s \in Nat \cup {NoTime} /\ s <= n
      /\ kv = n => s \in {n, NoTime}
      /\ d # NoTime => f <= ks
  BY <1>2, <1>7, Constants
<1> HIDE DEF s
<1>9. /\ c \in Nat \cup {NoTime} /\ c <= n /\ (w = NoTime <=> c = NoTime)
      /\ d # NoTime /\ c # NoTime => f <= c
  BY <1>2, <1>4, Constants
<1> HIDE DEF c
<1>10. /\ r \in Nat /\ r <= n /\ (d # NoTime => f <= r)
       /\ w = NoTime /\ kv = n => r = n
  BY <1>2, <1>8, <1>9, Constants
<1> HIDE DEF r
<1> QED BY <1>1, <1>5, <1>10 DEF n, f, d, w

\* The event of a part of a call says what became of the light.
Announces(was, now, event) ==
    /\ event \in Events
    /\ was = FALSE /\ now = TRUE => event = "acquired"
    /\ was = TRUE /\ now = FALSE => event = "released"
    /\ was = now => event \in {NoEvent, "refreshed"}
    /\ event = "refreshed" => now = TRUE

\* The dwell of p, if one runs, is not over at the time of b.
Running(p, b) == p.pending # NoTime => b.at < PendingSince(p, b) + Dwell

\* What is projected of p, still with the held flag of the last evaluation.
Projection(p, b, i, o) ==
    /\ FairPolicy(o.policy) /\ o.policy.evaluatedAt = b.at
    /\ Announces(p.active, o.policy.active, o.event)
    /\ o.policy.phase = "predicted" =>
          /\ p.phase = "predicted" /\ o.policy.expires = p.expires
          /\ i.fact = "none" /\ ~i.observed
    /\ p.active = FALSE /\ i.fact = "none" => o.policy.active = FALSE
    /\ Running(o.policy, b)
    /\ o.policy.provenance = "evidence" /\ o.policy.pending # NoTime =>
          ~b.hold /\ ~RetainedFor(p, b, i) /\ ~Retains(b, o.policy.activatedAt)

LEMMA Acquisition ==
    ASSUME NEW b, b.at \in Nat, NEW p, FairPolicy(p), p.evaluatedAt = b.at, ~p.active,
           NEW i, i \in InputType
    PROVE  Projection(p, b, i, Acquire(p, b, i))
<1> DEFINE q == Activated(p, b.at)
           r == Off(p, b.at)
           o == Acquire(p, b, i)
<1>1. \/ i.fact # "none" /\ o.policy = q /\ o.event = "acquired"
      \/ o.policy = r /\ o.event = NoEvent
  BY DEF Acquire, Outcome
<1>2. p.active = FALSE
  BY PolicyParts DEF FairPolicy
<1>3. /\ FairPolicy(q) /\ q.evaluatedAt = b.at /\ q.active = TRUE /\ q.phase = "active"
      /\ q.pending = NoTime
  BY ActivatedFair
<1>4. /\ GoodPolicy(r) /\ r.evaluatedAt = b.at /\ r.active = FALSE /\ r.phase = "inactive"
      /\ r.pending = NoTime
  <2>1. p.evaluatedAt <= b.at
    OBVIOUS
  <2> QED BY <2>1, OffGood
<1> HIDE DEF q, r, o
<1>5. CASE i.fact # "none" /\ o.policy = q /\ o.event = "acquired"
  <2>1. Announces(p.active, o.policy.active, o.event)
    BY <1>2, <1>3, <1>5 DEF Announces, Events, NoEvent
  <2> QED BY <1>2, <1>3, <1>5, <2>1 DEF Projection, Running, o
<1>6. CASE o.policy = r /\ o.event = NoEvent
  <2>1. Announces(p.active, o.policy.active, o.event)
    BY <1>2, <1>4, <1>6 DEF Announces, Events, NoEvent
  <2> QED BY <1>2, <1>4, <1>6, <2>1 DEF Projection, Running, GoodPolicy, o
<1> QED BY <1>1, <1>5, <1>6

LEMMA Confirmation ==
    ASSUME NEW b, b.at \in Nat, NEW p, FairPolicy(p), p.evaluatedAt = b.at,
           p.phase = "predicted", NEW i, i \in InputType
    PROVE  Projection(p, b, i, Confirm(p, b, i))
<1> DEFINE q == Activated(p, b.at)
           r == Off(p, b.at)
           o == Confirm(p, b, i)
<1>1. \/ o.policy = q /\ o.event = NoEvent
      \/ o.policy = r /\ o.event = "released"
      \/ o.policy = p /\ o.event = NoEvent /\ i.fact = "none" /\ ~i.observed
  BY DEF Confirm, Outcome
<1>2. p.active = TRUE /\ p.pending = NoTime
  <2>1. p.active \in BOOLEAN /\ p.active
    BY PolicyParts DEF FairPolicy, PhaseOK
  <2> QED BY <2>1 DEF FairPolicy
<1>3. /\ FairPolicy(q) /\ q.evaluatedAt = b.at /\ q.active = TRUE /\ q.phase = "active"
      /\ q.pending = NoTime
  BY ActivatedFair
<1>4. /\ GoodPolicy(r) /\ r.evaluatedAt = b.at /\ r.active = FALSE /\ r.phase = "inactive"
      /\ r.pending = NoTime
  <2>1. p.evaluatedAt <= b.at
    OBVIOUS
  <2> QED BY <2>1, OffGood, ZenonT(40)
<1> HIDE DEF q, r, o
<1>5. CASE o.policy = q /\ o.event = NoEvent
  <2>1. Announces(p.active, o.policy.active, o.event)
    BY <1>2, <1>3, <1>5 DEF Announces, Events, NoEvent
  <2> QED BY <1>2, <1>3, <1>5, <2>1 DEF Projection, Running, o
<1>6. CASE o.policy = r /\ o.event = "released"
  <2>1. Announces(p.active, o.policy.active, o.event)
    BY <1>2, <1>4, <1>6 DEF Announces, Events, NoEvent
  <2> QED BY <1>2, <1>4, <1>6, <2>1 DEF Projection, Running, GoodPolicy, o
<1>7. CASE o.policy = p /\ o.event = NoEvent /\ i.fact = "none" /\ ~i.observed
  <2>1. Announces(p.active, o.policy.active, o.event)
    BY <1>2, <1>7 DEF Announces, Events, NoEvent
  <2> QED BY <1>2, <1>7, <2>1 DEF Projection, Running, o
<1> QED BY <1>1, <1>5, <1>6, <1>7

\* A dwell that does not end now goes on from where it started.
LEMMA StillRunning ==
    ASSUME NEW b, GoodBelief(b), NEW n \in Nat, n <= b.at, b.at < n + Dwell,
           b.displacedAt # NoTime => ReleaseFrontier(b) <= n, NEW q, q.pending = n
    PROVE  b.at < PendingSince(q, b) + Dwell
<1> DEFINE f == ReleaseFrontier(b)
<1>1. PendingSince(q, b) = IF b.displacedAt # NoTime THEN Later(n, f) ELSE n
  BY Constants DEF PendingSince
<1>2. b.displacedAt # NoTime => f \in Nat /\ Later(n, f) = n
  BY Frontiers DEF Later
<1> QED BY <1>1, <1>2

LEMMA Retention ==
    ASSUME NEW b, GoodBelief(b), NEW p, FairPolicy(p), p.evaluatedAt = b.at,
           p.phase = "active", NEW i, GoodInput(i, b.at)
    PROVE  Projection(p, b, i, Refresh(HoldOrRelease(p, b, i), b, i))
<1> DEFINE n == ReleasePending(p, b, i)
           none == [p EXCEPT !.pending = NoTime]
           some == [p EXCEPT !.pending = n]
           off == Off(p, b.at)
           h == HoldOrRelease(p, b, i)
           o == Refresh(h, b, i)
<1>1. \/ h = Outcome(none, NoEvent)
      \/ h = Outcome(off, "released")
      \/ h = Outcome(some, NoEvent) /\ ~Protected(p, b, i) /\ b.at < n + Dwell
  <2>1. CASE Protected(p, b, i) \/ b.level > OffLevel
    BY <2>1 DEF HoldOrRelease
  <2>2. CASE ~(Protected(p, b, i) \/ b.level > OffLevel)
    <3>1. n \in Nat /\ b.at \in Nat
      BY DwellStart, BeliefParts DEF GoodBelief
    <3> HIDE DEF n
    <3>2. ~(b.at >= n + Dwell) => b.at < n + Dwell
      BY <3>1, Constants
    <3> QED BY <2>2, <3>2 DEF HoldOrRelease, n
  <2> QED BY <2>1, <2>2
<1>2. n \in Nat /\ n <= b.at /\ b.at \in Nat /\ (b.displacedAt # NoTime => ReleaseFrontier(b) <= n)
  BY DwellStart, BeliefParts DEF GoodBelief
<1> HIDE DEF n
<1>3. p.active = TRUE
  BY PolicyParts DEF FairPolicy, PhaseOK
<1>4. /\ FairPolicy(none) /\ none.evaluatedAt = b.at /\ none.active = TRUE
      /\ none.phase = "active" /\ none.pending = NoTime
  <2>1. NoTime <= p.evaluatedAt /\ NoTime \in Nat \cup {NoTime}
    BY <1>2, Constants
  <2> QED BY <1>3, <2>1, PendingFair
<1>5. /\ FairPolicy(some) /\ some.evaluatedAt = b.at /\ some.active = TRUE
      /\ some.phase = "active" /\ some.pending = n
      /\ some.provenance = p.provenance /\ some.activatedAt = p.activatedAt
  BY <1>2, <1>3, PendingFair
<1>6. /\ FairPolicy(off) /\ off.evaluatedAt = b.at /\ off.active = FALSE
      /\ off.phase = "inactive" /\ off.pending = NoTime
  <2>1. p.evaluatedAt <= b.at
    BY <1>2
  <2> QED BY <1>2, <2>1, OffGood, ZenonT(40) DEF GoodPolicy
<1> HIDE DEF none, some, off, h, o
<1>7. CASE h = Outcome(none, NoEvent)
  <2>1. /\ FairPolicy(o.policy) /\ o.policy.evaluatedAt = b.at /\ o.policy.active = TRUE
        /\ o.policy.phase = "active" /\ o.policy.pending = NoTime
        /\ o.event \in {NoEvent, "refreshed"}
    BY <1>2, <1>4, <1>7, RefreshFair DEF o
  <2>2. Announces(p.active, o.policy.active, o.event)
    BY <1>3, <2>1 DEF Announces, Events, NoEvent
  <2> QED BY <1>3, <2>1, <2>2 DEF Projection, Running, o, h
<1>8. CASE h = Outcome(off, "released")
  <2>1. /\ FairPolicy(o.policy) /\ o.policy.evaluatedAt = b.at /\ o.policy.active = FALSE
        /\ o.policy.phase = "inactive" /\ o.policy.pending = NoTime
        /\ o.event = "released"
    BY <1>2, <1>6, <1>8, RefreshFair DEF o
  <2>2. Announces(p.active, o.policy.active, o.event)
    BY <1>3, <2>1 DEF Announces, Events, NoEvent
  <2> QED BY <1>3, <2>1, <2>2 DEF Projection, Running, o, h
<1>9. CASE h = Outcome(some, NoEvent) /\ ~Protected(p, b, i) /\ b.at < n + Dwell
  <2>1. /\ FairPolicy(o.policy) /\ o.policy.evaluatedAt = b.at /\ o.policy.active = TRUE
        /\ o.policy.phase = "active" /\ o.policy.pending = n
        /\ o.policy.provenance = p.provenance /\ o.policy.activatedAt = p.activatedAt
        /\ o.event \in {NoEvent, "refreshed"}
    BY <1>2, <1>5, <1>9, RefreshFair DEF o
  <2>2. Announces(p.active, o.policy.active, o.event)
    BY <1>3, <2>1 DEF Announces, Events, NoEvent
  <2>3. Running(o.policy, b)
    <3> DEFINE q == o.policy
    <3>1. q.pending = n
      BY <2>1
    <3> HIDE DEF q
    <3>2. b.at < PendingSince(q, b) + Dwell
      BY <1>2, <1>9, <3>1, StillRunning
    <3> QED BY <3>2 DEF Running, q
  <2>4. o.policy.provenance = "evidence" =>
            ~b.hold /\ ~RetainedFor(p, b, i) /\ ~Retains(b, o.policy.activatedAt)
    BY <1>9, <2>1 DEF Protected, RetainedFor
  <2> QED BY <1>3, <2>1, <2>2, <2>3, <2>4 DEF Projection, o, h
<1> QED BY <1>1, <1>7, <1>8, <1>9 DEF o, h

\* What Projected returns, still with the held flag of the last evaluation.
Projects(p, b, i, q) ==
    q.provenance = "evidence" =>
        /\ q.pending # NoTime => b.level <= OffLevel
        /\ \/ p.provenance = "evidence" /\ q.activatedAt = p.activatedAt
           \/ i.fact # "none" /\ p.provenance # "evidence"

LEMMA RetentionProjects ==
    ASSUME NEW b, GoodBelief(b), NEW p, FairPolicy(p), p.evaluatedAt = b.at,
           p.phase = "active", NEW i, GoodInput(i, b.at)
    PROVE  Projects(p, b, i, Refresh(HoldOrRelease(p, b, i), b, i).policy)
<1> DEFINE n == ReleasePending(p, b, i)
           none == [p EXCEPT !.pending = NoTime]
           some == [p EXCEPT !.pending = n]
           off == Off(p, b.at)
           h == HoldOrRelease(p, b, i)
           o == Refresh(h, b, i)
<1>1. \/ h = Outcome(none, NoEvent)
      \/ h = Outcome(off, "released")
      \/ h = Outcome(some, NoEvent) /\ ~(b.level > OffLevel)
  BY DEF HoldOrRelease
<1>2. n \in Nat /\ n <= b.at /\ b.at \in Nat
  BY DwellStart, BeliefParts DEF GoodBelief
<1>3. b.level \in Int /\ OffLevel \in Int
  BY BeliefParts, Constants DEF GoodBelief, BeliefLevels
<1> HIDE DEF n
<1>4. /\ FairPolicy(none) /\ none.evaluatedAt = b.at /\ none.pending = NoTime
      /\ none.provenance = p.provenance /\ none.activatedAt = p.activatedAt
  <2>1. NoTime <= p.evaluatedAt /\ NoTime \in Nat \cup {NoTime}
    BY <1>2, Constants
  <2> QED BY <2>1, PendingFair
<1>5. /\ FairPolicy(some) /\ some.evaluatedAt = b.at
      /\ some.provenance = p.provenance /\ some.activatedAt = p.activatedAt
  BY <1>2, PendingFair
<1>6. FairPolicy(off) /\ off.evaluatedAt = b.at /\ off.provenance = "none"
  <2>1. p.evaluatedAt <= b.at
    BY <1>2
  <2> QED BY <1>2, <2>1, OffGood, ZenonT(40) DEF GoodPolicy
<1> HIDE DEF none, some, off, h, o
<1>7. CASE h = Outcome(none, NoEvent)
  <2>1. /\ o.policy.provenance = p.provenance /\ o.policy.activatedAt = p.activatedAt
        /\ o.policy.pending = NoTime
    BY <1>2, <1>4, <1>7, RefreshFair DEF o
  <2> QED BY <2>1 DEF Projects, o, h
<1>8. CASE h = Outcome(off, "released")
  <2>1. o.policy.provenance = "none"
    BY <1>2, <1>6, <1>8, RefreshFair DEF o
  <2> QED BY <2>1 DEF Projects, o, h
<1>9. CASE h = Outcome(some, NoEvent) /\ ~(b.level > OffLevel)
  <2>1. o.policy.provenance = p.provenance /\ o.policy.activatedAt = p.activatedAt
    BY <1>2, <1>5, <1>9, RefreshFair DEF o
  <2>2. b.level <= OffLevel
    BY <1>3, <1>9
  <2> QED BY <2>1, <2>2 DEF Projects, o, h
<1> QED BY <1>1, <1>7, <1>8, <1>9

\* What a policy that is evaluated at the time of b turns into.
LEMMA ProjectedIs ==
    ASSUME NEW b, GoodBelief(b), NEW p, FairPolicy(p), p.evaluatedAt = b.at,
           NEW i, GoodInput(i, b.at)
    PROVE  /\ Projection(p, b, i, Projected(p, b, i))
           /\ Projects(p, b, i, Projected(p, b, i).policy)
<1> DEFINE o == Projected(p, b, i)
           on == Activated(p, b.at)
           off == Off(p, b.at)
<1>1. b.at \in Nat /\ p.evaluatedAt <= b.at /\ i \in InputType
  BY BeliefParts DEF GoodBelief, GoodInput
<1>2. on.provenance = "evidence" /\ on.pending = NoTime /\ off.provenance = "none"
  <2>1. on.provenance = "evidence" /\ on.pending = NoTime
    BY <1>1, ActivatedFair
  <2>2. off.provenance = "none"
    BY <1>1, OffGood, ZenonT(40)
  <2> QED BY <2>1, <2>2
<1>3. p.provenance = "evidence" => p.phase = "active"
  BY PolicyParts DEF FairPolicy, PhaseOK, Phases
<1>4. p.active \in BOOLEAN /\ p.phase \in Phases /\ (p.active <=> p.phase # "inactive")
  BY PolicyParts DEF FairPolicy, PhaseOK
<1> HIDE DEF on, off
<1>5. CASE ~p.active
  <2>1. Projection(p, b, i, Acquire(p, b, i))
    BY <1>1, <1>5, Acquisition
  <2>2. \/ i.fact # "none" /\ Acquire(p, b, i).policy = on
        \/ Acquire(p, b, i).policy = off
    BY DEF Acquire, Outcome, on, off
  <2>3. p.provenance # "evidence"
    BY <1>3, <1>4, <1>5
  <2>4. o = Acquire(p, b, i)
    BY <1>5 DEF Projected
  <2> HIDE DEF o
  <2> QED BY <1>2, <2>1, <2>2, <2>3, <2>4 DEF Projects, o
<1>6. CASE p.active /\ p.phase = "predicted"
  <2>1. Projection(p, b, i, Confirm(p, b, i))
    BY <1>1, <1>6, Confirmation
  <2>2. \/ i.fact # "none" /\ Confirm(p, b, i).policy = on
        \/ Confirm(p, b, i).policy = off
        \/ Confirm(p, b, i).policy = p
    BY DEF Confirm, Outcome, on, off
  <2>3. p.provenance # "evidence"
    BY <1>3, <1>6
  <2>4. o = Confirm(p, b, i)
    BY <1>6 DEF Projected
  <2> HIDE DEF o
  <2> QED BY <1>2, <2>1, <2>2, <2>3, <2>4 DEF Projects, o
<1>7. CASE p.active /\ p.phase # "predicted"
  <2>1. p.phase = "active"
    BY <1>4, <1>7 DEF Phases
  <2>2. o = Refresh(HoldOrRelease(p, b, i), b, i)
    BY <1>7 DEF Projected
  <2> HIDE DEF o
  <2> QED BY <2>1, <2>2, Retention, RetentionProjects DEF o
<1> QED BY <1>5, <1>6, <1>7

\* An evaluation of p with belief b and input i, and what it returned.
Evaluation(p, b, i, o) ==
    /\ GoodPolicy(o.policy) /\ o.policy.evaluatedAt = b.at
    /\ Announces(p.active, o.policy.active, o.event)
    /\ o.policy.phase = "predicted" =>
          /\ p.phase = "predicted" /\ o.policy.expires = p.expires
          /\ i.fact = "none" /\ ~i.observed
    /\ p.active = FALSE /\ i.fact = "none" => o.policy.active = FALSE
    /\ Running(o.policy, b)
    /\ b.hold /\ o.policy.provenance = "evidence" => o.policy.pending = NoTime

\* No prediction is past its deadline when it is evaluated.
Evaluable(p, b) ==
    /\ GoodPolicy(p) /\ p.evaluatedAt <= b.at
    /\ p.phase = "predicted" => p.expires > b.at

LEMMA EvaluateGood ==
    ASSUME NEW b, GoodBelief(b), NEW p, Evaluable(p, b), NEW i, GoodInput(i, b.at)
    PROVE  Evaluation(p, b, i, Evaluate(p, b, i))
<1> DEFINE q == Ready(p, b.at)
           o == Projected(q, b, i)
           v == o.policy
           h == /\ v.phase = "active" /\ v.provenance = "evidence"
                /\ RetainedFor(p, b, i) \/ Retains(b, v.activatedAt)
           r == [v EXCEPT !.held = h]
<1>1. b.at \in Nat
  BY BeliefParts DEF GoodBelief
<1>2. /\ FairPolicy(q) /\ q.evaluatedAt = b.at /\ q.active = p.active /\ q.phase = p.phase
      /\ q.provenance = p.provenance /\ q.expires = p.expires /\ q.activatedAt = p.activatedAt
  BY <1>1, ReadyFair DEF Evaluable, GoodPolicy
<1>3. Evaluate(p, b, i) = Outcome(r, o.event)
  BY DEF Evaluate, Remembering, Ready
<1> HIDE DEF q
<1>4. Projection(q, b, i, o)
  BY <1>2, ProjectedIs
<1> HIDE DEF o
<1>5. RetainedFor(q, b, i) <=> RetainedFor(p, b, i)
  BY <1>2 DEF RetainedFor
<1>6. h => v.phase = "active" /\ v.provenance = "evidence" /\ v.pending = NoTime
  BY <1>4, <1>5 DEF Projection
<1>7. FairPolicy(v) /\ h \in BOOLEAN
  BY <1>4 DEF Projection
<1> HIDE DEF h, v
<1>8. /\ GoodPolicy(r) /\ r.evaluatedAt = v.evaluatedAt /\ r.active = v.active
      /\ r.phase = v.phase /\ r.provenance = v.provenance /\ r.pending = v.pending
      /\ r.expires = v.expires
  BY <1>6, <1>7, HeldGood
<1> HIDE DEF r
<1>9. Evaluate(p, b, i).policy = r /\ Evaluate(p, b, i).event = o.event
  BY <1>3 DEF Outcome
<1> DEFINE e == Evaluate(p, b, i)
<1>10. /\ Announces(p.active, r.active, o.event)
       /\ p.active = FALSE /\ i.fact = "none" => r.active = FALSE
  BY <1>2, <1>4, <1>8 DEF Projection, v
<1>11. r.phase = "predicted" =>
            /\ p.phase = "predicted" /\ r.expires = p.expires
            /\ i.fact = "none" /\ ~i.observed
  BY <1>2, <1>4, <1>8 DEF Projection, v
<1>12. Running(r, b)
  <2>1. Running(v, b)
    BY <1>4 DEF Projection, v
  <2> QED BY <1>8, <2>1 DEF Running, PendingSince
<1>13. b.hold /\ r.provenance = "evidence" => r.pending = NoTime
  BY <1>4, <1>8 DEF Projection, v
<1>14. r.evaluatedAt = b.at
  BY <1>4, <1>8 DEF Projection, v
<1> HIDE DEF e
<1>15. e.policy = r /\ e.event = o.event
  BY <1>9 DEF e
<1>16. Evaluation(p, b, i, e)
  BY <1>8, <1>10, <1>11, <1>12, <1>13, <1>14, <1>15 DEF Evaluation
<1> QED BY <1>16 DEF e

\* The evidence that holds the policy: the one it had, or the one it is told of.
Holds(p, b, i, q) ==
    q.provenance = "evidence" =>
        /\ q.held = (RetainedFor(p, b, i) \/ Retains(b, q.activatedAt))
        /\ q.pending # NoTime => b.level <= OffLevel
        /\ \/ p.provenance = "evidence" /\ q.activatedAt = p.activatedAt
           \/ i.fact # "none" /\ p.provenance # "evidence"

LEMMA EvaluateHolds ==
    ASSUME NEW b, GoodBelief(b), NEW p, Evaluable(p, b), NEW i, GoodInput(i, b.at)
    PROVE  Holds(p, b, i, Evaluate(p, b, i).policy)
<1> DEFINE q == Ready(p, b.at)
           o == Projected(q, b, i)
           v == o.policy
           h == /\ v.phase = "active" /\ v.provenance = "evidence"
                /\ RetainedFor(p, b, i) \/ Retains(b, v.activatedAt)
           r == [v EXCEPT !.held = h]
<1>1. b.at \in Nat
  BY BeliefParts DEF GoodBelief
<1>2. /\ FairPolicy(q) /\ q.evaluatedAt = b.at /\ q.active = p.active /\ q.phase = p.phase
      /\ q.provenance = p.provenance /\ q.activatedAt = p.activatedAt
  BY <1>1, ReadyFair DEF Evaluable, GoodPolicy
<1>3. Evaluate(p, b, i).policy = r
  BY DEF Evaluate, Remembering, Ready, Outcome
<1> HIDE DEF q
<1>4. FairPolicy(v) /\ Projects(q, b, i, v)
  BY <1>2, ProjectedIs DEF Projection
<1> HIDE DEF o
<1>5. v.provenance = "evidence" => v.phase = "active"
  BY <1>4, PolicyParts DEF FairPolicy, PhaseOK, Phases
<1>6. /\ r.held = h /\ r.provenance = v.provenance /\ r.pending = v.pending
      /\ r.activatedAt = v.activatedAt
  BY <1>4 DEF FairPolicy, PolicyType
<1> HIDE DEF r
<1>7. Holds(p, b, i, r)
  BY <1>2, <1>4, <1>5, <1>6 DEF Holds, Projects
<1> QED BY <1>3, <1>7

\* An evaluation in the middle of a call: the dwell can only start, or presence
\* holds the zone.
OnlyStarts(b, p, i) ==
    \/ p.pending = NoTime /\ Known(i.below, b.at) = b.at
    \/ b.hold /\ p.provenance = "evidence"

StillOn(p, q) == q.phase = "active" /\ q.active = TRUE /\ q.provenance = p.provenance

LEMMA EvaluateStarts ==
    ASSUME NEW b, GoodBelief(b), NEW p, GoodPolicy(p), p.evaluatedAt <= b.at,
           p.phase = "active", NEW i, GoodInput(i, b.at), i.fact = "none", OnlyStarts(b, p, i)
    PROVE  StillOn(p, Evaluate(p, b, i).policy)
<1> DEFINE q == Ready(p, b.at)
           n == ReleasePending(q, b, i)
           s == Projected(q, b, i)
<1>1. b.at \in Nat
  BY BeliefParts DEF GoodBelief
<1>2. /\ FairPolicy(q) /\ q.evaluatedAt = b.at /\ q.active = p.active /\ q.phase = p.phase
      /\ q.provenance = p.provenance /\ q.pending = p.pending
  BY <1>1, ReadyFair DEF GoodPolicy
<1>3. q.active = TRUE
  BY <1>2, PolicyParts DEF FairPolicy, PhaseOK
<1>4. \E h \in BOOLEAN : Evaluate(p, b, i) = Outcome([s.policy EXCEPT !.held = h], s.event)
  BY DEF Evaluate, Remembering, Ready
<1> HIDE DEF q
<1>5. q.evaluatedAt <= b.at
  BY <1>1, <1>2
<1>6. n \in Nat /\ n <= b.at /\ (n = b.at \/ Protected(q, b, i))
  <2>1. n \in Nat /\ n <= b.at
    BY <1>2, <1>5, DwellStart
  <2>2. CASE p.pending = NoTime /\ Known(i.below, b.at) = b.at
    BY <1>2, <1>5, <2>1, <2>2, DwellStart
  <2>3. CASE b.hold /\ p.provenance = "evidence"
    BY <1>2, <2>1, <2>3 DEF Protected
  <2> QED BY <2>2, <2>3 DEF OnlyStarts
<1> HIDE DEF n
<1>7. Protected(q, b, i) \/ ~(b.at >= n + Dwell)
  BY <1>1, <1>6, Constants
<1>8. \E m \in {NoTime, n} : HoldOrRelease(q, b, i) = Outcome([q EXCEPT !.pending = m], NoEvent)
  BY <1>7 DEF HoldOrRelease, n
<1>9. PICK m \in {NoTime, n} : s = Outcome([q EXCEPT !.pending = m], NoEvent)
  BY <1>2, <1>3, <1>8 DEF Projected, Refresh, Outcome
<1> DEFINE x == [q EXCEPT !.pending = m]
<1>10. m \in Nat \cup {NoTime} /\ m <= q.evaluatedAt
  BY <1>1, <1>2, <1>6, Constants
<1>11. FairPolicy(x) /\ x.active = TRUE /\ x.phase = "active" /\ x.provenance = p.provenance
  BY <1>2, <1>3, <1>10, PendingFair
<1> HIDE DEF x
<1>12. s.policy = x /\ s.event = NoEvent
  BY <1>9 DEF Outcome, x
<1> HIDE DEF s
<1>13. PICK h \in BOOLEAN : Evaluate(p, b, i) = Outcome([x EXCEPT !.held = h], NoEvent)
  BY <1>4, <1>12
<1> DEFINE y == [x EXCEPT !.held = h]
<1>14. y.phase = "active" /\ y.active = TRUE /\ y.provenance = p.provenance
  BY <1>11 DEF FairPolicy, PolicyType
<1> HIDE DEF y
<1>15. Evaluate(p, b, i).policy = y /\ Evaluate(p, b, i).event = NoEvent
  BY <1>13 DEF Outcome, y
<1> QED BY <1>14, <1>15 DEF StillOn

LEMMA PredictionApplied ==
    ASSUME NEW p, GoodPolicy(p), NEW t \in Nat, p.evaluatedAt <= t, NEW u \in Nat, t < u
    PROVE  LET o == ApplyPrediction(p, t, u)
           IN  /\ GoodPolicy(o.policy) /\ o.policy.evaluatedAt <= t
               /\ Announces(p.active, o.policy.active, o.event) /\ o.event \in {NoEvent, "acquired"}
               /\ \/ p.active = TRUE /\ o.policy = p
                  \/ p.active = FALSE /\ o.policy.phase = "predicted" /\ o.policy.expires = u
                     /\ o.policy.provenance = "prediction" /\ o.policy.pending = NoTime
<1> DEFINE r == Off(p, t)
           q == [r EXCEPT !.active = TRUE, !.phase = "predicted", !.provenance = "prediction",
                          !.expires = u]
           o == ApplyPrediction(p, t, u)
<1>1. p.active \in BOOLEAN
  BY PolicyParts DEF GoodPolicy, FairPolicy
<1>2. \/ p.active = TRUE /\ o.policy = p /\ o.event = NoEvent
      \/ p.active = FALSE /\ o.policy = q /\ o.event = "acquired"
  BY <1>1 DEF ApplyPrediction, Outcome
<1>3. /\ GoodPolicy(r) /\ r.evaluatedAt = t /\ r.pending = NoTime /\ r.held = FALSE
      /\ r.activatedAt = NoTime
  BY OffGood DEF GoodPolicy, Off
<1>4. r \in PolicyType
  BY <1>3 DEF GoodPolicy, FairPolicy
<1> HIDE DEF r
<1>5. /\ q \in PolicyType
      /\ q.active = TRUE /\ q.phase = "predicted" /\ q.provenance = "prediction"
      /\ q.pending = NoTime /\ q.expires = u /\ q.activatedAt = NoTime
      /\ q.held = FALSE /\ q.dedup = r.dedup /\ q.evaluatedAt = t
  BY <1>3, <1>4 DEF PolicyType, Phases, Provenances
<1> HIDE DEF q
<1>6. PhaseOK(q)
  <2>1. q.expires # NoTime /\ q.expires > q.evaluatedAt
    BY <1>5, Constants
  <2> QED BY <1>5, <2>1 DEF PhaseOK
<1>7. ActivationOK(q) /\ PendingOK(q) /\ HeldOK(q)
  BY <1>5, Constants DEF ActivationOK, PendingOK, HeldOK
<1>8. DedupOK(q) /\ IsFiniteSet(q.dedup)
  BY <1>3, <1>5 DEF GoodPolicy, FairPolicy, DedupOK
<1>9. GoodPolicy(q)
  BY <1>5, <1>6, <1>7, <1>8 DEF GoodPolicy, FairPolicy
<1> HIDE DEF o
<1>10. q.evaluatedAt <= t
  BY <1>5
<1>11. CASE p.active = TRUE /\ o.policy = p /\ o.event = NoEvent
  <2>1. Announces(p.active, o.policy.active, o.event)
    BY <1>11 DEF Announces, Events, NoEvent
  <2> QED BY <1>11, <2>1 DEF o
<1>12. CASE p.active = FALSE /\ o.policy = q /\ o.event = "acquired"
  <2>1. Announces(p.active, o.policy.active, o.event)
    BY <1>5, <1>12 DEF Announces, Events, NoEvent
  <2> QED BY <1>5, <1>9, <1>10, <1>12, <2>1 DEF o
<1> QED BY <1>2, <1>11, <1>12

Lights(p, t, u, o) ==
    /\ GoodPolicy(o.policy) /\ o.policy.evaluatedAt <= t
    /\ Announces(p.active, o.policy.active, o.event) /\ o.event \in {NoEvent, "acquired"}
    /\ \/ p.active = TRUE /\ o.policy = p
       \/ p.active = FALSE /\ o.policy.phase = "predicted" /\ o.policy.expires = u
          /\ o.policy.provenance = "prediction" /\ o.policy.pending = NoTime

LEMMA PredictionLights ==
    ASSUME NEW p, GoodPolicy(p), NEW t \in Nat, p.evaluatedAt <= t, NEW u \in Nat, t < u
    PROVE  Lights(p, t, u, ApplyPrediction(p, t, u))
BY PredictionApplied, ZenonT(40) DEF Lights

\* A prediction ends at its deadline, or when its lease is gone.
LEMMA PredictionExpired ==
    ASSUME NEW p, GoodPolicy(p), NEW t \in Nat, p.evaluatedAt <= t, NEW force
    PROVE  LET o == ExpirePrediction(p, t, force)
           IN  /\ GoodPolicy(o.policy) /\ o.policy.evaluatedAt <= t
               /\ Announces(p.active, o.policy.active, o.event)
               /\ \/ o.policy = p /\ o.event = NoEvent /\ ~Expirable(p, t, force)
                  \/ o.policy.phase = "inactive" /\ o.policy.provenance = "none"
                     /\ o.policy.pending = NoTime /\ o.event = "released" /\ Expirable(p, t, force)
<1> DEFINE r == Off(p, t)
           o == ExpirePrediction(p, t, force)
<1>1. /\ GoodPolicy(r) /\ r.evaluatedAt = t /\ r.pending = NoTime /\ r.active = FALSE
      /\ r.phase = "inactive" /\ r.provenance = "none"
  BY OffGood DEF GoodPolicy
<1>2. \/ o.policy = p /\ o.event = NoEvent /\ ~Expirable(p, t, force)
      \/ o.policy = r /\ o.event = "released" /\ Expirable(p, t, force)
  BY DEF ExpirePrediction, Outcome
<1>3. Expirable(p, t, force) => p.active = TRUE
  BY PolicyParts DEF Expirable, GoodPolicy, FairPolicy, PhaseOK
<1>4. r.evaluatedAt <= t
  BY <1>1
<1> HIDE DEF r, o
<1>5. CASE o.policy = p /\ o.event = NoEvent /\ ~Expirable(p, t, force)
  <2>1. Announces(p.active, o.policy.active, o.event)
    BY <1>5 DEF Announces, Events, NoEvent
  <2> QED BY <1>5, <2>1 DEF o
<1>6. CASE o.policy = r /\ o.event = "released" /\ Expirable(p, t, force)
  <2>1. Announces(p.active, o.policy.active, o.event)
    BY <1>1, <1>3, <1>6 DEF Announces, Events, NoEvent
  <2> QED BY <1>1, <1>4, <1>6, <2>1 DEF o
<1> QED BY <1>2, <1>5, <1>6

LEMMA ZeroCounted ==
    ASSUME NEW p, GoodPolicy(p), NEW t \in Nat, p.evaluatedAt <= t
    PROVE  LET o == CountZero(p, t)
           IN  /\ GoodPolicy(o.policy) /\ o.policy.evaluatedAt = t
               /\ Announces(p.active, o.policy.active, o.event)
               /\ o.policy.phase = "inactive" /\ o.policy.provenance = "none"
               /\ o.policy.pending = NoTime
<1> DEFINE r == Off(p, t)
           o == CountZero(p, t)
<1>1. /\ GoodPolicy(r) /\ r.evaluatedAt = t /\ r.pending = NoTime /\ r.active = FALSE
      /\ r.phase = "inactive" /\ r.provenance = "none"
  BY OffGood DEF GoodPolicy
<1>2. o.policy = r /\ o.event = IF p.active THEN "released" ELSE NoEvent
  BY DEF CountZero, Outcome
<1>3. p.active \in BOOLEAN
  BY PolicyParts DEF GoodPolicy, FairPolicy
<1> HIDE DEF r, o
<1>4. Announces(p.active, o.policy.active, o.event)
  BY <1>1, <1>2, <1>3 DEF Announces, Events, NoEvent
<1> QED BY <1>1, <1>2, <1>4 DEF o

-----------------------------------------------------------------------------
(* Parts of a call. *)

LEMMA ZoneParts ==
    ASSUME NEW z \in ZoneState
    PROVE  /\ z.at \in Nat /\ z.occupied \in BOOLEAN /\ z.sensor \in SensorType
           /\ z.belief \in BeliefType /\ z.policy \in PolicyType /\ z.cover \in Covers
           /\ z.visit \in Nat \cup {NoTime} /\ z.pending \in BOOLEAN
           /\ z.source \in Nat \cup {NoTime} /\ z.departs \in Nat \cup {NoTime}
           /\ z.settled \in BOOLEAN /\ z.lease \in Nat \cup {NoTime}
BY DEF ZoneState

LEMMA SensorParts ==
    ASSUME NEW s \in SensorType
    PROVE  /\ s.level \in Levels /\ s.status \in Statuses /\ s.start \in Nat \cup {NoTime}
           /\ s.clearedAt \in Nat \cup {NoTime} /\ s.correlated \in BOOLEAN
BY DEF SensorType

\* The episode it is visited in, and whether its source waits, are as before.
Rooted(z, y) == y.visit = z.visit /\ y.pending = z.pending

LEMMA PolicyPut ==
    ASSUME NEW z \in ZoneState, NEW p \in PolicyType
    PROVE  LET y == [z EXCEPT !.policy = p]
           IN  /\ y \in ZoneState /\ y.policy = p /\ y.belief = z.belief
               /\ y.cover = z.cover /\ Rooted(z, y)
               /\ y.at = z.at /\ y.occupied = z.occupied /\ y.sensor = z.sensor
               /\ y.source = z.source /\ y.departs = z.departs /\ y.settled = z.settled
               /\ y.lease = z.lease
BY DEF ZoneState, Rooted

LEMMA BeliefPut ==
    ASSUME NEW z \in ZoneState, NEW b \in BeliefType
    PROVE  LET y == [z EXCEPT !.belief = b]
           IN  /\ y \in ZoneState /\ y.belief = b /\ y.policy = z.policy
               /\ y.cover = z.cover /\ Rooted(z, y)
               /\ y.at = z.at /\ y.occupied = z.occupied /\ y.sensor = z.sensor
               /\ y.source = z.source /\ y.departs = z.departs /\ y.settled = z.settled
               /\ y.lease = z.lease
BY DEF ZoneState, Rooted

LEMMA LocatedPut ==
    ASSUME NEW z \in ZoneState, NEW c \in Covers, NEW v \in Nat \cup {NoTime},
           NEW q \in BOOLEAN
    PROVE  LET y == Located(z, c, v, q)
           IN  /\ y \in ZoneState /\ y.cover = c /\ y.visit = v /\ y.pending = q
               /\ y.belief = z.belief /\ y.policy = z.policy
               /\ y.at = z.at /\ y.occupied = z.occupied /\ y.sensor = z.sensor
               /\ y.source = z.source /\ y.departs = z.departs /\ y.settled = z.settled
               /\ y.lease = z.lease
BY DEF ZoneState, Located

LEMMA LeasePut ==
    ASSUME NEW z \in ZoneState, NEW l \in Nat \cup {NoTime}
    PROVE  LET y == [z EXCEPT !.lease = l]
           IN  /\ y \in ZoneState /\ y.lease = l /\ y.belief = z.belief /\ y.policy = z.policy
               /\ y.at = z.at /\ y.occupied = z.occupied /\ y.sensor = z.sensor
               /\ y.source = z.source /\ y.departs = z.departs /\ y.settled = z.settled
               /\ y.cover = z.cover /\ Rooted(z, y)
BY DEF ZoneState, Rooted

\* What most parts of a call leave alone.
Frame(z, y) ==
    /\ y.at = z.at /\ y.occupied = z.occupied /\ y.sensor = z.sensor /\ y.source = z.source
    /\ y.departs = z.departs /\ y.settled = z.settled /\ y.lease = z.lease

\* The light and what it rests on are as before.
Lit(z, y) ==
    /\ y.policy.active = z.policy.active /\ y.policy.phase = z.policy.phase
    /\ y.policy.expires = z.policy.expires /\ y.policy.provenance = z.policy.provenance

LEMMA FrameChain ==
    ASSUME NEW x, NEW y, NEW z, Frame(x, y), Frame(y, z) PROVE Frame(x, z)
BY DEF Frame

LEMMA LitChain ==
    ASSUME NEW x, NEW y, NEW z, Lit(x, y), Lit(y, z) PROVE Lit(x, z)
BY DEF Lit

LEMMA EvaluatedFormed ==
    ASSUME NEW z, Formed(z), Evaluable(z.policy, z.belief), NEW i, GoodInput(i, z.at)
    PROVE  LET s == Evaluated(z, i)
           IN  /\ Sane(s.zone) /\ Frame(z, s.zone) /\ s.zone.cover = z.cover /\ Rooted(z, s.zone)
               /\ s.zone.belief = z.belief
               /\ s.zone.policy = Evaluate(z.policy, z.belief, i).policy
               /\ s.event = Evaluate(z.policy, z.belief, i).event
               /\ Evaluation(z.policy, z.belief, i, Evaluate(z.policy, z.belief, i))
<1> DEFINE o == Evaluate(z.policy, z.belief, i)
           y == [z EXCEPT !.policy = o.policy]
           s == Evaluated(z, i)
<1>1. s.zone = y /\ s.event = o.event
  BY DEF Evaluated, Step
<1>2. Evaluation(z.policy, z.belief, i, o)
  BY EvaluateGood DEF Formed
<1> HIDE DEF o, s
<1>3. GoodPolicy(o.policy) /\ o.policy \in PolicyType /\ o.policy.evaluatedAt = z.at
      /\ (z.belief.hold /\ o.policy.provenance = "evidence" => o.policy.pending = NoTime)
  BY <1>2 DEF Evaluation, GoodPolicy, FairPolicy, Formed
<1>4. /\ y \in ZoneState /\ y.policy = o.policy /\ y.belief = z.belief
      /\ y.cover = z.cover /\ Rooted(z, y)
      /\ y.at = z.at /\ y.occupied = z.occupied /\ y.sensor = z.sensor
      /\ y.source = z.source /\ y.departs = z.departs /\ y.settled = z.settled
      /\ y.lease = z.lease
  BY <1>3, PolicyPut DEF Formed
<1> HIDE DEF y
<1>5. y.policy.evaluatedAt <= y.at
  BY <1>3, <1>4, ZoneParts
<1>6. Sane(y)
  BY <1>3, <1>4, <1>5 DEF Sane, Formed, HoldsStill
<1>7. Frame(z, y)
  BY <1>4 DEF Frame
<1> QED BY <1>1, <1>2, <1>4, <1>6, <1>7 DEF o, s

\* No fact; the belief was low since v.
Since(v, r) == [Unheard EXCEPT !.below = v, !.retained = r]

LEMMA SinceParts ==
    ASSUME NEW v \in Nat \cup {NoTime}, NEW r \in BOOLEAN
    PROVE  Since(v, r) \in InputType /\ Since(v, r).below = v /\ Since(v, r).fact = "none"
BY Constants DEF Since, Unheard, InputType

\* An evaluation the engine does not publish does not change the light.
LEMMA SilentlyKeeps ==
    ASSUME NEW z, Formed(z), z.policy.phase = "active", NEW i, GoodInput(i, z.at),
           i.fact = "none", OnlyStarts(z.belief, z.policy, i)
    PROVE  LET y == Silently(z, i)
           IN  /\ Sane(y) /\ Frame(z, y) /\ Lit(z, y) /\ y.cover = z.cover /\ Rooted(z, y)
               /\ y.belief = z.belief /\ Running(y.policy, y.belief)
<1> DEFINE o == Evaluate(z.policy, z.belief, i)
           y == Silently(z, i)
<1>1. Evaluable(z.policy, z.belief)
  BY DEF Evaluable, Formed
<1>2. /\ Sane(y) /\ Frame(z, y) /\ y.cover = z.cover /\ Rooted(z, y) /\ y.belief = z.belief
      /\ y.policy = o.policy /\ Evaluation(z.policy, z.belief, i, o)
  BY <1>1, EvaluatedFormed DEF Silently
<1>3. o.policy.phase = "active" /\ o.policy.active = TRUE /\ o.policy.provenance = z.policy.provenance
  <2>1. GoodBelief(z.belief) /\ GoodPolicy(z.policy) /\ z.belief.at = z.at
    BY DEF Formed
  <2>2. z.policy.evaluatedAt <= z.belief.at
    BY DEF Formed
  <2>3. GoodInput(i, z.belief.at)
    BY <2>1
  <2>4. StillOn(z.policy, o.policy)
    BY <2>1, <2>2, <2>3, EvaluateStarts
  <2> QED BY <2>4 DEF StillOn
<1> HIDE DEF o, y
<1>4. Running(y.policy, y.belief)
  BY <1>2 DEF Evaluation
<1>5. z.policy.active = TRUE /\ z.policy.expires = NoTime
  BY PolicyParts DEF Formed, GoodPolicy, FairPolicy, PhaseOK
<1>6. y.policy.expires = NoTime
  BY <1>2, <1>3, PolicyParts DEF Sane, Formed, GoodPolicy, FairPolicy, PhaseOK
<1>7. Lit(z, y)
  BY <1>2, <1>3, <1>5, <1>6 DEF Lit
<1> QED BY <1>2, <1>4, <1>7 DEF y

\* The belief of z is b now, and nothing else has changed.
WithBelief(z, b) == [z EXCEPT !.belief = b]

Believes(z, y, b) ==
    Formed(y) /\ Frame(z, y)
    /\ y.cover = z.cover /\ Rooted(z, y) /\ y.policy = z.policy /\ y.belief = b

LEMMA BeliefSet ==
    ASSUME NEW z, Formed(z), NEW b, GoodBelief(b), b.at = z.at,
           b.generation \in {NoTime, z.sensor.start}
    PROVE  Believes(z, WithBelief(z, b), b)
<1> DEFINE y == [z EXCEPT !.belief = b]
<1>1. /\ y \in ZoneState /\ y.belief = b /\ y.policy = z.policy
      /\ y.cover = z.cover /\ Rooted(z, y)
      /\ y.at = z.at /\ y.occupied = z.occupied /\ y.sensor = z.sensor
      /\ y.source = z.source /\ y.departs = z.departs /\ y.settled = z.settled
      /\ y.lease = z.lease
  BY BeliefPut DEF Formed, GoodBelief
<1> HIDE DEF y
<1>2. Formed(y)
  BY <1>1 DEF Formed
<1>3. Frame(z, y)
  BY <1>1 DEF Frame
<1>4. Believes(z, y, b)
  BY <1>1, <1>2, <1>3 DEF Believes
<1> QED BY <1>4 DEF WithBelief, y

\* c is no lower than b, and no less displaced.
Onward(b, c) ==
    b.level <= c.level /\ b.displacedAt <= c.displacedAt /\ c.resolvedAt = b.resolvedAt

LEMMA PendingOnward ==
    ASSUME NEW b, GoodBelief(b), NEW c, GoodBelief(c), Onward(b, c),
           NEW p, GoodPolicy(p), p.pending # NoTime
    PROVE  PendingSince(p, b) \in Nat /\ PendingSince(p, c) \in Nat
           /\ PendingSince(p, b) <= PendingSince(p, c)
<1> DEFINE n == p.pending
           d == b.displacedAt
           e == c.displacedAt
           r == b.resolvedAt
<1>1. n \in Nat
  BY PolicyParts DEF GoodPolicy, FairPolicy
<1>2. d \in Nat \cup {NoTime} /\ e \in Nat \cup {NoTime} /\ r \in Nat \cup {NoTime}
  BY BeliefParts DEF GoodBelief
<1>3. d <= e
  BY DEF Onward
<1>4. PendingSince(p, b) = IF d # NoTime THEN Later(n, Later(d, r)) ELSE n
  BY DEF PendingSince, ReleaseFrontier
<1>5. PendingSince(p, c) = IF e # NoTime THEN Later(n, Later(e, r)) ELSE n
  BY DEF PendingSince, ReleaseFrontier, Onward
<1> HIDE DEF n, d, e, r
<1> QED BY <1>1, <1>2, <1>3, <1>4, <1>5, Constants DEF Later

LEMMA StillNotLate ==
    ASSUME NEW z, Formed(z), NotLate(z), NEW y, Formed(y), y.at = z.at,
           y.policy.pending = z.policy.pending, Onward(z.belief, y.belief)
    PROVE  NotLate(y)
<1> SUFFICES ASSUME y.policy.pending # NoTime, y.belief.level <= OffLevel
             PROVE  y.at < PendingSince(y.policy, y.belief) + Dwell
  BY DEF NotLate
<1>1. z.belief.level <= OffLevel
  <2>1. z.belief.level \in Int /\ y.belief.level \in Int /\ OffLevel \in Int
    BY BeliefParts, Constants DEF Formed, GoodBelief
  <2>2. z.belief.level <= y.belief.level
    BY DEF Onward
  <2> QED BY <2>1, <2>2
<1>2. z.at < PendingSince(z.policy, z.belief) + Dwell
  BY <1>1 DEF NotLate
<1>3. /\ PendingSince(z.policy, z.belief) \in Nat /\ PendingSince(z.policy, y.belief) \in Nat
      /\ PendingSince(z.policy, z.belief) <= PendingSince(z.policy, y.belief)
  BY PendingOnward DEF Formed
<1>4. PendingSince(y.policy, y.belief) = PendingSince(z.policy, y.belief)
  BY DEF PendingSince
<1>5. z.at \in Nat
  BY ZoneParts DEF Formed
<1> QED BY <1>2, <1>3, <1>4, <1>5, Constants

LEMMA RunningIsNotLate ==
    ASSUME NEW z, Formed(z), Running(z.policy, z.belief) PROVE NotLate(z)
BY DEF NotLate, Running, Formed

\* A part of a call that moves the belief and its cover, and nothing else.
Moves(z, y) ==
    /\ Sane(y) /\ Frame(z, y) /\ Lit(z, y) /\ y.cover = z.cover /\ Rooted(z, y)
    /\ y.belief.hold = z.belief.hold /\ y.belief.generation = z.belief.generation
    /\ NotLate(z) => NotLate(y)

LEMMA CoverageMoves ==
    ASSUME NEW z, Sane(z), NEW before PROVE Moves(z, CoverageChanged(before, z))
<1> DEFINE b == Displace(z.belief)
           m == WithBelief(z, b)
           y == CoverageChanged(before, z)
<1> SUFFICES Moves(z, y)
  OBVIOUS
<1>1. y \in {z, m} \/ (y = Silently(m, Unheard) /\ m.policy.held)
  BY DEF CoverageChanged, WithBelief
<1>2. /\ GoodBelief(b) /\ Same(z.belief, b) /\ b.level = z.belief.level
      /\ z.belief.displacedAt <= b.displacedAt
  BY Displaced DEF Sane, Formed
<1>3. b.at = z.at /\ b.generation \in {NoTime, z.sensor.start} /\ b.hold = z.belief.hold
      /\ b.generation = z.belief.generation
  BY <1>2 DEF Same, Sane, Formed
<1>4. Onward(z.belief, b)
  <2>1. z.belief.level <= b.level
    BY <1>2, BeliefParts, Constants DEF Sane, Formed, GoodBelief
  <2> QED BY <1>2, <2>1 DEF Same, Onward
<1> HIDE DEF b, y
<1>5. Believes(z, m, b)
  BY <1>2, <1>3, BeliefSet DEF Sane
<1> HIDE DEF m
<1>6. Sane(m)
  BY <1>3, <1>5 DEF Believes, Sane, HoldsStill
<1>7. Lit(z, m) /\ Lit(z, z) /\ Frame(z, z)
  BY <1>5 DEF Believes, Lit, Frame
<1>8. NotLate(z) => NotLate(m)
  BY <1>4, <1>5, <1>6, StillNotLate DEF Sane, Believes, Frame
<1>9. Moves(z, z)
  BY <1>7 DEF Moves, Rooted
<1>10. Moves(z, m)
  BY <1>3, <1>5, <1>6, <1>7, <1>8 DEF Moves, Believes
<1>11. CASE y = Silently(m, Unheard) /\ m.policy.held
  <2>1. m.policy.phase = "active" /\ m.policy.pending = NoTime
    BY <1>6, <1>11 DEF Sane, Formed, GoodPolicy, HeldOK
  <2>2. Unheard \in InputType /\ Unheard.fact = "none" /\ Unheard.below = NoTime
    BY Constants DEF Unheard, InputType
  <2>3. GoodInput(Unheard, m.at)
    BY <1>6, <2>2, ZoneParts, Constants DEF GoodInput, Sane, Formed
  <2>4. OnlyStarts(m.belief, m.policy, Unheard)
    BY <2>1, <2>2 DEF OnlyStarts, Known
  <2>5. /\ Sane(y) /\ Frame(m, y) /\ Lit(m, y) /\ y.cover = m.cover /\ Rooted(m, y)
        /\ y.belief = m.belief /\ Running(y.policy, y.belief)
    BY <1>6, <1>11, <2>1, <2>2, <2>3, <2>4, SilentlyKeeps DEF Sane
  <2>6. NotLate(y)
    BY <2>5, RunningIsNotLate DEF Sane
  <2>7. Frame(z, y) /\ Lit(z, y)
    BY <1>10, <2>5, FrameChain, LitChain DEF Moves
  <2> QED BY <1>10, <2>5, <2>6, <2>7 DEF Moves, Rooted
<1> QED BY <1>1, <1>9, <1>10, <1>11

\* Only where the paths and the ledger have the zone is new.
Covered(z, y) ==
    Sane(y) /\ Frame(z, y) /\ Lit(z, y) /\ y.policy = z.policy /\ y.belief = z.belief

LEMMA LocationSet ==
    ASSUME NEW z, Sane(z), NEW c \in Covers, NEW v \in Nat \cup {NoTime}, NEW q \in BOOLEAN
    PROVE  LET y == Located(z, c, v, q)
           IN  Covered(z, y) /\ y.cover = c /\ y.visit = v /\ y.pending = q
<1> DEFINE y == Located(z, c, v, q)
<1>1. /\ y \in ZoneState /\ y.belief = z.belief /\ y.policy = z.policy
      /\ y.cover = c /\ y.visit = v /\ y.pending = q
      /\ y.at = z.at /\ y.occupied = z.occupied /\ y.sensor = z.sensor
      /\ y.source = z.source /\ y.departs = z.departs /\ y.settled = z.settled
      /\ y.lease = z.lease
  BY LocatedPut DEF Sane, Formed
<1> HIDE DEF y
<1>2. Sane(y)
  BY <1>1 DEF Sane, Formed, HoldsStill
<1>3. Frame(z, y) /\ Lit(z, y)
  BY <1>1 DEF Frame, Lit
<1>4. Covered(z, y)
  BY <1>1, <1>2, <1>3 DEF Covered
<1> QED BY <1>1, <1>4 DEF y

\* The current episode lives, and an unused source waits for its own, on.
Branched(z) ==
    /\ z.cover = "branch" => Eligible(z.sensor, z.visit)
    /\ z.visit # NoTime => Eligible(z.sensor, z.visit)
    /\ z.pending => Eligible(z.sensor, z.source) /\ KnownOn(z.sensor)

LEMMA Withdrawal ==
    ASSUME NEW z, Sane(z)
    PROVE  LET y == Withdrawn(z)
           IN  /\ Covered(z, y) /\ Branched(y)
               /\ y.cover = IF z.cover = "branch" /\ ~Eligible(z.sensor, z.visit)
                            THEN "none" ELSE z.cover
<1> DEFINE live == Eligible(z.sensor, z.visit)
           c == IF z.cover = "branch" /\ ~live THEN "none" ELSE z.cover
           v == IF live THEN z.visit ELSE NoTime
           q == z.pending /\ Eligible(z.sensor, z.source) /\ KnownOn(z.sensor)
           y == Located(z, c, v, q)
<1>1. Withdrawn(z) = y
  BY DEF Withdrawn
<1>2. c \in Covers /\ v \in Nat \cup {NoTime} /\ q \in BOOLEAN
  BY ZoneParts DEF Sane, Formed, Covers, Eligible, KnownOn
<1>3. c = "branch" => live
  OBVIOUS
<1>4. v # NoTime => live /\ v = z.visit
  OBVIOUS
<1>5. live => v = z.visit
  OBVIOUS
<1>6. q => Eligible(z.sensor, z.source) /\ KnownOn(z.sensor)
  OBVIOUS
<1>7. c = IF z.cover = "branch" /\ ~Eligible(z.sensor, z.visit) THEN "none" ELSE z.cover
  OBVIOUS
<1> HIDE DEF c, v, q
<1>8. Covered(z, y) /\ y.cover = c /\ y.visit = v /\ y.pending = q
  BY <1>2, LocationSet
<1> HIDE DEF y
<1>9. y.sensor = z.sensor /\ y.source = z.source
  BY <1>8 DEF Covered, Frame
<1>10. Branched(y)
  BY <1>3, <1>4, <1>5, <1>6, <1>8, <1>9 DEF Branched
<1> QED BY <1>1, <1>7, <1>8, <1>10

\* Nothing is left to withdraw.
LEMMA RootedStays ==
    ASSUME NEW z \in ZoneState, Branched(z) PROVE Withdrawn(z) = z
<1> DEFINE live == Eligible(z.sensor, z.visit)
           c == IF z.cover = "branch" /\ ~live THEN "none" ELSE z.cover
           v == IF live THEN z.visit ELSE NoTime
           q == z.pending /\ Eligible(z.sensor, z.source) /\ KnownOn(z.sensor)
<1>1. Withdrawn(z) = [z EXCEPT !.cover = c, !.visit = v, !.pending = q]
  BY DEF Withdrawn, Located
<1>2. c = z.cover /\ v = z.visit
  BY DEF Branched
<1>3. z.pending \in BOOLEAN
  BY ZoneParts
<1>4. q = z.pending
  BY <1>3 DEF Branched, Eligible, KnownOn
<1> HIDE DEF c, v, q
<1> QED BY <1>1, <1>2, <1>4 DEF ZoneState

\* A visit that is over ends.
Reconciles(z, y) ==
    /\ Sane(y) /\ Frame(z, y) /\ Lit(z, y) /\ y.cover \in {z.cover, "none"} /\ Branched(y)
    /\ y.belief.hold = z.belief.hold /\ y.belief.generation = z.belief.generation
    /\ NotLate(z) => NotLate(y)
    /\ VacantOK(z) => VacantOK(y)

LEMMA CoveredNotLate ==
    ASSUME NEW z, NEW y, Covered(z, y) PROVE NotLate(z) => NotLate(y)
BY DEF Covered, NotLate, Frame

LEMMA BranchEnds ==
    ASSUME NEW z, Sane(z) PROVE Reconciles(z, Reconciled(z))
<1> DEFINE m == Withdrawn(z)
           y == Reconciled(z)
<1> SUFFICES Reconciles(z, y)
  OBVIOUS
<1>1. y = CoverageChanged(z, m)
  BY DEF Reconciled
<1> HIDE DEF y
<1>2. Covered(z, m) /\ Branched(m) /\ m.cover \in {z.cover, "none"}
  BY Withdrawal
<1> HIDE DEF m
<1>3. Sane(m)
  BY <1>2 DEF Covered
<1>4. Moves(m, y)
  BY <1>1, <1>3, CoverageMoves
<1>5. Frame(z, y) /\ Lit(z, y)
  BY <1>2, <1>4, FrameChain, LitChain DEF Covered, Moves
<1>6. y.cover \in {z.cover, "none"} /\ Sane(y)
  BY <1>2, <1>4 DEF Moves
<1>7. Branched(y)
  BY <1>2, <1>4 DEF Moves, Frame, Rooted, Branched
<1>8. y.belief.hold = z.belief.hold
  BY <1>2, <1>4 DEF Covered, Moves
<1>9. y.belief.generation = z.belief.generation
  BY <1>2, <1>4 DEF Covered, Moves
<1>10. NotLate(z) => NotLate(y)
  BY <1>2, <1>4, CoveredNotLate DEF Moves
<1>11. VacantOK(z) => VacantOK(y)
  BY <1>5, <1>6, <1>9 DEF VacantOK, Frame, Lit
<1> QED BY <1>5, <1>6, <1>7, <1>8, <1>9, <1>10, <1>11 DEF Reconciles

-----------------------------------------------------------------------------
(* Presence. *)

\* The hold of y is what z witnesses.
Reholds(z, y) ==
    /\ Sane(y) /\ Frame(z, y) /\ Lit(z, y) /\ y.cover = z.cover /\ Rooted(z, y) /\ HoldOK(y)
    /\ NotLate(z) => NotLate(y)
    /\ VacantOK(z) => VacantOK(y)

LEMMA HoldFollows ==
    ASSUME NEW z, Sane(z) PROVE Reholds(z, ReconcileHold(z))
<1> DEFINE w == Witnessed(z)
           c == IF w /\ KnownOn(z.sensor) THEN Reselect(z.belief, z.sensor.start) ELSE z.belief
           b == SetHold(c, w)
           m == WithBelief(z, b)
           i == Since(z.belief.at, RetainedZone(m))
           y == ReconcileHold(z)
<1> SUFFICES Reholds(z, y)
  OBVIOUS
<1>1. \/ y = m /\ ~(z.belief.hold # w /\ z.policy.active /\ z.policy.provenance = "evidence")
      \/ y = Silently(m, i) /\ z.belief.hold # w /\ z.policy.provenance = "evidence"
  BY DEF ReconcileHold, WithBelief, Since
<1>2. w \in BOOLEAN /\ z.belief.hold \in BOOLEAN
  BY BeliefParts DEF Witnessed, Sane, Formed, GoodBelief
<1>3. w => z.occupied /\ z.sensor.start \in Nat /\ z.sensor.start <= z.at
  <2>1. z.source \in Nat \cup {NoTime} /\ z.sensor.start <= z.at
    BY ZoneParts DEF Sane, Formed, GoodSensor
  <2> QED BY <2>1 DEF Witnessed
<1>4. w => z.occupied /\ z.source = z.sensor.start /\ z.source # NoTime /\ Presence
           /\ (KnownOn(z.sensor)
               \/ (z.belief.hold /\ z.sensor.status = "clearing" /\ z.sensor.level = "off"))
  BY DEF Witnessed
<1>5. ~w => ~(Presence /\ z.occupied /\ z.source # NoTime /\ z.source = z.sensor.start
              /\ KnownOn(z.sensor))
  BY DEF Witnessed
<1> HIDE DEF w, y
<1>6. /\ GoodBelief(c) /\ c.at = z.at /\ Onward(z.belief, c)
      /\ c.generation \in {z.belief.generation, z.sensor.start}
      /\ c.generation # z.belief.generation => z.occupied
  <2>1. GoodBelief(z.belief) /\ z.belief.at = z.at
    BY DEF Sane, Formed
  <2>2. z.belief.level <= z.belief.level /\ z.belief.displacedAt <= z.belief.displacedAt
    BY <2>1, BeliefParts, Constants DEF GoodBelief
  <2>3. CASE w /\ KnownOn(z.sensor)
    <3> DEFINE d == Reselect(z.belief, z.sensor.start)
    <3>1. /\ GoodBelief(d) /\ d.at = z.belief.at /\ d.generation = z.sensor.start
          /\ d.resolvedAt = z.belief.resolvedAt /\ d.level = z.belief.level
          /\ z.belief.displacedAt <= d.displacedAt
      <4>1. z.sensor.start <= z.belief.at
        BY <1>3, <2>1, <2>3
      <4> QED BY <1>3, <2>1, <2>3, <4>1, Reselected
    <3> HIDE DEF d
    <3>2. Onward(z.belief, d)
      BY <2>2, <3>1 DEF Onward
    <3>3. c = d
      BY <2>3 DEF d
    <3> QED BY <1>3, <2>1, <2>3, <3>1, <3>2, <3>3
  <2>4. CASE ~(w /\ KnownOn(z.sensor))
    <3>1. c = z.belief
      BY <2>4
    <3> QED BY <2>1, <2>2, <3>1 DEF Onward
  <2> QED BY <2>3, <2>4
<1> HIDE DEF c
<1>7. /\ GoodBelief(b) /\ b.at = c.at /\ b.hold = w /\ b.generation = c.generation
      /\ b.resolvedAt = c.resolvedAt /\ b.level = c.level /\ b.displacedAt = c.displacedAt
  BY <1>2, <1>6, HoldSet
<1> HIDE DEF b
<1>8. /\ b.at = z.at /\ b.generation \in {NoTime, z.sensor.start} /\ Onward(z.belief, b)
      /\ b.generation # z.belief.generation => z.occupied
  BY <1>6, <1>7 DEF Onward, Sane, Formed
<1>9. Believes(z, m, b)
  BY <1>7, <1>8, BeliefSet DEF Sane
<1> HIDE DEF m
<1>10. Frame(z, m) /\ Lit(z, m) /\ m.cover = z.cover /\ Rooted(z, m) /\ m.belief = b /\ Formed(m)
       /\ m.policy = z.policy
  BY <1>9 DEF Believes, Lit
<1>11. NotLate(z) => NotLate(m)
  <2>1. m.at = z.at /\ m.policy.pending = z.policy.pending
    BY <1>10 DEF Frame
  <2> QED BY <1>8, <1>10, <2>1, StillNotLate DEF Sane
<1>12. VacantOK(z) => VacantOK(m)
  <2>1. m.occupied = z.occupied /\ m.lease = z.lease
    BY <1>10 DEF Frame
  <2>2. ~z.occupied => m.belief.generation = z.belief.generation
    BY <1>8, <1>10
  <2> QED BY <1>10, <2>1, <2>2 DEF VacantOK
<1>13. CASE y = m /\ ~(z.belief.hold # w /\ z.policy.active /\ z.policy.provenance = "evidence")
  <2>1. z.policy.provenance = "evidence" => z.policy.active = TRUE
    BY PolicyParts DEF Sane, Formed, GoodPolicy, FairPolicy, PhaseOK
  <2>2. HoldsStill(m)
    BY <1>2, <1>7, <1>10, <1>13, <2>1 DEF Sane, HoldsStill
  <2>3. HoldOK(m)
    BY <1>2, <1>4, <1>5, <1>7, <1>10 DEF HoldOK, Witnessed, Frame
  <2> QED BY <1>10, <1>11, <1>12, <1>13, <2>2, <2>3 DEF Reholds, Sane
<1>14. CASE y = Silently(m, i) /\ z.belief.hold # w /\ z.policy.provenance = "evidence"
  <2>1. m.policy.phase = "active"
    BY <1>10, <1>14, PolicyParts DEF Sane, Formed, GoodPolicy, FairPolicy, PhaseOK, Phases
  <2>2. z.belief.at \in Nat /\ z.belief.at = m.at /\ m.belief.at = m.at
    BY <1>7, <1>8, <1>10, BeliefParts DEF Sane, Formed, GoodBelief, Frame
  <2>3. i \in InputType /\ i.below = z.belief.at /\ i.fact = "none"
    <3>1. RetainedZone(m) \in BOOLEAN
      BY DEF RetainedZone
    <3> QED BY <2>2, <3>1, SinceParts
  <2> HIDE DEF i
  <2>4. GoodInput(i, m.at)
    BY <2>2, <2>3 DEF GoodInput
  <2>5. OnlyStarts(m.belief, m.policy, i)
    <3>1. Known(i.below, m.belief.at) = m.belief.at
      BY <2>2, <2>3 DEF Known
    <3>2. CASE w
      BY <1>7, <1>10, <1>14, <3>2 DEF OnlyStarts
    <3>3. CASE ~w
      <4>1. m.policy.pending = NoTime
        BY <1>2, <1>10, <1>14, <3>3 DEF Sane, HoldsStill
      <4> QED BY <3>1, <4>1 DEF OnlyStarts
    <3> QED BY <3>2, <3>3
  <2>6. /\ Sane(y) /\ Frame(m, y) /\ Lit(m, y) /\ y.cover = m.cover /\ Rooted(m, y)
        /\ y.belief = m.belief /\ Running(y.policy, y.belief)
    BY <1>10, <1>14, <2>1, <2>3, <2>4, <2>5, SilentlyKeeps
  <2>7. NotLate(y)
    BY <2>6, RunningIsNotLate DEF Sane
  <2>8. Frame(z, y) /\ Lit(z, y)
    BY <1>10, <2>6, FrameChain, LitChain
  <2>9. y.cover = z.cover /\ Rooted(z, y) /\ y.belief = b
    BY <1>10, <2>6 DEF Rooted
  <2>10. HoldOK(y)
    BY <1>2, <1>4, <1>5, <1>7, <2>8, <2>9 DEF HoldOK, Witnessed, Frame
  <2>11. VacantOK(z) => VacantOK(y)
    <3>1. VacantOK(m) => VacantOK(y)
      BY <2>6 DEF VacantOK, Frame, Lit
    <3> QED BY <1>12, <3>1
  <2>12. Sane(y)
    BY <2>6
  <2> QED BY <2>7, <2>8, <2>9, <2>10, <2>11, <2>12 DEF Reholds
<1> QED BY <1>1, <1>13, <1>14

-----------------------------------------------------------------------------
(* Leases, and the evaluation that ends a call. *)

\* A lease that is over is dropped.
Lapses(z, y) ==
    /\ Sane(y) /\ Lit(z, y) /\ y.policy = z.policy /\ y.belief = z.belief
    /\ y.cover = z.cover /\ Rooted(z, y)
    /\ y.at = z.at /\ y.occupied = z.occupied /\ y.sensor = z.sensor /\ y.source = z.source
    /\ y.lease \in {z.lease, NoTime}
    /\ z.at < z.lease => y.lease = z.lease
    /\ NotLate(z) => NotLate(y)
    /\ VacantOK(z) => VacantOK(y)
    /\ HoldOK(z) => HoldOK(y)
    /\ ClearAhead(z) => ClearAhead(y)

WithLease(z, l) == [z EXCEPT !.lease = l]

LEMMA LeaseSet ==
    ASSUME NEW z, Sane(z), NEW l \in Nat \cup {NoTime}
    PROVE  LET y == WithLease(z, l)
           IN  /\ Sane(y) /\ Lit(z, y) /\ y.policy = z.policy /\ y.belief = z.belief
               /\ y.cover = z.cover /\ Rooted(z, y) /\ y.at = z.at /\ y.occupied = z.occupied
               /\ y.sensor = z.sensor /\ y.source = z.source /\ y.lease = l
<1> DEFINE y == [z EXCEPT !.lease = l]
<1>1. /\ y \in ZoneState /\ y.belief = z.belief /\ y.policy = z.policy
      /\ y.cover = z.cover /\ Rooted(z, y)
      /\ y.at = z.at /\ y.occupied = z.occupied /\ y.sensor = z.sensor
      /\ y.source = z.source /\ y.departs = z.departs /\ y.settled = z.settled
      /\ y.lease = l
  BY LeasePut DEF Sane, Formed
<1> HIDE DEF y
<1>2. Sane(y)
  BY <1>1 DEF Sane, Formed, HoldsStill
<1>3. Lit(z, y)
  BY <1>1 DEF Lit
<1> QED BY <1>1, <1>2, <1>3 DEF WithLease, y

LEMMA LeaseLapses ==
    ASSUME NEW z, Sane(z) PROVE Lapses(z, LeaseLasts(z))
<1> DEFINE l == IF z.lease <= z.at THEN NoTime ELSE z.lease
           y == WithLease(z, l)
<1>1. LeaseLasts(z) = y
  BY DEF LeaseLasts, WithLease
<1>2. /\ l \in Nat \cup {NoTime} /\ l \in {z.lease, NoTime}
      /\ z.at < z.lease => l = z.lease
  BY ZoneParts, Constants DEF Sane, Formed
<1> HIDE DEF l
<1>3. /\ Sane(y) /\ Lit(z, y) /\ y.policy = z.policy /\ y.belief = z.belief
      /\ y.cover = z.cover /\ Rooted(z, y) /\ y.at = z.at /\ y.occupied = z.occupied
      /\ y.sensor = z.sensor /\ y.source = z.source /\ y.lease = l
  BY <1>2, LeaseSet
<1> HIDE DEF y
<1>4. NotLate(z) => NotLate(y)
  BY <1>3 DEF NotLate
<1>5. VacantOK(z) => VacantOK(y)
  BY <1>2, <1>3 DEF VacantOK
<1>6. HoldOK(z) => HoldOK(y)
  BY <1>3 DEF HoldOK, Witnessed
<1>7. ClearAhead(z) => ClearAhead(y)
  BY <1>3 DEF ClearAhead, ClearsAt
<1>8. Lapses(z, y)
  BY <1>2, <1>3, <1>4, <1>5, <1>6, <1>7 DEF Lapses
<1> QED BY <1>1, <1>8

\* A part of a call that decides about the light, and nothing else.
Decides(z, s) ==
    /\ Sane(s.zone) /\ Frame(z, s.zone)
    /\ s.zone.cover = z.cover /\ Rooted(z, s.zone) /\ s.zone.belief = z.belief
    /\ Announces(z.policy.active, s.zone.policy.active, s.event)

\* A prediction ends, or nothing happens.
Expires(z, force, s) ==
    /\ Decides(z, s)
    /\ NotLate(z) => NotLate(s.zone)
    /\ \/ s.zone.policy = z.policy /\ s.event = NoEvent /\ ~Expirable(z.policy, z.at, force)
       \/ s.zone.policy.phase = "inactive" /\ s.zone.policy.pending = NoTime
          /\ s.event = "released" /\ Expirable(z.policy, z.at, force)

LEMMA Expiry ==
    ASSUME NEW z, Sane(z), NEW force PROVE Expires(z, force, ExpireDue(z, force))
<1> DEFINE o == ExpirePrediction(z.policy, z.at, force)
           y == [z EXCEPT !.policy = o.policy]
           s == ExpireDue(z, force)
<1>1. s.zone = y /\ s.event = o.event
  BY DEF ExpireDue, Step
<1>2. GoodPolicy(z.policy) /\ z.at \in Nat
  BY ZoneParts DEF Sane, Formed
<1>3. z.policy.evaluatedAt <= z.at
  BY DEF Sane, Formed
<1>4. /\ GoodPolicy(o.policy) /\ o.policy.evaluatedAt <= z.at
      /\ Announces(z.policy.active, o.policy.active, o.event)
      /\ \/ o.policy = z.policy /\ o.event = NoEvent /\ ~Expirable(z.policy, z.at, force)
         \/ o.policy.phase = "inactive" /\ o.policy.provenance = "none"
            /\ o.policy.pending = NoTime /\ o.event = "released"
            /\ Expirable(z.policy, z.at, force)
  BY <1>2, <1>3, PredictionExpired
<1> HIDE DEF o, s
<1>5. /\ y \in ZoneState /\ y.policy = o.policy /\ y.belief = z.belief
      /\ y.cover = z.cover /\ Rooted(z, y)
      /\ y.at = z.at /\ y.occupied = z.occupied /\ y.sensor = z.sensor
      /\ y.source = z.source /\ y.departs = z.departs /\ y.settled = z.settled
      /\ y.lease = z.lease
  BY <1>4, PolicyPut DEF Sane, Formed, GoodPolicy, FairPolicy
<1> HIDE DEF y
<1>6. y.policy.evaluatedAt <= y.at
  BY <1>4, <1>5
<1>7. Sane(y)
  BY <1>4, <1>5, <1>6 DEF Sane, Formed, HoldsStill
<1>8. NotLate(z) => NotLate(y)
  BY <1>4, <1>5 DEF NotLate
<1>9. Frame(z, y)
  BY <1>5 DEF Frame
<1>10. Decides(z, s)
  BY <1>1, <1>4, <1>5, <1>7, <1>9 DEF Decides
<1>11. Expires(z, force, s)
  BY <1>1, <1>4, <1>5, <1>8, <1>10 DEF Expires
<1> QED BY <1>11 DEF s

Told(i, v, a, r) == [i EXCEPT !.below = v, !.asserted = a, !.retained = r]

LEMMA ToldParts ==
    ASSUME NEW i \in InputType, NEW v \in Nat \cup {NoTime}, NEW a \in BOOLEAN, NEW r \in BOOLEAN
    PROVE  /\ Told(i, v, a, r) \in InputType /\ Told(i, v, a, r).below = v
           /\ Told(i, v, a, r).fact = i.fact /\ Told(i, v, a, r).observed = i.observed
BY DEF Told, InputType

LEMMA Judgments ==
    ASSUME NEW z, Sane(z) PROVE AssertedStay(z) \in BOOLEAN /\ RetainedZone(z) \in BOOLEAN
BY DEF AssertedStay, RetainedZone

\* The call has concluded: nothing late, no prediction without its lease.
Concludes(z, i, s) ==
    /\ Decides(z, s) /\ NotLate(s.zone) /\ LeaseOK(s.zone)
    /\ i.fact = "none" /\ z.policy.phase = "inactive" => s.zone.policy.phase = "inactive"

LEMMA LeasesLive ==
    ASSUME NEW z, Sane(z), NEW i \in InputType, z.policy.phase = "predicted",
           ~Expirable(z.policy, z.at, ~i.observed /\ z.lease # z.policy.expires)
    PROVE  z.at < z.policy.expires /\ (~i.observed => z.lease = z.policy.expires)
<1>1. z.at \in Nat /\ z.policy.expires \in Nat \cup {NoTime} /\ i.observed \in BOOLEAN
  BY ZoneParts, PolicyParts, InputParts DEF Sane, Formed
<1>2. ~(z.policy.expires <= z.at) /\ ~(~i.observed /\ z.lease # z.policy.expires)
  BY DEF Expirable
<1>3. z.at < z.policy.expires
  BY <1>1, <1>2, Constants
<1> QED BY <1>2, <1>3

LEMMA EvaluationEnds ==
    ASSUME NEW z, Sane(z), NEW i \in InputType, NEW b, GoodBelief(b), b.at <= z.at
    PROVE  Concludes(z, i, EvaluatePolicies(z, i, b))
<1> DEFINE v == CrossedAt(b, z.at)
           force == ~i.observed /\ z.lease # z.policy.expires
           due == ExpireDue(z, force)
           j == Told(i, v, AssertedStay(z), RetainedZone(z))
           e == Evaluated(z, j)
           s == EvaluatePolicies(z, i, b)
<1> SUFFICES Concludes(z, i, s)
  OBVIOUS
<1>1. s = IF due.event # NoEvent THEN due ELSE e
  BY DEF EvaluatePolicies, Told
<1>2. z.at \in Nat
  BY ZoneParts DEF Sane, Formed
<1>3. v \in Nat \cup {NoTime}
  BY <1>2, Crossing
<1>4. v <= z.at
  BY <1>2, Crossing
<1> HIDE DEF s, v
<1>5. /\ j \in InputType /\ j.below = v /\ j.fact = i.fact /\ j.observed = i.observed
  BY <1>3, Judgments, ToldParts
<1> HIDE DEF j
<1>6. GoodInput(j, z.at)
  BY <1>4, <1>5 DEF GoodInput
<1>7. /\ Decides(z, due)
      /\ \/ due.zone.policy = z.policy /\ due.event = NoEvent
            /\ ~Expirable(z.policy, z.at, force)
         \/ due.zone.policy.phase = "inactive" /\ due.zone.policy.pending = NoTime
            /\ due.event = "released" /\ Expirable(z.policy, z.at, force)
  BY Expiry DEF Expires
<1> HIDE DEF due
<1>8. CASE due.event # NoEvent
  <2>1. s = due /\ due.zone.policy.phase = "inactive" /\ due.zone.policy.pending = NoTime
    BY <1>1, <1>7, <1>8
  <2>2. NotLate(due.zone) /\ LeaseOK(due.zone)
    BY <2>1 DEF NotLate, LeaseOK
  <2> QED BY <1>7, <2>1, <2>2 DEF Concludes
<1>9. CASE due.event = NoEvent
  <2>1. s = e /\ ~Expirable(z.policy, z.at, force)
    BY <1>1, <1>7, <1>9 DEF NoEvent
  <2>2. z.policy.phase = "predicted" =>
            z.at < z.policy.expires /\ (~i.observed => z.lease = z.policy.expires)
    BY <2>1, LeasesLive
  <2>3. Evaluable(z.policy, z.belief)
    <3>1. z.belief.at = z.at /\ GoodPolicy(z.policy) /\ z.policy.expires \in Int
      BY PolicyParts, Constants DEF Sane, Formed, GoodPolicy, FairPolicy
    <3>2. z.policy.evaluatedAt <= z.belief.at
      BY DEF Sane, Formed
    <3>3. z.policy.phase = "predicted" => z.policy.expires > z.belief.at
      BY <1>2, <2>2, <3>1
    <3> QED BY <3>1, <3>2, <3>3 DEF Evaluable
  <2> DEFINE o == Evaluate(z.policy, z.belief, j)
  <2>4. /\ Sane(e.zone) /\ Frame(z, e.zone) /\ e.zone.cover = z.cover /\ Rooted(z, e.zone)
        /\ e.zone.belief = z.belief /\ e.zone.policy = o.policy /\ e.event = o.event
        /\ Evaluation(z.policy, z.belief, j, o)
    BY <1>6, <2>3, EvaluatedFormed DEF Sane
  <2> HIDE DEF o, e
  <2>5. Decides(z, e)
    BY <2>4 DEF Decides, Evaluation
  <2>6. NotLate(e.zone)
    BY <2>4, RunningIsNotLate DEF Evaluation, Sane
  <2>7. LeaseOK(e.zone)
    <3> SUFFICES ASSUME e.zone.policy.phase = "predicted"
                 PROVE  e.zone.lease = e.zone.policy.expires /\ e.zone.at < e.zone.lease
      BY DEF LeaseOK
    <3>1. /\ z.policy.phase = "predicted" /\ e.zone.policy.expires = z.policy.expires
          /\ ~j.observed
      BY <2>4 DEF Evaluation
    <3>2. z.at < z.policy.expires /\ z.lease = z.policy.expires
      BY <1>5, <2>2, <3>1
    <3>3. e.zone.at = z.at /\ e.zone.lease = z.lease
      BY <2>4 DEF Frame
    <3> QED BY <3>1, <3>2, <3>3
  <2>8. i.fact = "none" /\ z.policy.phase = "inactive" => e.zone.policy.phase = "inactive"
    <3> SUFFICES ASSUME i.fact = "none", z.policy.phase = "inactive"
                 PROVE  e.zone.policy.phase = "inactive"
      OBVIOUS
    <3>1. z.policy.active = FALSE
      BY PolicyParts DEF Sane, Formed, GoodPolicy, FairPolicy, PhaseOK
    <3>2. e.zone.policy.active = FALSE
      BY <1>5, <2>4, <3>1 DEF Evaluation
    <3> QED BY <2>4, <3>2, PolicyParts DEF Sane, Formed, GoodPolicy, FairPolicy, PhaseOK
  <2> QED BY <2>1, <2>5, <2>6, <2>7, <2>8 DEF Concludes
<1> QED BY <1>8, <1>9

\* An active policy has been evaluated.
Rules(z, s) ==
    /\ z.policy.phase = "active" /\ Decides(z, s) /\ NotLate(s.zone)
    /\ s.zone.policy.phase # "predicted"

LEMMA ActiveEvaluated ==
    ASSUME NEW z, Sane(z), z.policy.phase = "active", NEW i, GoodInput(i, z.at)
    PROVE  Rules(z, Evaluated(z, i))
<1> DEFINE o == Evaluate(z.policy, z.belief, i)
           s == Evaluated(z, i)
<1> SUFFICES Rules(z, s)
  OBVIOUS
<1>1. Evaluable(z.policy, z.belief)
  BY DEF Evaluable, Sane, Formed
<1>2. /\ Sane(s.zone) /\ Frame(z, s.zone) /\ s.zone.cover = z.cover /\ Rooted(z, s.zone)
      /\ s.zone.belief = z.belief /\ s.zone.policy = o.policy /\ s.event = o.event
      /\ Evaluation(z.policy, z.belief, i, o)
  BY <1>1, EvaluatedFormed DEF Sane
<1> HIDE DEF o, s
<1>3. Decides(z, s)
  BY <1>2 DEF Decides, Evaluation
<1>4. NotLate(s.zone)
  BY <1>2, RunningIsNotLate DEF Evaluation, Sane
<1>5. s.zone.policy.phase # "predicted"
  BY <1>2 DEF Evaluation
<1> QED BY <1>3, <1>4, <1>5 DEF Rules

LEMMA DueBelowBound ==
    ASSUME NEW z, Sane(z), NEW b, GoodBelief(b), b.at <= z.at
    PROVE  DueBelow(z, b) \in Nat \cup {NoTime} /\ DueBelow(z, b) <= z.at
<1> DEFINE n == z.at
           x == CrossedAt(b, z.at)
           k == Known(x, z.at)
           f == IF z.belief.displacedAt # NoTime \/ z.belief.resolvedAt # NoTime
                THEN ReleaseFrontier(z.belief)
                ELSE IF z.settled THEN z.belief.departedAt ELSE NoTime
<1>1. n \in Nat
  BY ZoneParts DEF Sane, Formed
<1>2. x \in Nat \cup {NoTime} /\ x <= n
  BY <1>1, Crossing
<1>3. f \in Nat \cup {NoTime} /\ f <= n
  <2>1. GoodBelief(z.belief) /\ z.belief.at = z.at
    BY DEF Sane, Formed
  <2>2. ReleaseFrontier(z.belief) \in Nat \cup {NoTime} /\ ReleaseFrontier(z.belief) <= n
    BY <2>1, Frontiers
  <2>3. z.belief.departedAt \in Nat \cup {NoTime}
    BY <2>1, BeliefParts DEF GoodBelief
  <2>4. z.belief.departedAt <= n
    BY <2>1, Frontiers
  <2> QED BY <1>1, <2>2, <2>3, <2>4, Constants
<1>4. DueBelow(z, b) \in {x, Later(k, f)}
  BY DEF DueBelow
<1>5. k = IF x = NoTime THEN n ELSE x
  BY DEF Known
<1> HIDE DEF n, x, k, f
<1>6. Later(k, f) \in Nat \cup {NoTime} /\ Later(k, f) <= n
  BY <1>1, <1>2, <1>3, <1>5 DEF Later
<1>7. DueBelow(z, b) \in Nat \cup {NoTime} /\ DueBelow(z, b) <= n
  BY <1>2, <1>4, <1>6
<1> QED BY <1>7 DEF n

LEMMA NoPendingNotLate ==
    ASSUME NEW z, z.policy.pending = NoTime PROVE NotLate(z)
BY DEF NotLate

\* What the engine asks of a policy before an input.
Judged(a, r) == [Unheard EXCEPT !.asserted = a, !.retained = r]
Low(v) == [Unheard EXCEPT !.below = v]

LEMMA JudgedParts ==
    ASSUME NEW a \in BOOLEAN, NEW r \in BOOLEAN
    PROVE  Judged(a, r) \in InputType /\ Judged(a, r).below = NoTime
BY Constants DEF Judged, Unheard, InputType

LEMMA LowParts ==
    ASSUME NEW v \in Nat \cup {NoTime}
    PROVE  Low(v) \in InputType /\ Low(v).below = v
BY Constants DEF Low, Unheard, InputType

\* A release that is due takes effect, and then nothing is late.
LEMMA ReleasedRules ==
    ASSUME NEW s, Sane(s.zone), NEW b, GoodBelief(b), b.at <= s.zone.at
    PROVE  \/ ReleasedAfter(s, b) = s /\ NotLate(s.zone)
           \/ \E x : ReleasedAfter(s, b) = Then(s, x) /\ Rules(s.zone, x)
<1> DEFINE z == s.zone
           p == z.policy
           v == DueBelow(z, b)
           since == Known(p.pending, v)
           retained == RetainedZone(z) /\ p.provenance = "evidence"
           i == Judged(AssertedStay(z), retained)
           j == Low(v)
           e == Evaluated(z, i)
           f == Evaluated(z, j)
           r == ReleasedAfter(s, b)
<1> SUFFICES \/ r = s /\ NotLate(z)
             \/ \E x : r = Then(s, x) /\ Rules(z, x)
  OBVIOUS
<1>3. r = IF p.phase # "active" THEN s
          ELSE IF retained \/ p.held
          THEN IF retained /\ ~p.held THEN Then(s, e) ELSE s
          ELSE IF AssertedStay(z)
          THEN IF p.pending # NoTime THEN Then(s, e) ELSE s
          ELSE IF z.belief.level > OffLevel \/ since = NoTime THEN s
          ELSE IF z.at < since + Dwell /\ ~(Progresses(z) /\ p.pending = NoTime) THEN s
          ELSE Then(s, f)
  BY DEF ReleasedAfter, Judged, Low
<1>4. z.at \in Nat /\ p.pending \in Nat \cup {NoTime} /\ p.held \in BOOLEAN
      /\ z.belief.level \in Nat /\ GoodPolicy(p) /\ z.belief.at = z.at
  BY ZoneParts, PolicyParts, BeliefParts, Constants DEF Sane, Formed
<1>5. v \in Nat \cup {NoTime}
  BY DueBelowBound
<1>6. v <= z.at
  BY DueBelowBound
<1>7. retained \in BOOLEAN /\ AssertedStay(z) \in BOOLEAN
  BY Judgments DEF Sane
<1> HIDE DEF r, v, retained
<1>9. i \in InputType /\ i.below = NoTime
  BY <1>7, JudgedParts
<1>10. j \in InputType /\ j.below = v
  BY <1>5, LowParts
<1> HIDE DEF i, j
<1>11. p.phase = "active" => Rules(z, e) /\ Rules(z, f)
  <2>1. NoTime <= z.at
    BY <1>4, Constants
  <2>2. GoodInput(i, z.at) /\ GoodInput(j, z.at)
    BY <1>6, <1>9, <1>10, <2>1 DEF GoodInput
  <2> QED BY <2>2, ActiveEvaluated
<1> HIDE DEF e, f
<1>12. p.phase # "active" \/ p.held => p.pending = NoTime
  BY <1>4 DEF GoodPolicy, FairPolicy, HeldOK
<1>13. z.belief.level > OffLevel => NotLate(z)
  <2>1. OffLevel \in Int
    BY Constants DEF BeliefLevels
  <2>2. z.belief.level > OffLevel => ~(z.belief.level <= OffLevel)
    BY <1>4, <2>1
  <2> QED BY <2>2 DEF NotLate
<1>14. p.pending = NoTime => NotLate(z)
  BY NoPendingNotLate
<1>15. since = NoTime => p.pending = NoTime
  BY DEF Known
<1>16. p.pending # NoTime /\ z.at < since + Dwell => NotLate(z)
  <2> SUFFICES ASSUME p.pending # NoTime, z.at < since + Dwell
               PROVE  z.at < PendingSince(p, z.belief) + Dwell
    BY DEF NotLate
  <2>1. since = p.pending /\ p.pending \in Nat
    BY <1>4 DEF Known
  <2>2. PendingSince(p, z.belief) = p.pending
        \/ PendingSince(p, z.belief) = Later(p.pending, ReleaseFrontier(z.belief))
    BY DEF PendingSince
  <2>3. ReleaseFrontier(z.belief) \in Nat \cup {NoTime}
    BY Frontiers DEF Sane, Formed
  <2>4. PendingSince(p, z.belief) \in Nat /\ p.pending <= PendingSince(p, z.belief)
    BY <2>1, <2>2, <2>3, Constants DEF Later
  <2> QED BY <1>4, <2>1, <2>4, Constants
<1>17. p.pending = NoTime \/ p.pending # NoTime
  OBVIOUS
<1> HIDE DEF since
<1>18. CASE p.phase # "active"
  BY <1>3, <1>12, <1>14, <1>18
<1>19. CASE p.phase = "active" /\ (retained \/ p.held)
  <2>1. CASE retained /\ ~p.held
    BY <1>3, <1>11, <1>19, <2>1
  <2>2. CASE p.held
    BY <1>3, <1>12, <1>14, <1>19, <2>2
  <2> QED BY <1>4, <1>19, <2>1, <2>2
<1>20. CASE p.phase = "active" /\ ~(retained \/ p.held) /\ AssertedStay(z)
  BY <1>3, <1>11, <1>14, <1>20
<1>21. CASE p.phase = "active" /\ ~(retained \/ p.held) /\ ~AssertedStay(z)
  <2>1. CASE z.belief.level > OffLevel \/ since = NoTime
    BY <1>3, <1>13, <1>14, <1>15, <1>21, <2>1
  <2>2. CASE /\ ~(z.belief.level > OffLevel \/ since = NoTime)
             /\ z.at < since + Dwell /\ ~(Progresses(z) /\ p.pending = NoTime)
    <3>1. r = s
      BY <1>3, <1>21, <2>2
    <3>2. NotLate(z)
      BY <1>14, <1>16, <2>2
    <3> QED BY <3>1, <3>2
  <2>3. CASE /\ ~(z.belief.level > OffLevel \/ since = NoTime)
             /\ ~(z.at < since + Dwell /\ ~(Progresses(z) /\ p.pending = NoTime))
    <3>1. r = Then(s, f)
      BY <1>3, <1>21, <2>3
    <3> QED BY <1>11, <1>21, <3>1
  <2> QED BY <2>1, <2>2, <2>3
<1> QED BY <1>18, <1>19, <1>20, <1>21

LEMMA DecidesKeeps ==
    ASSUME NEW z, NEW s, Decides(z, s)
    PROVE  /\ HoldOK(z) => HoldOK(s.zone)
           /\ ClearAhead(z) => ClearAhead(s.zone)
<1>1. s.zone.at = z.at /\ s.zone.occupied = z.occupied /\ s.zone.sensor = z.sensor
      /\ s.zone.source = z.source /\ s.zone.belief = z.belief
  BY DEF Decides, Frame
<1> DEFINE y == s.zone
<1>2. y.at = z.at /\ y.occupied = z.occupied /\ y.sensor = z.sensor
      /\ y.source = z.source /\ y.belief = z.belief
  BY <1>1
<1> HIDE DEF y
<1>3. HoldOK(z) => HoldOK(y)
  BY <1>2 DEF HoldOK, Witnessed
<1>4. ClearAhead(z) => ClearAhead(y)
  BY <1>2 DEF ClearAhead, ClearsAt
<1> QED BY <1>3, <1>4 DEF y

\* What was due has been done: all is settled, and no light went on.
Eases(z, s) ==
    /\ Settled(s.zone) /\ s.zone.at = z.at /\ s.zone.occupied = z.occupied
    /\ Announces(z.policy.active, s.zone.policy.active, s.event)
    /\ z.policy.active = FALSE => s.zone.policy.active = FALSE

LeaseKnown(z) == z.policy.phase = "predicted" => z.lease = z.policy.expires

LEMMA Phased ==
    ASSUME NEW z, Sane(z)
    PROVE  /\ z.policy.active = TRUE <=> z.policy.phase # "inactive"
           /\ z.policy.active = FALSE <=> z.policy.phase = "inactive"
           /\ z.policy.phase \in Phases
BY PolicyParts DEF Sane, Formed, GoodPolicy, FairPolicy, PhaseOK

LEMMA DueEased ==
    ASSUME NEW z, Sane(z), VacantOK(z), HoldOK(z), ClearAhead(z), LeaseKnown(z),
           NEW b, GoodBelief(b), b.at <= z.at
    PROVE  Eases(z, ReleaseDue(z, b))
<1> DEFINE y == LeaseLasts(z)
           d == ExpireDue(y, FALSE)
           r == ReleaseDue(z, b)
<1> SUFFICES Eases(z, r)
  OBVIOUS
<1>1. r = ReleasedAfter(d, b)
  BY DEF ReleaseDue
<1> HIDE DEF r
<1>2. Lapses(z, y)
  BY LeaseLapses
<1> HIDE DEF y
<1>3. Sane(y) /\ y.policy = z.policy /\ y.at = z.at /\ y.occupied = z.occupied
      /\ VacantOK(y) /\ HoldOK(y) /\ ClearAhead(y)
  BY <1>2 DEF Lapses
<1>4. Expires(y, FALSE, d)
  BY <1>3, Expiry
<1> HIDE DEF d
<1> DEFINE e == d.zone
<1>5. Decides(y, d) /\ Sane(e) /\ e.at = z.at /\ e.occupied = z.occupied /\ e.lease = y.lease
      /\ e.belief = y.belief /\ e.cover = y.cover
      /\ Announces(z.policy.active, e.policy.active, d.event)
  BY <1>3, <1>4 DEF Expires, Decides, Frame
<1>6. \/ e.policy = z.policy /\ d.event = NoEvent /\ ~Expirable(z.policy, z.at, FALSE)
      \/ e.policy.phase = "inactive" /\ e.policy.pending = NoTime
         /\ Expirable(z.policy, z.at, FALSE)
  BY <1>3, <1>4 DEF Expires
<1>7. HoldOK(e) /\ ClearAhead(e)
  BY <1>3, <1>5, DecidesKeeps
<1>8. VacantOK(e)
  BY <1>3, <1>5, <1>6 DEF VacantOK
<1>9. LeaseOK(e)
  <2> SUFFICES ASSUME e.policy.phase = "predicted"
               PROVE  e.lease = e.policy.expires /\ e.at < e.lease
    BY DEF LeaseOK
  <2>1. e.policy = z.policy /\ ~Expirable(z.policy, z.at, FALSE)
    BY <1>6
  <2>2. z.at \in Nat /\ z.policy.expires \in Int
    BY ZoneParts, PolicyParts, Constants DEF Sane, Formed
  <2>3. z.at < z.policy.expires
    BY <2>1, <2>2 DEF Expirable
  <2>4. z.lease = z.policy.expires
    BY <2>1 DEF LeaseKnown
  <2>5. y.lease = z.lease
    BY <1>2, <2>3, <2>4 DEF Lapses
  <2> QED BY <1>5, <2>1, <2>3, <2>4, <2>5
<1>10. z.policy.active = FALSE => e.policy.active = FALSE
  BY <1>5, <1>6, Phased
<1>11. CASE r = d /\ NotLate(e)
  BY <1>5, <1>7, <1>8, <1>9, <1>10, <1>11 DEF Eases, Settled
<1>12. ASSUME NEW x, r = Then(d, x), Rules(e, x) PROVE Eases(z, r)
  <2> DEFINE f == x.zone
  <2>1. e.policy.phase = "active" /\ Decides(e, x) /\ NotLate(f) /\ f.policy.phase # "predicted"
    BY <1>12 DEF Rules
  <2>2. e.policy = z.policy /\ d.event = NoEvent
    BY <1>6, <2>1
  <2>3. r.zone = f /\ r.event = x.event
    BY <1>12, <2>2 DEF Then, Step
  <2>4. Sane(f) /\ f.at = z.at /\ f.occupied = z.occupied
        /\ Announces(z.policy.active, f.policy.active, x.event)
    BY <1>5, <2>1, <2>2 DEF Decides, Frame
  <2>5. HoldOK(f) /\ ClearAhead(f)
    BY <1>7, <2>1, DecidesKeeps
  <2>6. e.occupied
    BY <1>8, <2>1 DEF VacantOK
  <2>7. VacantOK(f)
    BY <1>5, <2>4, <2>6 DEF VacantOK
  <2>8. LeaseOK(f)
    BY <2>1 DEF LeaseOK
  <2>9. z.policy.active = TRUE
    BY <2>1, <2>2, Phased
  <2> HIDE DEF f
  <2> QED BY <2>1, <2>3, <2>4, <2>5, <2>7, <2>8, <2>9 DEF Eases, Settled
<1>13. \/ r = d /\ NotLate(e)
       \/ \E x : r = Then(d, x) /\ Rules(e, x)
  <2>1. b.at <= d.zone.at
    BY <1>5
  <2> QED BY <1>1, <1>5, <2>1, ReleasedRules
<1> QED BY <1>11, <1>12, <1>13

-----------------------------------------------------------------------------
(* Deadlines. *)

\* A part of a call that neither decides about the light nor observes the zone.
Stands(z, y) ==
    /\ Sane(y) /\ Lit(z, y) /\ y.occupied = z.occupied /\ y.lease = z.lease
    /\ VacantOK(z) => VacantOK(y)

LEMMA StandsChain ==
    ASSUME NEW x, NEW y, NEW z, Stands(x, y), Stands(y, z) PROVE Stands(x, z)
<1>1. Lit(x, z)
  BY LitChain DEF Stands
<1> QED BY <1>1 DEF Stands

\* What makes a state of a zone sane after its sensor or belief have changed.
LEMMA Made ==
    ASSUME NEW z, Sane(z), NEW y \in ZoneState, y.at = z.at, y.policy = z.policy,
           GoodSensor(y.sensor, y.at), GoodBelief(y.belief), y.belief.at = z.at,
           y.belief.hold = z.belief.hold, y.belief.generation \in {NoTime, y.sensor.start}
    PROVE  Sane(y)
BY DEF Sane, Formed, HoldsStill

Elapses(z, y, t) ==
    /\ Stands(z, y) /\ y.at = t /\ y.sensor = z.sensor
    /\ HoldOK(z) => HoldOK(y)

LEMMA Elapse ==
    ASSUME NEW z, Sane(z), NEW t \in Nat, z.at <= t PROVE Elapses(z, At(z, t), t)
<1> DEFINE b == AdvanceTo(z.belief, t)
           y == [z EXCEPT !.at = t, !.belief = b]
<1>1. z \in ZoneState /\ GoodBelief(z.belief) /\ z.belief.at = z.at
  BY DEF Sane, Formed
<1>2. z.belief.at <= t
  BY <1>1
<1>3. GoodBelief(b) /\ b.at = t /\ b.hold = z.belief.hold /\ b.generation = z.belief.generation
  BY <1>1, <1>2, Advanced
<1> HIDE DEF b
<1>4. /\ y \in ZoneState /\ y.at = t /\ y.belief = b /\ y.policy = z.policy
      /\ y.cover = z.cover /\ y.occupied = z.occupied /\ y.sensor = z.sensor
      /\ y.source = z.source /\ y.lease = z.lease
  BY <1>1, <1>3 DEF ZoneState, GoodBelief
<1> HIDE DEF y
<1>5. GoodSensor(y.sensor, y.at)
  <2>1. z.sensor.start \in Int /\ z.sensor.clearedAt \in Int /\ z.at \in Nat
    BY <1>1, ZoneParts, SensorParts, Constants
  <2>2. z.sensor.start <= z.at /\ z.sensor.clearedAt <= z.at
    BY DEF Sane, Formed, GoodSensor
  <2>3. z.sensor.start <= t /\ z.sensor.clearedAt <= t
    BY <2>1, <2>2
  <2>4. GoodSensor(z.sensor, t)
    BY <2>3 DEF Sane, Formed, GoodSensor
  <2> QED BY <1>4, <2>4
<1>6. y.policy.evaluatedAt <= y.at
  <2>1. z.policy.evaluatedAt <= z.at
    BY DEF Sane, Formed
  <2>2. z.policy.evaluatedAt \in Nat /\ z.at \in Nat
    BY <1>1, ZoneParts, PolicyParts
  <2>3. z.policy.evaluatedAt <= t
    BY <2>1, <2>2
  <2> QED BY <1>4, <2>3
<1>7. Sane(y)
  BY <1>3, <1>4, <1>5, <1>6 DEF Sane, Formed, HoldsStill
<1>8. Lit(z, y)
  BY <1>4 DEF Lit
<1>9. VacantOK(z) => VacantOK(y)
  BY <1>3, <1>4 DEF VacantOK
<1>10. HoldOK(z) => HoldOK(y)
  BY <1>3, <1>4 DEF HoldOK, Witnessed
<1>11. Elapses(z, y, t)
  BY <1>4, <1>7, <1>8, <1>9, <1>10 DEF Elapses, Stands
<1> QED BY <1>11 DEF At, y, b

LEMMA ReconcilesStands ==
    ASSUME NEW z, NEW y, Reconciles(z, y)
    PROVE  /\ Stands(z, y) /\ y.at = z.at /\ y.sensor = z.sensor
           /\ HoldOK(z) => HoldOK(y)
<1>1. Stands(z, y) /\ y.at = z.at /\ y.sensor = z.sensor
  BY DEF Reconciles, Stands, Frame
<1>2. HoldOK(z) => HoldOK(y)
  BY DEF Reconciles, Frame, HoldOK, Witnessed
<1> QED BY <1>1, <1>2

LEMMA ReholdsStands ==
    ASSUME NEW z, NEW y, Reholds(z, y)
    PROVE  Stands(z, y) /\ y.at = z.at /\ y.sensor = z.sensor /\ HoldOK(y)
BY DEF Reholds, Stands, Frame

\* The stable clear of an episode, at the time of the zone.
LEMMA ClearStands ==
    ASSUME NEW z, Sane(z), z.sensor.status = "clearing"
    PROVE  LET y == StableClearEffect(z)
           IN  Stands(z, y) /\ y.at = z.at /\ y.sensor.status = "clear"
<1> DEFINE s == [z.sensor EXCEPT !.status = "clear", !.clearedAt = NoTime]
           b == IF z.belief.generation = s.start THEN ApplyStableClear(z.belief, z.at)
                ELSE z.belief
           left == /\ Stay /\ b.context \in Cleared /\ b.generation # NoTime
                   /\ z.departs > z.at
           c == IF left THEN RegisterOutward(b, z.departs, TRUE) ELSE b
           u == [z EXCEPT !.sensor = s]
           v == [z EXCEPT !.sensor = s, !.belief = c]
           y == StableClearEffect(z)
<1>1. y = IF ~z.occupied THEN u ELSE v
  BY DEF StableClearEffect
<1>2. z \in ZoneState /\ GoodBelief(z.belief) /\ z.belief.at = z.at /\ z.at \in Nat
      /\ z.sensor.start # NoTime /\ z.belief.generation \in {NoTime, z.sensor.start}
  BY ZoneParts DEF Sane, Formed, GoodSensor
<1>3. s \in SensorType /\ s.start = z.sensor.start /\ s.status = "clear" /\ s.clearedAt = NoTime
  BY <1>2, ZoneParts DEF SensorType, Statuses
<1> HIDE DEF s, y
<1>4. GoodSensor(s, z.at)
  <2>1. s.start <= z.at /\ s.clearedAt <= z.at
    BY <1>2, <1>3, Constants DEF Sane, Formed, GoodSensor
  <2> QED BY <1>2, <1>3, <2>1 DEF GoodSensor
<1>5. GoodBelief(b) /\ Same(z.belief, b)
  <2>1. CASE z.belief.generation = s.start
    <3>1. z.belief.generation # NoTime
      BY <1>2, <1>3, <2>1
    <3>2. GoodBelief(ApplyStableClear(z.belief, z.belief.at))
          /\ Same(z.belief, ApplyStableClear(z.belief, z.belief.at))
      BY <1>2, <3>1, StablyCleared
    <3> QED BY <1>2, <2>1, <3>2
  <2>2. CASE z.belief.generation # s.start
    BY <1>2, <2>2 DEF Same
  <2> QED BY <2>1, <2>2
<1> HIDE DEF b
<1>6. GoodBelief(c) /\ Same(b, c)
  <2>1. CASE left
    <3>1. z.departs \in Nat
      BY <1>2, <2>1, ZoneParts, Constants
    <3>2. b.generation # NoTime
      BY <2>1
    <3>3. LET d == RegisterOutward(b, z.departs, TRUE) IN GoodBelief(d) /\ Same(b, d)
      BY <1>5, <3>1, <3>2, OutwardRegistered
    <3> QED BY <2>1, <3>3
  <2>2. CASE ~left
    BY <1>5, <2>2 DEF Same
  <2> QED BY <2>1, <2>2
<1>7. c.at = z.at /\ c.hold = z.belief.hold /\ c.generation = z.belief.generation
  BY <1>2, <1>5, <1>6 DEF Same
<1> HIDE DEF c
<1>8. /\ u \in ZoneState /\ u.at = z.at /\ u.sensor = s /\ u.belief = z.belief
      /\ u.policy = z.policy /\ u.occupied = z.occupied /\ u.lease = z.lease /\ u.cover = z.cover
  BY <1>2, <1>3 DEF ZoneState
<1>9. /\ v \in ZoneState /\ v.at = z.at /\ v.sensor = s /\ v.belief = c
      /\ v.policy = z.policy /\ v.occupied = z.occupied /\ v.lease = z.lease /\ v.cover = z.cover
  BY <1>2, <1>3, <1>6 DEF ZoneState, GoodBelief
<1> HIDE DEF u, v
<1>10. Sane(u) /\ Sane(v)
  <2>1. Sane(u)
    BY <1>2, <1>3, <1>4, <1>8, Made
  <2>2. Sane(v)
    BY <1>2, <1>3, <1>4, <1>6, <1>7, <1>9, Made
  <2> QED BY <2>1, <2>2
<1>11. Stands(z, u)
  BY <1>8, <1>10 DEF Stands, Lit, VacantOK
<1>12. Stands(z, v)
  BY <1>7, <1>9, <1>10 DEF Stands, Lit, VacantOK
<1>13. Stands(z, y) /\ y.at = z.at /\ y.sensor.status = "clear"
  BY <1>1, <1>3, <1>8, <1>9, <1>11, <1>12
<1> QED BY <1>13 DEF y

\* A belief kept for the evaluation that ends the call.
GoodKept(k, t) == k = Nothing \/ (GoodBelief(k) /\ k.at <= t)

LEMMA KeptIs ==
    ASSUME NEW k, NEW t, GoodKept(k, t), NEW b, GoodBelief(b), b.at <= t
    PROVE  GoodBelief(KeptOr(k, b)) /\ KeptOr(k, b).at <= t
BY DEF GoodKept, KeptOr, IsKept

\* The deadline of the zone has been consumed, if it was due.
Effects(z, e, t) ==
    /\ Stands(z, e.zone) /\ HoldOK(e.zone) /\ e.zone.at <= t
    /\ e.zone.sensor.status = "clearing" => t < ClearsAt(e.zone)
    /\ GoodKept(e.kept, e.zone.at)

LEMMA EffectsDone ==
    ASSUME NEW z, Sane(z), HoldOK(z), ClearAhead(z), NEW t \in Nat, z.at <= t
    PROVE  Effects(z, EpisodeEffects(z, t), t)
<1> DEFINE n == ClearsAt(z)
           a == At(z, n)
           b == StableClearEffect(a)
           c == Reconciled(b)
           h == ReconcileHold(c)
           k == Consumed(c).kept
           e == EpisodeEffects(z, t)
<1> SUFFICES Effects(z, e, t)
  OBVIOUS
<1>1. z.at \in Nat /\ z.sensor.clearedAt \in Nat \cup {NoTime}
  BY ZoneParts, SensorParts DEF Sane, Formed
<1>2. CASE ClearDue(z, t)
  <2>1. e.zone = h /\ e.kept = k
    BY <1>2 DEF EpisodeEffects, Consumed
  <2>2. z.sensor.status = "clearing" /\ n <= t
    BY <1>2 DEF ClearDue
  <2>3. n \in Nat /\ z.at <= n
    <3>1. z.sensor.clearedAt # NoTime /\ z.at < n
      BY <2>2 DEF Sane, Formed, GoodSensor, ClearAhead
    <3>2. n \in Int
      BY <1>1, Constants DEF ClearsAt
    <3> HIDE DEF n
    <3> QED BY <1>1, <3>1, <3>2
  <2> HIDE DEF n, e
  <2>4. Elapses(z, a, n)
    BY <2>3, Elapse
  <2> HIDE DEF a
  <2>5. Stands(z, a) /\ a.at = n /\ a.sensor = z.sensor /\ Sane(a)
    BY <2>4 DEF Elapses, Stands
  <2>6. a.sensor.status = "clearing"
    BY <2>2, <2>5
  <2>7. Stands(a, b) /\ b.at = n /\ b.sensor.status = "clear" /\ Sane(b)
    BY <2>5, <2>6, ClearStands DEF Stands
  <2> HIDE DEF b
  <2>8. Reconciles(b, c)
    BY <2>7, BranchEnds
  <2> HIDE DEF c
  <2>9. Stands(b, c) /\ c.at = n /\ c.sensor = b.sensor /\ Sane(c)
    BY <2>7, <2>8, ReconcilesStands DEF Stands
  <2>10. Reholds(c, h)
    BY <2>9, HoldFollows
  <2>11. k \in {Nothing, c.belief, h.belief}
    BY DEF Consumed, LossOr
  <2> HIDE DEF h, k
  <2>12. Stands(c, h) /\ h.at = n /\ h.sensor = b.sensor /\ HoldOK(h) /\ Sane(h)
    BY <2>9, <2>10, ReholdsStands DEF Stands
  <2>13. Stands(z, h)
    <3>1. Stands(z, b)
      BY <2>5, <2>7, StandsChain
    <3>2. Stands(z, c)
      BY <2>9, <3>1, StandsChain
    <3> QED BY <2>12, <3>2, StandsChain
  <2>14. GoodKept(k, n)
    <3>1. GoodBelief(c.belief) /\ c.belief.at = n /\ GoodBelief(h.belief) /\ h.belief.at = n
      BY <2>9, <2>12 DEF Sane, Formed
    <3>2. n <= n
      BY <2>3
    <3>3. c.belief.at <= n /\ h.belief.at <= n
      BY <3>1, <3>2
    <3> QED BY <2>11, <3>1, <3>3 DEF GoodKept
  <2> DEFINE x == e.zone
  <2>15. x = h /\ e.kept = k
    BY <2>1
  <2>16. h.sensor.status # "clearing"
    BY <2>7, <2>12
  <2> HIDE DEF x
  <2>17. Stands(z, x) /\ HoldOK(x) /\ x.at = n /\ x.sensor.status # "clearing"
    BY <2>12, <2>13, <2>15, <2>16
  <2>18. x.at <= t
    BY <2>2, <2>17
  <2>19. GoodKept(e.kept, x.at)
    BY <2>14, <2>15, <2>17
  <2> QED BY <2>17, <2>18, <2>19 DEF Effects, x
<1>3. CASE ~ClearDue(z, t)
  <2>1. e.zone = z /\ e.kept = Nothing
    BY <1>3 DEF EpisodeEffects
  <2> HIDE DEF e
  <2>2. z.sensor.status = "clearing" => t < ClearsAt(z)
    BY <1>1, <1>3, Constants DEF ClearDue, ClearsAt
  <2>3. Stands(z, z)
    BY DEF Stands, Lit
  <2> QED BY <2>1, <2>2, <2>3 DEF Effects, GoodKept
<1> QED BY <1>2, <1>3

\* The zone at time t, with what was due done, and the path it is on.
LEMMA Arrives ==
    ASSUME NEW z, Sane(z), VacantOK(z), LeaseOK(z), NEW t \in Nat, NEW e, Effects(z, e, t)
    PROVE  LET y == Reconciled(At(e.zone, t))
           IN  /\ Stands(z, y) /\ y.at = t /\ Sane(y) /\ VacantOK(y) /\ HoldOK(y)
               /\ ClearAhead(y) /\ LeaseKnown(y)
<1> DEFINE x == e.zone
           a == At(x, t)
           y == Reconciled(a)
<1>1. Stands(z, x) /\ HoldOK(x) /\ Sane(x) /\ x.at <= t
      /\ (x.sensor.status = "clearing" => t < ClearsAt(x))
  BY DEF Effects, Stands
<1> HIDE DEF x
<1>2. Elapses(x, a, t)
  BY <1>1, Elapse
<1> HIDE DEF a
<1>3. Stands(x, a) /\ a.at = t /\ a.sensor = x.sensor /\ Sane(a) /\ HoldOK(a)
  BY <1>1, <1>2 DEF Elapses, Stands
<1>4. Reconciles(a, y)
  BY <1>3, BranchEnds
<1> HIDE DEF y
<1>5. Stands(a, y) /\ y.at = t /\ y.sensor = x.sensor /\ HoldOK(y) /\ Sane(y)
  BY <1>3, <1>4, ReconcilesStands DEF Stands
<1>6. Stands(z, y)
  BY <1>1, <1>3, <1>5, StandsChain
<1>7. VacantOK(y)
  BY <1>6 DEF Stands
<1>8. ClearAhead(y)
  BY <1>1, <1>5 DEF ClearAhead, ClearsAt
<1>9. LeaseKnown(y)
  BY <1>6 DEF Stands, Lit, LeaseOK, LeaseKnown
<1>10. y = Reconciled(At(e.zone, t))
  BY DEF y, a, x
<1> QED BY <1>5, <1>6, <1>7, <1>8, <1>9, <1>10

\* Ready for the input at time t.
Readies(z, t, pre) ==
    /\ Settled(pre.step.zone) /\ pre.step.zone.at = t /\ pre.step.zone.occupied = z.occupied
    /\ Announces(z.policy.active, pre.step.zone.policy.active, pre.step.event)
    /\ z.policy.active = FALSE => pre.step.zone.policy.active = FALSE
    /\ GoodKept(pre.retained, t)

LEMMA BeforeReady ==
    ASSUME NEW z, Settled(z), NEW t \in Nat, z.at <= t PROVE Readies(z, t, Pre(z, t))
<1> DEFINE e == EpisodeEffects(z, t)
           y == Reconciled(At(e.zone, t))
           k == KeptOr(e.kept, z.belief)
           s == ReleaseDue(y, k)
           r == KeptOr(e.kept, IF e.zone.policy.held THEN e.zone.belief ELSE Nothing)
           pre == Pre(z, t)
<1>1. pre.step = s /\ pre.retained = r
  BY DEF Pre, BeforeInput
<1> HIDE DEF pre
<1>2. Sane(z) /\ VacantOK(z) /\ HoldOK(z) /\ ClearAhead(z) /\ LeaseOK(z)
  BY DEF Settled
<1>3. Effects(z, e, t)
  BY <1>2, EffectsDone
<1> HIDE DEF e
<1>4. /\ Stands(z, y) /\ y.at = t /\ Sane(y) /\ VacantOK(y) /\ HoldOK(y)
      /\ ClearAhead(y) /\ LeaseKnown(y)
  BY <1>2, <1>3, Arrives
<1> HIDE DEF y
<1>5. GoodKept(e.kept, e.zone.at) /\ e.zone.at <= t /\ Sane(e.zone)
  BY <1>3 DEF Effects, Stands
<1>6. GoodKept(e.kept, t)
  <2>1. CASE e.kept = Nothing
    BY <2>1 DEF GoodKept
  <2>2. CASE GoodBelief(e.kept) /\ e.kept.at <= e.zone.at
    <3>1. e.kept.at \in Nat /\ e.zone.at \in Nat
      BY <1>5, <2>2, BeliefParts, ZoneParts DEF GoodBelief, Sane, Formed
    <3>2. e.kept.at <= t
      BY <1>5, <2>2, <3>1
    <3> QED BY <2>2, <3>2 DEF GoodKept
  <2> QED BY <1>5, <2>1, <2>2 DEF GoodKept
<1>7. GoodBelief(z.belief) /\ z.belief.at = z.at
  BY <1>2 DEF Sane, Formed
<1>8. z.belief.at <= t
  BY <1>7
<1>9. GoodBelief(k) /\ k.at <= t
  BY <1>6, <1>7, <1>8, KeptIs
<1> HIDE DEF k
<1>10. Eases(y, s)
  <2>1. k.at <= y.at
    BY <1>4, <1>9
  <2> QED BY <1>4, <1>9, <2>1, DueEased
<1> HIDE DEF s
<1>11. GoodKept(r, t)
  <2>1. r \in {e.kept, Nothing, e.zone.belief}
    BY DEF KeptOr
  <2>2. GoodBelief(e.zone.belief) /\ e.zone.belief.at = e.zone.at
    BY <1>5 DEF Sane, Formed
  <2>3. e.zone.belief.at <= t
    BY <1>5, <2>2
  <2> HIDE DEF r
  <2> QED BY <1>6, <2>1, <2>2, <2>3 DEF GoodKept
<1> HIDE DEF r
<1>12. y.occupied = z.occupied /\ y.policy.active = z.policy.active
  BY <1>4 DEF Stands, Lit
<1>13. Readies(z, t, pre)
  BY <1>1, <1>4, <1>10, <1>11, <1>12 DEF Readies, Eases
<1> QED BY <1>13 DEF pre

-----------------------------------------------------------------------------
(* What an evaluation leaves for the next one. *)

LEMMA UnheardIs == Unheard \in InputType /\ Unheard.fact = "none"
BY Constants DEF Unheard, InputType

\* Left alone, a belief that is low stays low.
Sinks == \A c \in Contexts : Baseline[c] <= OffLevel

Sinking(z) ==
    \/ Sinks
    \/ z.belief.displacedAt # NoTime /\ Baseline["cleared_with_outward"] <= OffLevel

\* What the next evaluation reads of the last one is true of the zone now.
Retentive(z) == z.policy.provenance = "evidence" => z.policy.held = RetainedZone(z)

PendingLow(z) ==
    z.policy.provenance = "evidence" /\ z.policy.pending # NoTime /\ Sinking(z) =>
        z.belief.level <= OffLevel

\* The zone was last observed when it was activated, or later.
Fresh(z) ==
    /\ ~Stay => z.belief.latest = NoTime
    /\ z.policy.provenance = "evidence" /\ z.belief.latest # NoTime =>
          z.policy.activatedAt <= z.belief.latest

Steady(z) == Retentive(z) /\ PendingLow(z) /\ Fresh(z)

\* A part of a call without evidence: no observation, no activation.
Follows(z, y) ==
    /\ y.belief.latest = z.belief.latest
    /\ y.policy.provenance = "evidence" =>
          z.policy.provenance = "evidence" /\ y.policy.activatedAt = z.policy.activatedAt

LEMMA FollowsChain ==
    ASSUME NEW x, NEW y, NEW z, Follows(x, y), Follows(y, z) PROVE Follows(x, z)
BY DEF Follows

LEMMA FollowsFresh ==
    ASSUME NEW z, NEW y, Fresh(z), Follows(z, y) PROVE Fresh(y)
BY DEF Follows, Fresh

LEMMA SameFollows ==
    ASSUME NEW z, NEW y, y.policy = z.policy, y.belief.latest = z.belief.latest
    PROVE  Follows(z, y)
BY DEF Follows

\* The input tells what retains the zone.
Judges(z, i) ==
    /\ z.policy.provenance = "evidence" =>
          RetainedFor(z.policy, z.belief, i) = RetainedZone(z)
    /\ z.policy.provenance # "evidence" /\ i.fact # "none" =>
          i.retained = (z.cover # "none")

LEMMA ToldJudges ==
    ASSUME NEW z, NEW i, i.retained = RetainedZone(z) PROVE Judges(z, i)
BY DEF Judges, RetainedFor, RetainedZone

LEMMA EvaluatedSteady ==
    ASSUME NEW z, Formed(z), Evaluable(z.policy, z.belief), NEW i, GoodInput(i, z.at),
           Judges(z, i)
    PROVE  LET y == Evaluated(z, i).zone
           IN  /\ Retentive(y) /\ PendingLow(y)
               /\ i.fact = "none" => Follows(z, y)
<1> DEFINE q == Evaluate(z.policy, z.belief, i).policy
           y == Evaluated(z, i).zone
<1>1. y.cover = z.cover /\ y.belief = z.belief /\ y.policy = q
  BY EvaluatedFormed
<1>2. Holds(z.policy, z.belief, i, q)
  BY EvaluateHolds DEF Formed
<1> HIDE DEF y, q
<1>3. q.provenance = "evidence" =>
          /\ q.held = (RetainedFor(z.policy, z.belief, i) \/ Retains(z.belief, q.activatedAt))
          /\ q.pending # NoTime => z.belief.level <= OffLevel
          /\ \/ z.policy.provenance = "evidence" /\ q.activatedAt = z.policy.activatedAt
             \/ i.fact # "none" /\ z.policy.provenance # "evidence"
  BY <1>2 DEF Holds
<1>4. Retentive(y)
  <2> SUFFICES ASSUME q.provenance = "evidence" PROVE q.held = RetainedZone(y)
    BY <1>1 DEF Retentive
  <2>1. RetainedZone(y) = (z.cover # "none" \/ Retains(z.belief, q.activatedAt))
    BY <1>1 DEF RetainedZone
  <2>2. CASE z.policy.provenance = "evidence" /\ q.activatedAt = z.policy.activatedAt
    <3>1. RetainedFor(z.policy, z.belief, i)
              = (z.cover # "none" \/ Retains(z.belief, q.activatedAt))
      BY <2>2 DEF Judges, RetainedZone
    <3> QED BY <1>3, <2>1, <3>1
  <2>3. CASE i.fact # "none" /\ z.policy.provenance # "evidence"
    <3>1. RetainedFor(z.policy, z.belief, i) = (z.cover # "none")
      BY <2>3 DEF Judges, RetainedFor
    <3> QED BY <1>3, <2>1, <3>1
  <2> QED BY <1>3, <2>2, <2>3
<1>5. PendingLow(y)
  BY <1>1, <1>3 DEF PendingLow
<1>6. i.fact = "none" => Follows(z, y)
  BY <1>1, <1>3 DEF Follows
<1> QED BY <1>4, <1>5, <1>6 DEF y

\* A policy without evidence has nothing to keep.
LEMMA UnheldSteady ==
    ASSUME NEW y, y.policy.provenance # "evidence" PROVE Retentive(y) /\ PendingLow(y)
BY DEF Retentive, PendingLow

LEMMA SameSteady ==
    ASSUME NEW z, Steady(z), NEW y, y.cover = z.cover, y.belief = z.belief,
           y.policy = z.policy
    PROVE  Steady(y)
BY DEF Steady, Retentive, PendingLow, Fresh, Sinking, RetainedZone

LEMMA ExpirySteady ==
    ASSUME NEW z, Sane(z), NEW force
    PROVE  LET y == ExpireDue(z, force).zone
           IN  Follows(z, y) /\ (Steady(z) => Steady(y))
<1> DEFINE s == ExpireDue(z, force)
           y == s.zone
<1> SUFFICES Follows(z, y) /\ (Steady(z) => Steady(y))
  OBVIOUS
<1>1. Expires(z, force, s)
  BY Expiry
<1> HIDE DEF s
<1>2. y.cover = z.cover /\ y.belief = z.belief
      /\ (y.policy = z.policy \/ y.policy.phase = "inactive") /\ Sane(y)
  BY <1>1 DEF Expires, Decides
<1> HIDE DEF y
<1>3. CASE y.policy = z.policy
  BY <1>2, <1>3, SameSteady, SameFollows
<1>4. CASE y.policy.phase = "inactive"
  <2>1. y.policy.provenance # "evidence"
    BY <1>2, <1>4, PolicyParts DEF Sane, Formed, GoodPolicy, FairPolicy, PhaseOK
  <2>2. Follows(z, y)
    BY <1>2, <2>1 DEF Follows
  <2> QED BY <2>1, <2>2, UnheldSteady, FollowsFresh DEF Steady
<1> QED BY <1>2, <1>3, <1>4

\* The evaluation that ends a call.
Closes(z, i, y) ==
    /\ Retentive(y) /\ PendingLow(y) /\ y.cover = z.cover /\ Rooted(z, y)
    /\ y.sensor = z.sensor /\ y.source = z.source /\ y.belief = z.belief /\ y.at = z.at /\ Sane(y)
    /\ i.fact = "none" => Follows(z, y)

LEMMA EvaluationCloses ==
    ASSUME NEW z, Sane(z), NEW i \in InputType, NEW b, GoodBelief(b), b.at <= z.at
    PROVE  Closes(z, i, EvaluatePolicies(z, i, b).zone)
<1> DEFINE v == CrossedAt(b, z.at)
           force == ~i.observed /\ z.lease # z.policy.expires
           due == ExpireDue(z, force)
           j == Told(i, v, AssertedStay(z), RetainedZone(z))
           e == Evaluated(z, j)
           s == EvaluatePolicies(z, i, b)
           y == s.zone
<1> SUFFICES Closes(z, i, y)
  OBVIOUS
<1>1. s = IF due.event # NoEvent THEN due ELSE e
  BY DEF EvaluatePolicies, Told
<1>2. z.at \in Nat
  BY ZoneParts DEF Sane, Formed
<1>3. v \in Nat \cup {NoTime} /\ v <= z.at
  <2>1. v \in Nat \cup {NoTime}
    BY <1>2, Crossing
  <2>2. v <= z.at
    BY <1>2, Crossing
  <2> QED BY <2>1, <2>2
<1>4. Concludes(z, i, s)
  BY EvaluationEnds
<1> HIDE DEF s, v
<1>5. /\ y.cover = z.cover /\ Rooted(z, y) /\ y.sensor = z.sensor /\ y.source = z.source
      /\ y.belief = z.belief /\ Sane(y) /\ y.at = z.at
  BY <1>4 DEF Concludes, Decides, Frame
<1>6. /\ j \in InputType /\ j.below = v /\ j.fact = i.fact
  BY <1>3, Judgments, ToldParts
<1>7. j.retained = RetainedZone(z)
  BY DEF Told, InputType
<1> HIDE DEF j
<1>8. GoodInput(j, z.at)
  BY <1>3, <1>6 DEF GoodInput
<1>9. Expires(z, force, due)
  BY Expiry
<1>10. CASE due.event # NoEvent
  <2>1. s = due
    BY <1>1, <1>10
  <2>2. Follows(z, due.zone)
    BY ExpirySteady
  <2> HIDE DEF due, y
  <2>3. y = due.zone
    BY <2>1 DEF y
  <2>4. due.zone.policy.phase = "inactive"
    BY <1>9, <1>10 DEF Expires
  <2>5. y.policy.provenance # "evidence"
    BY <1>5, <2>3, <2>4, PolicyParts DEF Sane, Formed, GoodPolicy, FairPolicy, PhaseOK
  <2>6. Retentive(y) /\ PendingLow(y)
    BY <2>5, UnheldSteady
  <2> QED BY <1>5, <2>2, <2>3, <2>6 DEF Closes
<1>11. CASE due.event = NoEvent
  <2> HIDE DEF due
  <2>1. s = e /\ ~Expirable(z.policy, z.at, force)
    BY <1>1, <1>9, <1>11 DEF Expires, NoEvent
  <2>2. z.policy.phase = "predicted" => z.at < z.policy.expires
    BY <2>1, LeasesLive
  <2>3. Evaluable(z.policy, z.belief)
    <3>1. z.belief.at = z.at /\ GoodPolicy(z.policy) /\ z.policy.expires \in Int
      BY PolicyParts, Constants DEF Sane, Formed, GoodPolicy, FairPolicy
    <3>2. z.policy.evaluatedAt <= z.belief.at
      BY DEF Sane, Formed
    <3>3. z.policy.phase = "predicted" => z.policy.expires > z.belief.at
      BY <1>2, <2>2, <3>1
    <3> QED BY <3>1, <3>2, <3>3 DEF Evaluable
  <2>4. Judges(z, j)
    BY <1>7, ToldJudges
  <2>5. /\ Retentive(e.zone) /\ PendingLow(e.zone)
        /\ j.fact = "none" => Follows(z, e.zone)
    BY <1>8, <2>3, <2>4, EvaluatedSteady DEF Sane
  <2>6. y = e.zone
    BY <2>1
  <2> HIDE DEF y, e
  <2> QED BY <1>5, <1>6, <2>5, <2>6 DEF Closes
<1> QED BY <1>10, <1>11

LEMMA BeliefSteady ==
    ASSUME NEW z, Steady(z), NEW y, y.policy = z.policy, y.cover = z.cover,
           y.belief.latest = z.belief.latest, y.belief.resolvedAt = z.belief.resolvedAt,
           PendingLow(y)
    PROVE  Steady(y)
<1>1. RetainedZone(y) = RetainedZone(z)
  BY DEF RetainedZone, Retains, Unresolved
<1> QED BY <1>1 DEF Steady, Retentive, Fresh

\* A part of a call that neither hears of the zone nor disturbs what was kept.
Undisturbed(z, y) == Follows(z, y) /\ (Steady(z) => Steady(y))

LEMMA UndisturbedChain ==
    ASSUME NEW x, NEW y, NEW z, Undisturbed(x, y), Undisturbed(y, z) PROVE Undisturbed(x, z)
BY FollowsChain DEF Undisturbed

LEMMA SameUndisturbed ==
    ASSUME NEW z, NEW y, y.policy = z.policy, y.belief = z.belief, y.cover = z.cover
    PROVE  Undisturbed(z, y)
BY SameFollows, SameSteady DEF Undisturbed

\* An evaluation that is told what retains the zone.
LEMMA EvaluatedUndisturbed ==
    ASSUME NEW z, Formed(z), z.policy.phase = "active", NEW i, GoodInput(i, z.at),
           i.fact = "none", Judges(z, i)
    PROVE  Undisturbed(z, Evaluated(z, i).zone)
<1> DEFINE y == Evaluated(z, i).zone
<1>1. Evaluable(z.policy, z.belief)
  BY DEF Evaluable, Formed
<1>2. Retentive(y) /\ PendingLow(y) /\ Follows(z, y)
  BY <1>1, EvaluatedSteady
<1> HIDE DEF y
<1>3. Steady(z) => Steady(y)
  BY <1>2, FollowsFresh DEF Steady
<1>4. Undisturbed(z, y)
  BY <1>2, <1>3 DEF Undisturbed
<1> QED BY <1>4 DEF y

LEMMA UnheardGood ==
    ASSUME NEW z, Formed(z)
    PROVE  GoodInput(Unheard, z.at) /\ Unheard.fact = "none" /\ Unheard.retained = FALSE
<1>1. NoTime <= z.at /\ Unheard.below = NoTime /\ Unheard.retained = FALSE
  BY ZoneParts, Constants DEF Formed, Unheard
<1> QED BY <1>1, UnheardIs DEF GoodInput

LEMMA CoverageFollows ==
    ASSUME NEW z, Sane(z), NEW before
    PROVE  /\ Follows(z, CoverageChanged(before, z))
           /\ CoverageChanged(before, z).belief.resolvedAt = z.belief.resolvedAt
<1> DEFINE b == Displace(z.belief)
           m == WithBelief(z, b)
           y == CoverageChanged(before, z)
<1> SUFFICES Follows(z, y) /\ y.belief.resolvedAt = z.belief.resolvedAt
  OBVIOUS
<1>1. y \in {z, m} \/ (y = Silently(m, Unheard) /\ m.policy.held)
  BY DEF CoverageChanged, WithBelief
<1>2. GoodBelief(b) /\ Same(z.belief, b)
  BY Displaced DEF Sane, Formed
<1>3. b.at = z.at /\ b.generation \in {NoTime, z.sensor.start} /\ b.hold = z.belief.hold
      /\ b.latest = z.belief.latest /\ b.resolvedAt = z.belief.resolvedAt
  BY <1>2 DEF Same, Sane, Formed
<1> HIDE DEF b, y
<1>4. Believes(z, m, b)
  BY <1>2, <1>3, BeliefSet DEF Sane
<1> HIDE DEF m
<1>5. Formed(m) /\ Follows(z, m) /\ Follows(z, z) /\ m.belief.resolvedAt = z.belief.resolvedAt
  BY <1>3, <1>4 DEF Believes, Follows
<1>6. CASE y = Silently(m, Unheard) /\ m.policy.held
  <2>1. m.policy.phase = "active"
    BY <1>5, <1>6 DEF Formed, GoodPolicy, HeldOK
  <2>2. Evaluable(m.policy, m.belief)
    BY <1>5, <2>1 DEF Evaluable, Formed
  <2>3. y.belief = m.belief /\ y.policy = Evaluate(m.policy, m.belief, Unheard).policy
    BY <1>5, <1>6, <2>2, UnheardGood, EvaluatedFormed DEF Silently
  <2>4. Holds(m.policy, m.belief, Unheard, y.policy)
    BY <1>5, <2>2, <2>3, UnheardGood, EvaluateHolds DEF Formed
  <2>5. Follows(m, y)
    BY <1>5, <2>3, <2>4, UnheardGood DEF Follows, Holds
  <2> QED BY <1>5, <2>3, <2>5, FollowsChain
<1> QED BY <1>1, <1>5, <1>6

\* Coverage that ends displaces the zone: it was retained until then.
LEMMA UncoveredSteady ==
    ASSUME NEW z, Sane(z), Steady(z), NEW m, Covered(z, m), m.cover # "none" => z.cover # "none"
    PROVE  Steady(CoverageChanged(z, m))
<1> DEFINE b == Displace(m.belief)
           d == WithBelief(m, b)
           y == CoverageChanged(z, m)
<1> SUFFICES Steady(y)
  OBVIOUS
<1>2. y = IF z.cover = "none" \/ m.cover # "none" THEN m
          ELSE IF d.policy.held /\ ~RetainedZone(d) THEN Silently(d, Unheard) ELSE d
  BY DEF CoverageChanged, WithBelief
<1>3. Follows(m, y)
  BY CoverageFollows DEF Covered
<1> HIDE DEF y
<1>4. m.policy = z.policy /\ m.belief = z.belief /\ Sane(m)
  BY DEF Covered
<1>5. GoodBelief(b) /\ Same(m.belief, b)
  BY <1>4, Displaced DEF Sane, Formed
<1>6. b.at = m.at /\ b.generation \in {NoTime, m.sensor.start} /\ b.latest = z.belief.latest
      /\ b.resolvedAt = z.belief.resolvedAt
  BY <1>4, <1>5 DEF Same, Sane, Formed
<1> HIDE DEF b
<1>7. Believes(m, d, b)
  BY <1>4, <1>5, <1>6, BeliefSet DEF Sane
<1> HIDE DEF d
<1>8. Formed(d) /\ d.policy = z.policy /\ d.cover = m.cover /\ d.belief = b
  BY <1>4, <1>7 DEF Believes
<1>9. Follows(z, d)
  BY <1>6, <1>8, SameFollows
<1>10. Fresh(y)
  <2>1. Follows(z, m)
    BY <1>4, SameFollows
  <2> QED BY <1>3, <2>1, FollowsChain, FollowsFresh DEF Steady
<1>11. CASE z.cover = "none" \/ m.cover # "none"
  <2>1. RetainedZone(m) = RetainedZone(z)
    BY <1>4, <1>11 DEF RetainedZone
  <2>2. Retentive(m) /\ PendingLow(m)
    BY <1>4, <2>1 DEF Steady, Retentive, PendingLow, Sinking
  <2>3. y = m
    BY <1>2, <1>11
  <2> QED BY <1>10, <2>2, <2>3 DEF Steady
<1>12. CASE z.cover # "none" /\ m.cover = "none" /\ d.policy.held /\ ~RetainedZone(d)
  <2>1. y = Evaluated(d, Unheard).zone
    BY <1>2, <1>4, <1>12 DEF Silently
  <2>2. d.policy.phase = "active"
    BY <1>8, <1>12 DEF Formed, GoodPolicy, HeldOK
  <2>3. Judges(d, Unheard)
    BY <1>8, <1>12, UnheardGood DEF Judges, RetainedFor, RetainedZone
  <2>4. Evaluable(d.policy, d.belief)
    BY <1>8, <2>2 DEF Evaluable, Formed
  <2>5. Retentive(y) /\ PendingLow(y)
    BY <1>8, <2>1, <2>3, <2>4, UnheardGood, EvaluatedSteady
  <2> QED BY <1>10, <2>5 DEF Steady
<1>13. CASE z.cover # "none" /\ m.cover = "none" /\ ~(d.policy.held /\ ~RetainedZone(d))
  <2>1. y = d
    BY <1>2, <1>4, <1>13
  <2>2. CASE z.policy.provenance = "evidence"
    <3>1. z.policy.held = TRUE
      BY <1>13, <2>2 DEF Steady, Retentive, RetainedZone
    <3>2. RetainedZone(d) = TRUE
      BY <1>8, <1>13, <3>1 DEF RetainedZone
    <3>3. z.policy.pending = NoTime
      BY <3>1 DEF Sane, Formed, GoodPolicy, HeldOK
    <3>4. Retentive(d) /\ PendingLow(d)
      BY <1>8, <3>1, <3>2, <3>3 DEF Retentive, PendingLow
    <3> QED BY <1>10, <2>1, <3>4 DEF Steady
  <2>3. CASE z.policy.provenance # "evidence"
    BY <1>8, <1>10, <2>1, <2>3, UnheldSteady DEF Steady
  <2> QED BY <2>2, <2>3
<1> QED BY <1>11, <1>12, <1>13

LEMMA ReconciledUndisturbed ==
    ASSUME NEW z, Sane(z)
    PROVE  Undisturbed(z, Reconciled(z)) /\ Branched(Reconciled(z))
<1> DEFINE m == Withdrawn(z)
           y == Reconciled(z)
<1> SUFFICES Undisturbed(z, y) /\ Branched(y)
  OBVIOUS
<1>1. y = CoverageChanged(z, m)
  BY DEF Reconciled
<1>2. Branched(y)
  BY BranchEnds DEF Reconciles
<1> HIDE DEF y
<1>3. Covered(z, m) /\ (m.cover # "none" => z.cover # "none")
  BY Withdrawal
<1> HIDE DEF m
<1>4. Steady(z) => Steady(y)
  BY <1>1, <1>3, UncoveredSteady
<1>5. Follows(m, y)
  BY <1>1, <1>3, CoverageFollows DEF Covered
<1>6. Follows(z, m)
  BY <1>3, SameFollows DEF Covered
<1> QED BY <1>2, <1>4, <1>5, <1>6, FollowsChain DEF Undisturbed

LEMMA HoldUndisturbed ==
    ASSUME NEW z, Sane(z) PROVE Undisturbed(z, ReconcileHold(z))
<1> DEFINE w == Witnessed(z)
           c == IF w /\ KnownOn(z.sensor) THEN Reselect(z.belief, z.sensor.start) ELSE z.belief
           b == SetHold(c, w)
           m == WithBelief(z, b)
           i == Since(z.belief.at, RetainedZone(m))
           y == ReconcileHold(z)
<1> SUFFICES Undisturbed(z, y)
  OBVIOUS
<1>1. \/ y = m
      \/ y = Silently(m, i) /\ z.policy.provenance = "evidence"
  BY DEF ReconcileHold, WithBelief, Since
<1>2. w \in BOOLEAN /\ z.belief.hold \in BOOLEAN
  BY BeliefParts DEF Witnessed, Sane, Formed, GoodBelief
<1>3. w => z.sensor.start \in Nat /\ z.sensor.start <= z.at
  <2>1. z.source \in Nat \cup {NoTime} /\ z.sensor.start <= z.at
    BY ZoneParts DEF Sane, Formed, GoodSensor
  <2> QED BY <2>1 DEF Witnessed
<1> HIDE DEF w, y
<1>4. GoodBelief(z.belief) /\ z.belief.at = z.at /\ z.belief.generation \in {NoTime, z.sensor.start}
  BY DEF Sane, Formed
<1>5. /\ GoodBelief(c) /\ c.at = z.at /\ c.generation \in {NoTime, z.sensor.start}
      /\ c.level = z.belief.level /\ c.latest = z.belief.latest
      /\ c.resolvedAt = z.belief.resolvedAt
      /\ c.displacedAt = NoTime <=> z.belief.displacedAt = NoTime
  <2>1. CASE w /\ KnownOn(z.sensor)
    <3> DEFINE d == Reselect(z.belief, z.sensor.start)
    <3>1. z.sensor.start <= z.belief.at
      BY <1>3, <1>4, <2>1
    <3>2. /\ GoodBelief(d) /\ d.at = z.belief.at /\ d.generation = z.sensor.start
          /\ d.level = z.belief.level /\ d.latest = z.belief.latest
          /\ d.resolvedAt = z.belief.resolvedAt
          /\ d.displacedAt = NoTime <=> z.belief.displacedAt = NoTime
      BY <1>3, <1>4, <2>1, <3>1, Reselected
    <3>3. c = d
      BY <2>1
    <3> HIDE DEF c, d
    <3> QED BY <1>4, <3>2, <3>3
  <2>2. CASE ~(w /\ KnownOn(z.sensor))
    <3>1. c = z.belief
      BY <2>2
    <3> HIDE DEF c
    <3> QED BY <1>4, <3>1
  <2> QED BY <2>1, <2>2
<1> HIDE DEF c
<1>6. /\ GoodBelief(b) /\ b.at = z.at /\ b.generation \in {NoTime, z.sensor.start}
      /\ b.level = z.belief.level /\ b.latest = z.belief.latest
      /\ b.resolvedAt = z.belief.resolvedAt
      /\ b.displacedAt = NoTime <=> z.belief.displacedAt = NoTime
  BY <1>2, <1>5, HoldSet
<1> HIDE DEF b
<1>7. Believes(z, m, b)
  BY <1>6, BeliefSet DEF Sane
<1>8. i.retained = RetainedZone(m) /\ i.below = z.belief.at /\ i.fact = "none"
      /\ i \in InputType
  <2>1. z.belief.at \in Nat /\ RetainedZone(m) \in BOOLEAN
    BY <1>4, BeliefParts DEF GoodBelief, RetainedZone
  <2> QED BY <2>1, SinceParts DEF Since, Unheard
<1> HIDE DEF m, i
<1>9. Formed(m) /\ m.policy = z.policy /\ m.cover = z.cover /\ m.belief = b /\ m.at = z.at
  BY <1>7 DEF Believes, Frame
<1>10. Follows(z, m)
  BY <1>6, <1>9, SameFollows
<1>11. Steady(z) => Steady(m)
  <2> SUFFICES ASSUME Steady(z) PROVE Steady(m)
    OBVIOUS
  <2>1. PendingLow(m)
    BY <1>6, <1>9 DEF Steady, PendingLow, Sinking
  <2> QED BY <1>6, <1>9, <2>1, BeliefSteady
<1>12. Undisturbed(z, m)
  BY <1>10, <1>11 DEF Undisturbed
<1>13. CASE y = Silently(m, i) /\ z.policy.provenance = "evidence"
  <2>1. m.policy.phase = "active"
    BY <1>9, <1>13, PolicyParts DEF Formed, GoodPolicy, FairPolicy, PhaseOK, Phases
  <2>2. GoodInput(i, m.at)
    <3>1. z.belief.at <= z.at /\ i.below <= m.at
      BY <1>4, <1>8, <1>9, ZoneParts DEF Formed
    <3> QED BY <1>8, <3>1 DEF GoodInput
  <2>3. Judges(m, i)
    BY <1>8, ToldJudges
  <2>4. Undisturbed(m, y)
    BY <1>8, <1>9, <1>13, <2>1, <2>2, <2>3, EvaluatedUndisturbed DEF Silently
  <2> QED BY <1>12, <2>4, UndisturbedChain
<1> QED BY <1>1, <1>12, <1>13

\* A clear takes away, and does not end a displacement.
LEMMA ClearLowers ==
    ASSUME NEW b, GoodBelief(b), NEW t
    PROVE  LET c == ApplyStableClear(b, t)
           IN  /\ c.displacedAt = b.displacedAt
               /\ b.level <= OffLevel => c.level <= OffLevel
<1>1. b \in BeliefType /\ b.level \in 0 .. TopLevel /\ OffLevel \in 0 .. TopLevel
      /\ ClearLoss \in Nat /\ TopLevel \in Nat
  BY BeliefParts, Constants DEF GoodBelief
<1>2. b.level <= OffLevel => Bounded(b.level - ClearLoss) <= OffLevel
  BY <1>1 DEF Bounded
<1> QED BY <1>1, <1>2 DEF ApplyStableClear, BeliefType

LEMMA OutwardLevel ==
    ASSUME NEW b, GoodBelief(b), NEW u, NEW qualified \in BOOLEAN
    PROVE  LET c == RegisterOutward(b, u, qualified)
           IN  c.displacedAt = b.displacedAt /\ c.level = b.level
BY DEF RegisterOutward, BeliefType, GoodBelief

LEMMA ClearUndisturbed ==
    ASSUME NEW z, Sane(z), z.sensor.status = "clearing"
    PROVE  Undisturbed(z, StableClearEffect(z))
<1> DEFINE s == [z.sensor EXCEPT !.status = "clear", !.clearedAt = NoTime]
           b == IF z.belief.generation = s.start THEN ApplyStableClear(z.belief, z.at)
                ELSE z.belief
           left == /\ Stay /\ b.context \in Cleared /\ b.generation # NoTime
                   /\ z.departs > z.at
           c == IF left THEN RegisterOutward(b, z.departs, TRUE) ELSE b
           u == [z EXCEPT !.sensor = s]
           v == [z EXCEPT !.sensor = s, !.belief = c]
           y == StableClearEffect(z)
<1> SUFFICES Undisturbed(z, y)
  OBVIOUS
<1>1. y = IF ~z.occupied THEN u ELSE v
  BY DEF StableClearEffect
<1>2. z \in ZoneState /\ GoodBelief(z.belief) /\ z.belief.at = z.at /\ z.at \in Nat
      /\ z.sensor.start # NoTime /\ z.belief.generation \in {NoTime, z.sensor.start}
      /\ z.departs \in Nat \cup {NoTime} /\ s.start = z.sensor.start
  BY ZoneParts DEF Sane, Formed, GoodSensor, SensorType
<1> HIDE DEF s, y
<1>3. /\ GoodBelief(b) /\ Same(z.belief, b) /\ b.displacedAt = z.belief.displacedAt
      /\ z.belief.level <= OffLevel => b.level <= OffLevel
  <2>1. CASE z.belief.generation = s.start
    <3>1. z.belief.generation # NoTime
      BY <1>2, <2>1
    <3>2. b = ApplyStableClear(z.belief, z.belief.at)
      BY <1>2, <2>1
    <3> QED BY <1>2, <3>1, <3>2, StablyCleared, ClearLowers
  <2>2. CASE z.belief.generation # s.start
    <3>1. b = z.belief
      BY <2>2
    <3> QED BY <1>2, <3>1 DEF Same
  <2> QED BY <2>1, <2>2
<1> HIDE DEF b
<1>4. /\ GoodBelief(c) /\ Same(b, c) /\ c.displacedAt = b.displacedAt /\ c.level = b.level
  <2>1. CASE left
    <3>1. z.departs \in Nat
      BY <1>2, <2>1, Constants
    <3>2. b.generation # NoTime
      BY <2>1
    <3>3. LET d == RegisterOutward(b, z.departs, TRUE) IN GoodBelief(d) /\ Same(b, d)
      BY <1>3, <3>1, <3>2, OutwardRegistered
    <3>4. c = RegisterOutward(b, z.departs, TRUE)
      BY <2>1
    <3> HIDE DEF c
    <3>5. c.displacedAt = b.displacedAt /\ c.level = b.level
      BY <1>3, <3>4, OutwardLevel
    <3> QED BY <3>3, <3>4, <3>5
  <2>2. CASE ~left
    <3>1. c = b
      BY <2>2
    <3> QED BY <1>3, <3>1 DEF Same
  <2> QED BY <2>1, <2>2
<1> HIDE DEF c
<1>5. /\ u.belief = z.belief /\ u.policy = z.policy /\ u.cover = z.cover
      /\ v.belief = c /\ v.policy = z.policy /\ v.cover = z.cover
  BY <1>2 DEF ZoneState
<1> HIDE DEF u, v
<1>6. Undisturbed(z, u)
  BY <1>5, SameUndisturbed
<1>7. v.belief.latest = z.belief.latest /\ v.belief.resolvedAt = z.belief.resolvedAt
      /\ v.belief.displacedAt = z.belief.displacedAt
      /\ (z.belief.level <= OffLevel => v.belief.level <= OffLevel)
  BY <1>3, <1>4, <1>5 DEF Same
<1>8. Follows(z, v)
  BY <1>5, <1>7, SameFollows
<1>9. Steady(z) => Steady(v)
  <2> SUFFICES ASSUME Steady(z) PROVE Steady(v)
    OBVIOUS
  <2>1. PendingLow(v)
    BY <1>5, <1>7 DEF Steady, PendingLow, Sinking
  <2> QED BY <1>5, <1>7, <2>1, BeliefSteady
<1> QED BY <1>1, <1>6, <1>8, <1>9 DEF Undisturbed

\* A level that moves towards one that is low does not cross the threshold.
LEMMA TowardsLow ==
    ASSUME NEW n \in BeliefLevels, NEW goal \in BeliefLevels, NEW step \in Nat,
           goal <= OffLevel, n <= OffLevel
    PROVE  Towards(n, goal, step) <= OffLevel
BY Constants DEF Towards, Later, BeliefLevels

\* Whom nothing protects is decaying to where it stays low.
LEMMA SinksWhenFree ==
    ASSUME NEW z, Sane(z), Fresh(z), Retentive(z), Sinking(z),
           z.policy.provenance = "evidence", ~z.policy.held, ~z.belief.hold
    PROVE  Baseline[DecayContext(z.belief)] <= OffLevel
<1>1. ~Retains(z.belief, z.policy.activatedAt)
  BY DEF Retentive, RetainedZone
<1>2. z.policy.activatedAt # NoTime
  BY PolicyParts DEF Sane, Formed, GoodPolicy, FairPolicy, ActivationOK, PhaseOK, Phases
<1>3. ~Unresolved(z.belief)
  <2> SUFFICES ASSUME Unresolved(z.belief) PROVE FALSE
    OBVIOUS
  <2>1. z.policy.activatedAt <= z.belief.latest
    BY DEF Unresolved, Fresh
  <2>2. z.belief.latest \in Int /\ z.policy.activatedAt \in Int
    BY BeliefParts, PolicyParts, Constants
       DEF Sane, Formed, GoodBelief, GoodPolicy, FairPolicy
  <2>3. z.belief.latest >= z.policy.activatedAt
    BY <2>1, <2>2
  <2> QED BY <1>1, <1>2, <2>3 DEF Retains
<1>4. z.belief.context \in Contexts /\ "cleared_with_outward" \in Contexts
  BY BeliefParts DEF Sane, Formed, GoodBelief, Contexts
<1>5. DecayContext(z.belief) = IF z.belief.displacedAt # NoTime THEN "cleared_with_outward"
                               ELSE z.belief.context
  BY <1>3 DEF DecayContext
<1> QED BY <1>4, <1>5 DEF Sinking, Sinks

LEMMA DecayTyped ==
    ASSUME NEW b, GoodBelief(b)
    PROVE  /\ DecayContext(b) \in Contexts
           /\ Baseline[DecayContext(b)] \in BeliefLevels /\ Rate[DecayContext(b)] \in Nat \ {0}
<1>1. DecayContext(b) \in Contexts
  BY BeliefParts DEF DecayContext, GoodBelief, Contexts
<1> QED BY <1>1, BeliefAssumption

LEMMA ElapseUndisturbed ==
    ASSUME NEW z, Sane(z), NEW t \in Nat, z.at <= t PROVE Undisturbed(z, At(z, t))
<1> DEFINE b == AdvanceTo(z.belief, t)
           y == [z EXCEPT !.at = t, !.belief = b]
           x == DecayContext(z.belief)
           step == Rate[x] * (t - z.belief.at)
<1>1. z \in ZoneState /\ GoodBelief(z.belief) /\ z.belief.at = z.at /\ z.at \in Nat
  BY ZoneParts DEF Sane, Formed
<1>2. z.belief.at <= t
  BY <1>1
<1>3. b.displacedAt = z.belief.displacedAt /\ b.latest = z.belief.latest
      /\ b.resolvedAt = z.belief.resolvedAt
  BY <1>1, <1>2, Advanced
<1>4. b.level = IF Decays(z.belief) THEN Towards(z.belief.level, Baseline[x], step)
                ELSE z.belief.level
  <2>1. z.belief \in BeliefType
    BY <1>1 DEF GoodBelief
  <2> QED BY <2>1 DEF AdvanceTo, BeliefType
<1>5. Baseline[x] \in BeliefLevels /\ Rate[x] \in Nat
  BY <1>1, DecayTyped
<1> HIDE DEF x
<1>6. step \in Nat
  <2>1. t - z.belief.at \in Nat
    BY <1>1, <1>2
  <2> QED BY <1>5, <2>1
<1> HIDE DEF b, step
<1>7. y.policy = z.policy /\ y.cover = z.cover /\ y.belief = b
  BY <1>1 DEF ZoneState
<1> HIDE DEF y
<1>8. Follows(z, y)
  BY <1>3, <1>7, SameFollows
<1>9. Steady(z) => Steady(y)
  <2> SUFFICES ASSUME Steady(z) PROVE Steady(y)
    OBVIOUS
  <2>1. PendingLow(y)
    <3> SUFFICES ASSUME z.policy.provenance = "evidence", z.policy.pending # NoTime, Sinking(z)
                 PROVE  b.level <= OffLevel
      BY <1>3, <1>7 DEF PendingLow, Sinking
    <3>1. z.belief.level <= OffLevel /\ z.belief.level \in BeliefLevels
      BY <1>1, BeliefParts DEF Steady, PendingLow, GoodBelief
    <3>2. ~z.policy.held /\ ~z.belief.hold
      BY DEF Sane, Formed, GoodPolicy, HeldOK, HoldsStill
    <3>3. Baseline[x] <= OffLevel
      BY <3>2, SinksWhenFree DEF Steady, x
    <3> QED BY <1>4, <1>5, <1>6, <3>1, <3>3, TowardsLow
  <2> QED BY <1>3, <1>7, <2>1, BeliefSteady
<1>10. Undisturbed(z, y)
  BY <1>8, <1>9 DEF Undisturbed
<1> QED BY <1>10 DEF At, y, b

\* A part of a call that leaves the paths, the ledger and the sensor.
Unmoved(z, y) ==
    y.cover = z.cover /\ Rooted(z, y) /\ y.sensor = z.sensor /\ y.source = z.source

LEMMA UnmovedChain ==
    ASSUME NEW x, NEW y, NEW z, Unmoved(x, y), Unmoved(y, z) PROVE Unmoved(x, z)
BY DEF Unmoved, Rooted

LEMMA UnmovedBranched ==
    ASSUME NEW z, NEW y, Branched(z), Unmoved(z, y) PROVE Branched(y)
BY DEF Branched, Unmoved, Rooted

LEMMA ReleasedUndisturbed ==
    ASSUME NEW s, Sane(s.zone), NEW b, GoodBelief(b), b.at <= s.zone.at
    PROVE  LET y == ReleasedAfter(s, b).zone
           IN  Undisturbed(s.zone, y) /\ Unmoved(s.zone, y)
<1> DEFINE z == s.zone
           p == z.policy
           v == DueBelow(z, b)
           retained == RetainedZone(z) /\ p.provenance = "evidence"
           i == Judged(AssertedStay(z), retained)
           j == Low(v)
           e == Evaluated(z, i)
           f == Evaluated(z, j)
           r == ReleasedAfter(s, b)
           y == r.zone
<1> SUFFICES Undisturbed(z, y) /\ Unmoved(z, y)
  OBVIOUS
<1>1. \/ r = s
      \/ r = Then(s, e) /\ p.phase = "active"
      \/ r = Then(s, f) /\ p.phase = "active" /\ ~retained
  BY DEF ReleasedAfter, Judged, Low
<1>2. z.at \in Nat
  BY ZoneParts DEF Sane, Formed
<1>3. v \in Nat \cup {NoTime}
  BY DueBelowBound
<1>4. v <= z.at
  BY DueBelowBound
<1>5. AssertedStay(z) \in BOOLEAN
  BY Judgments DEF Sane
<1>6. i \in InputType /\ i.below = NoTime
  BY <1>5, JudgedParts
<1>7. j \in InputType /\ j.below = v
  BY <1>3, LowParts
<1>8. /\ i.fact = "none" /\ i.retained = retained
      /\ j.fact = "none" /\ j.retained = FALSE
  BY DEF Judged, Low, Unheard
<1>9. p.provenance = "evidence" => retained = RetainedZone(z)
  BY Judgments DEF Sane
<1>10. Retains(z.belief, p.activatedAt) => RetainedZone(z) \/ p.provenance # "evidence"
  BY DEF RetainedZone
<1> HIDE DEF r, v
<1>11. GoodInput(i, z.at) /\ GoodInput(j, z.at)
  BY <1>2, <1>4, <1>6, <1>7, Constants DEF GoodInput
<1>12. Judges(z, i)
  BY <1>8, <1>9, <1>10 DEF Judges, RetainedFor
<1>13. ~retained => Judges(z, j)
  BY <1>8, <1>9, <1>10 DEF Judges, RetainedFor
<1> HIDE DEF i, j, retained
<1>14. CASE r = s
  <2>1. Undisturbed(z, z) /\ Unmoved(z, z)
    BY SameUndisturbed DEF Unmoved, Rooted
  <2> QED BY <1>14, <2>1
<1>15. ASSUME NEW g \in {i, j}, p.phase = "active", Judges(z, g), r = Then(s, Evaluated(z, g))
       PROVE  Undisturbed(z, y) /\ Unmoved(z, y)
  <2> DEFINE x == Evaluated(z, g)
  <2>1. y = x.zone
    BY <1>15 DEF Then, Step
  <2>2. Undisturbed(z, x.zone)
    BY <1>8, <1>11, <1>15, EvaluatedUndisturbed DEF Sane
  <2>3. Rules(z, x)
    BY <1>11, <1>15, ActiveEvaluated
  <2> HIDE DEF x, y
  <2>4. Unmoved(z, x.zone)
    BY <2>3 DEF Rules, Decides, Frame, Unmoved
  <2> QED BY <2>1, <2>2, <2>4
<1> QED BY <1>1, <1>12, <1>13, <1>14, <1>15

LEMMA DueUndisturbed ==
    ASSUME NEW z, Sane(z), NEW b, GoodBelief(b), b.at <= z.at
    PROVE  LET y == ReleaseDue(z, b).zone IN Undisturbed(z, y) /\ Unmoved(z, y)
<1> DEFINE w == LeaseLasts(z)
           d == ExpireDue(w, FALSE)
           e == d.zone
           y == ReleaseDue(z, b).zone
<1> SUFFICES Undisturbed(z, y) /\ Unmoved(z, y)
  OBVIOUS
<1>1. y = ReleasedAfter(d, b).zone
  BY DEF ReleaseDue
<1> HIDE DEF y
<1>2. Lapses(z, w)
  BY LeaseLapses
<1> HIDE DEF w
<1>3. Sane(w) /\ w.policy = z.policy /\ w.belief = z.belief /\ w.cover = z.cover
      /\ Unmoved(z, w) /\ w.at = z.at
  BY <1>2 DEF Lapses, Unmoved
<1>4. Undisturbed(z, w)
  BY <1>3, SameUndisturbed
<1>5. Undisturbed(w, e)
  BY <1>3, ExpirySteady DEF Undisturbed
<1>6. Expires(w, FALSE, d)
  BY <1>3, Expiry
<1> HIDE DEF d
<1>7. Sane(e) /\ Unmoved(w, e) /\ e.at = z.at
  BY <1>3, <1>6 DEF Expires, Decides, Frame, Unmoved
<1>8. b.at <= e.at
  BY <1>7
<1>9. Undisturbed(e, y) /\ Unmoved(e, y)
  BY <1>1, <1>7, <1>8, ReleasedUndisturbed
<1> HIDE DEF e
<1>10. Undisturbed(z, y)
  BY <1>4, <1>5, <1>9, UndisturbedChain
<1>11. Unmoved(z, y)
  BY <1>3, <1>7, <1>9, UnmovedChain
<1> QED BY <1>10, <1>11

LEMMA EffectsUndisturbed ==
    ASSUME NEW z, Sane(z), ClearAhead(z), NEW t \in Nat
    PROVE  Undisturbed(z, EpisodeEffects(z, t).zone)
<1> DEFINE n == ClearsAt(z)
           a == At(z, n)
           b == StableClearEffect(a)
           c == Reconciled(b)
           h == ReconcileHold(c)
           y == EpisodeEffects(z, t).zone
<1> SUFFICES Undisturbed(z, y)
  OBVIOUS
<1>1. CASE ClearDue(z, t)
  <2>1. y = h
    BY <1>1 DEF EpisodeEffects, Consumed
  <2>2. z.sensor.status = "clearing" /\ n <= t
    BY <1>1 DEF ClearDue
  <2>3. n \in Nat /\ z.at <= n
    <3>1. z.at \in Nat /\ z.sensor.clearedAt \in Nat \cup {NoTime}
      BY ZoneParts, SensorParts DEF Sane, Formed
    <3>2. z.sensor.clearedAt # NoTime /\ z.at < n
      BY <2>2 DEF Sane, Formed, GoodSensor, ClearAhead
    <3>3. n \in Int
      BY <3>1, Constants DEF ClearsAt
    <3> HIDE DEF n
    <3> QED BY <3>1, <3>2, <3>3
  <2> HIDE DEF n, y
  <2>4. Elapses(z, a, n) /\ Undisturbed(z, a)
    BY <2>3, Elapse, ElapseUndisturbed
  <2> HIDE DEF a
  <2>5. Sane(a) /\ a.sensor.status = "clearing"
    BY <2>2, <2>4 DEF Elapses, Stands
  <2>6. Sane(b) /\ Undisturbed(a, b)
    BY <2>5, ClearStands, ClearUndisturbed DEF Stands
  <2> HIDE DEF b
  <2>7. Sane(c) /\ Undisturbed(b, c)
    BY <2>6, BranchEnds, ReconciledUndisturbed DEF Reconciles
  <2> HIDE DEF c
  <2>8. Undisturbed(c, h)
    BY <2>7, HoldUndisturbed
  <2> HIDE DEF h
  <2> QED BY <2>1, <2>4, <2>6, <2>7, <2>8, UndisturbedChain
<1>2. CASE ~ClearDue(z, t)
  <2>1. y = z
    BY <1>2 DEF EpisodeEffects
  <2> QED BY <2>1, SameUndisturbed
<1> QED BY <1>1, <1>2

\* What was due before an input disturbs nothing.
LEMMA PreUndisturbed ==
    ASSUME NEW z, Settled(z), NEW t \in Nat, z.at <= t
    PROVE  LET y == Pre(z, t).step.zone IN Undisturbed(z, y) /\ Branched(y)
<1> DEFINE e == EpisodeEffects(z, t)
           x == e.zone
           a == At(x, t)
           w == Reconciled(a)
           k == KeptOr(e.kept, z.belief)
           y == Pre(z, t).step.zone
<1> SUFFICES Undisturbed(z, y) /\ Branched(y)
  OBVIOUS
<1>1. y = ReleaseDue(w, k).zone
  BY DEF Pre, BeforeInput
<1> HIDE DEF y
<1>2. Sane(z) /\ VacantOK(z) /\ HoldOK(z) /\ ClearAhead(z) /\ LeaseOK(z)
  BY DEF Settled
<1>3. Effects(z, e, t) /\ Undisturbed(z, x)
  BY <1>2, EffectsDone, EffectsUndisturbed
<1> HIDE DEF e
<1>4. GoodKept(e.kept, x.at) /\ x.at <= t /\ Sane(x)
  BY <1>3 DEF Effects, Stands
<1>5. GoodBelief(k) /\ k.at <= t
  <2>1. z.belief.at = z.at /\ GoodBelief(z.belief)
    BY <1>2 DEF Sane, Formed
  <2>2. GoodKept(e.kept, t)
    <3>1. CASE e.kept = Nothing
      BY <3>1 DEF GoodKept
    <3>2. CASE GoodBelief(e.kept) /\ e.kept.at <= x.at
      <4>1. e.kept.at \in Nat /\ x.at \in Nat
        BY <1>4, <3>2, BeliefParts, ZoneParts DEF GoodBelief, Sane, Formed
      <4>2. e.kept.at <= t
        BY <1>4, <3>2, <4>1
      <4> QED BY <3>2, <4>2 DEF GoodKept
    <3> QED BY <1>4, <3>1, <3>2 DEF GoodKept
  <2>3. z.belief.at <= t
    BY <2>1
  <2> QED BY <2>1, <2>2, <2>3, KeptIs
<1> HIDE DEF k, x
<1>6. Undisturbed(x, a) /\ Elapses(x, a, t)
  BY <1>4, Elapse, ElapseUndisturbed
<1> HIDE DEF a
<1>7. Sane(a) /\ a.at = t
  BY <1>6 DEF Elapses, Stands
<1>8. Undisturbed(a, w) /\ Branched(w) /\ Reconciles(a, w)
  BY <1>7, ReconciledUndisturbed, BranchEnds
<1> HIDE DEF w
<1>9. Sane(w) /\ w.at = t
  BY <1>7, <1>8 DEF Reconciles, Frame
<1>10. k.at <= w.at
  BY <1>5, <1>9
<1>11. Undisturbed(w, y) /\ Unmoved(w, y)
  BY <1>1, <1>5, <1>9, <1>10, DueUndisturbed
<1> QED BY <1>3, <1>6, <1>8, <1>11, UndisturbedChain, UnmovedBranched

\* What every call keeps for the next one.
Kept(z) == Steady(z) /\ Branched(z)

\* The evaluation that ends a call has left x of y.
Ends(y, i, x) ==
    /\ Retentive(x) /\ PendingLow(x) /\ Unmoved(y, x) /\ Sane(x) /\ x.at = y.at
    /\ x.belief.latest = y.belief.latest
    /\ i.fact = "none" => Follows(y, x)

LEMMA QuietKept ==
    ASSUME NEW y, Fresh(y), Branched(y), NEW i, i.fact = "none", NEW x, Ends(y, i, x)
    PROVE  Kept(x)
BY FollowsFresh, UnmovedBranched DEF Ends, Kept, Steady

\* A zone with presence is observed by the evidence that activates it.
LEMMA HeardKept ==
    ASSUME NEW y, Branched(y), NEW i, NEW x, Ends(y, i, x),
           Stay => y.belief.latest \in {NoTime, y.at}, ~Stay => y.belief.latest = NoTime
    PROVE  Kept(x)
<1>1. x.policy.provenance = "evidence" => x.policy.activatedAt <= x.at
  <2>1. GoodPolicy(x.policy) /\ x.policy.evaluatedAt <= x.at /\ x \in ZoneState
    BY DEF Ends, Sane, Formed
  <2>2. x.policy.activatedAt <= x.policy.evaluatedAt
    BY <2>1 DEF GoodPolicy, FairPolicy, ActivationOK
  <2>3. x.policy.activatedAt \in Int /\ x.policy.evaluatedAt \in Int /\ x.at \in Int
    BY <2>1, PolicyParts, ZoneParts, Constants DEF GoodPolicy, FairPolicy
  <2> QED BY <2>1, <2>2, <2>3
<1>2. Fresh(x)
  BY <1>1 DEF Ends, Fresh
<1> QED BY <1>2, UnmovedBranched DEF Ends, Kept, Steady

LEMMA ClosesEnds ==
    ASSUME NEW y, NEW z, Follows(y, z), Unmoved(y, z), z.at = y.at, NEW i, NEW j,
           i.fact = j.fact, NEW x, Closes(z, j, x)
    PROVE  Ends(y, i, x)
<1>1. i.fact = "none" => Follows(y, x)
  BY FollowsChain DEF Closes
<1>2. x.belief.latest = y.belief.latest
  BY DEF Closes, Follows
<1>3. Unmoved(y, x)
  BY DEF Closes, Unmoved, Rooted
<1> QED BY <1>1, <1>2, <1>3 DEF Ends, Closes

-----------------------------------------------------------------------------
(* The end of a call. *)

\* What the call publishes tells whether the light has changed.
Tells(was, now, event) ==
    /\ event \in Events
    /\ was # now => event = IF now THEN "acquired" ELSE "released"

Finishes(was, r) == Settled(r.zone) /\ Tells(was, r.zone.policy.active, r.event)

LEMMA AnnouncesTells ==
    ASSUME NEW was \in BOOLEAN, NEW now \in BOOLEAN, NEW event, Announces(was, now, event)
    PROVE  Tells(was, now, event)
BY DEF Announces, Tells

\* Of two events of a call the later one is published.
Last(e, f) == IF f # NoEvent THEN f ELSE e

LEMMA ThenTells ==
    ASSUME NEW a \in BOOLEAN, NEW b \in BOOLEAN, NEW c \in BOOLEAN, NEW e, NEW f,
           Announces(a, b, e), a = FALSE => b = FALSE, Announces(b, c, f)
    PROVE  Tells(a, c, Last(e, f))
BY DEF Announces, Tells, Events, NoEvent, Last

LEMMA GrantTells ==
    ASSUME NEW a \in BOOLEAN, NEW b \in BOOLEAN, NEW c \in BOOLEAN, NEW e, NEW f,
           Tells(a, b, e), Announces(b, c, f), f \in {NoEvent, "acquired"}
    PROVE  Tells(a, c, Last(e, f))
BY DEF Announces, Tells, Events, NoEvent, Last

LEMMA ActiveIs ==
    ASSUME NEW z, Sane(z) PROVE z.policy.active \in BOOLEAN
BY PolicyParts DEF Sane, Formed, GoodPolicy, FairPolicy

LEMMA Ending ==
    ASSUME NEW was \in BOOLEAN, NEW s, NEW z, Sane(z), HoldOK(z), ClearAhead(z), VacantOK(z),
           Announces(was, z.policy.active, s.event), was = FALSE => z.policy.active = FALSE,
           NEW i \in InputType, z.occupied \/ i.fact = "none",
           NEW b, GoodBelief(b), b.at <= z.at
    PROVE  Finishes(was, Then(s, EvaluatePolicies(z, i, b)))
<1> DEFINE x == EvaluatePolicies(z, i, b)
           y == x.zone
           r == Then(s, x)
<1> SUFFICES Finishes(was, r)
  OBVIOUS
<1>1. Concludes(z, i, x)
  BY EvaluationEnds
<1> HIDE DEF x
<1>2. r.zone = y /\ r.event = Last(s.event, x.event)
  BY DEF Then, Step, Last
<1> HIDE DEF r
<1>3. /\ Decides(z, x) /\ NotLate(y) /\ LeaseOK(y) /\ Sane(y) /\ y.occupied = z.occupied
      /\ y.cover = z.cover /\ y.belief = z.belief /\ y.lease = z.lease
  BY <1>1 DEF Concludes, Decides, Frame
<1>4. HoldOK(y) /\ ClearAhead(y)
  BY <1>3, DecidesKeeps
<1>5. VacantOK(y)
  <2>1. ~z.occupied => y.policy.phase = "inactive"
    BY <1>1 DEF Concludes, VacantOK
  <2> HIDE DEF y
  <2> QED BY <1>3, <2>1 DEF VacantOK
<1>6. Settled(r.zone)
  BY <1>2, <1>3, <1>4, <1>5 DEF Settled
<1>7. Announces(z.policy.active, y.policy.active, x.event)
  BY <1>3 DEF Decides
<1>8. z.policy.active \in BOOLEAN /\ y.policy.active \in BOOLEAN
  BY <1>3, ActiveIs
<1>9. Tells(was, y.policy.active, Last(s.event, x.event))
  BY <1>7, <1>8, ThenTells
<1> QED BY <1>2, <1>6, <1>9 DEF Finishes

LEMMA LeaseSetKeeps ==
    ASSUME NEW z, Sane(z), HoldOK(z), ClearAhead(z), NEW l \in Nat \cup {NoTime}
    PROVE  LET y == WithLease(z, l)
           IN  Sane(y) /\ HoldOK(y) /\ ClearAhead(y) /\ Lit(z, y)
               /\ y.at = z.at /\ y.occupied = z.occupied
<1> DEFINE y == WithLease(z, l)
<1>1. /\ Sane(y) /\ Lit(z, y) /\ y.policy = z.policy /\ y.belief = z.belief
      /\ y.cover = z.cover /\ y.at = z.at /\ y.occupied = z.occupied
      /\ y.sensor = z.sensor /\ y.source = z.source /\ y.lease = l
  BY LeaseSet
<1> HIDE DEF y
<1>2. HoldOK(y)
  BY <1>1 DEF HoldOK, Witnessed
<1>3. ClearAhead(y)
  BY <1>1 DEF ClearAhead, ClearsAt
<1> QED BY <1>1, <1>2, <1>3 DEF y

\* A part of a call: what it was when the call began, and what is left of it.
Begun(was, s) ==
    /\ Sane(s.zone) /\ ClearAhead(s.zone)
    /\ Announces(was, s.zone.policy.active, s.event)
    /\ was = FALSE => s.zone.policy.active = FALSE

Heard(i) == [i EXCEPT !.observed = TRUE]

\* An observation of the zone ends with all settled.
LEMMA ConcludedFinishes ==
    ASSUME NEW was \in BOOLEAN, NEW s, Begun(was, s), s.zone.occupied,
           NEW i \in InputType, NEW b, GoodBelief(b), b.at <= s.zone.at
    PROVE  Finishes(was, Concluded(s, i, b)) /\ Ends(s.zone, i, Concluded(s, i, b).zone)
<1> DEFINE z == s.zone
           h == ReconcileHold(z)
           w == WithLease(h, NoTime)
           y == LeaseLasts(w)
           j == Heard(i)
           k == LossOr(z, h, b)
           r == Concluded(s, i, b)
<1>1. r = Then(s, EvaluatePolicies(y, j, k))
  BY DEF Concluded, WithLease, Heard
<1> HIDE DEF r
<1>2. Sane(z) /\ ClearAhead(z)
  BY DEF Begun
<1>3. Reholds(z, h) /\ Follows(z, h) /\ Unmoved(z, h)
  BY <1>2, HoldFollows, HoldUndisturbed DEF Undisturbed, Reholds, Frame, Unmoved
<1>4. k \in {h.belief, b}
  BY DEF LossOr
<1> HIDE DEF h
<1>5. Stands(z, h) /\ h.at = z.at /\ h.sensor = z.sensor /\ HoldOK(h) /\ Sane(h)
  BY <1>3, ReholdsStands DEF Stands
<1>6. ClearAhead(h)
  BY <1>2, <1>5 DEF ClearAhead, ClearsAt
<1>7. Sane(w) /\ HoldOK(w) /\ ClearAhead(w) /\ Lit(h, w) /\ w.at = h.at /\ w.occupied = h.occupied
      /\ w.policy = h.policy /\ w.belief = h.belief /\ Unmoved(h, w)
  BY <1>5, <1>6, LeaseSetKeeps, LeaseSet DEF Unmoved
<1> HIDE DEF w
<1>8. Lapses(w, y)
  BY <1>7, LeaseLapses
<1> HIDE DEF y
<1>9. Sane(y) /\ HoldOK(y) /\ ClearAhead(y) /\ Lit(w, y) /\ y.at = z.at /\ y.occupied = z.occupied
  <2>1. Sane(y) /\ HoldOK(y) /\ ClearAhead(y) /\ Lit(w, y)
    BY <1>7, <1>8 DEF Lapses
  <2>2. y.at = z.at
    BY <1>5, <1>7, <1>8 DEF Lapses
  <2>3. y.occupied = z.occupied
    BY <1>5, <1>7, <1>8 DEF Lapses, Stands
  <2> QED BY <2>1, <2>2, <2>3
<1>10. y.policy.active = z.policy.active
  BY <1>5, <1>7, <1>9 DEF Stands, Lit
<1>11. Announces(was, y.policy.active, s.event) /\ (was = FALSE => y.policy.active = FALSE)
  BY <1>10 DEF Begun
<1>12. y.occupied
  BY <1>9
<1>13. VacantOK(y)
  BY <1>12 DEF VacantOK
<1>14. j \in InputType /\ j.fact = i.fact
  BY DEF Heard, InputType
<1> HIDE DEF j
<1>15. GoodBelief(k) /\ k.at <= y.at
  <2>1. GoodBelief(h.belief) /\ h.belief.at = z.at /\ z.at \in Nat
    BY <1>2, <1>5, ZoneParts DEF Sane, Formed
  <2>2. h.belief.at <= y.at
    BY <1>9, <2>1
  <2>3. b.at <= y.at
    BY <1>9
  <2> QED BY <1>4, <2>1, <2>2, <2>3
<1> HIDE DEF k
<1>16. Finishes(was, Then(s, EvaluatePolicies(y, j, k)))
  BY <1>9, <1>11, <1>12, <1>13, <1>14, <1>15, Ending
<1>17. Follows(z, y) /\ Unmoved(z, y)
  <2>1. Follows(h, y)
    BY <1>7, <1>8, SameFollows DEF Lapses
  <2>2. Unmoved(w, y)
    BY <1>8 DEF Lapses, Unmoved
  <2> QED BY <1>3, <1>7, <2>1, <2>2, FollowsChain, UnmovedChain
<1>18. Closes(y, j, EvaluatePolicies(y, j, k).zone)
  BY <1>9, <1>14, <1>15, EvaluationCloses
<1>19. Ends(z, i, EvaluatePolicies(y, j, k).zone)
  BY <1>9, <1>14, <1>17, <1>18, ClosesEnds
<1>20. Then(s, EvaluatePolicies(y, j, k)).zone = EvaluatePolicies(y, j, k).zone
  BY DEF Then, Step
<1> QED BY <1>1, <1>16, <1>19, <1>20 DEF r

-----------------------------------------------------------------------------
(* Observations of the zone. *)

CallEnds == Settled(zone') /\ Tells(zone.policy.active, zone'.policy.active, published')

\* The call that found the zone in z keeps what z has kept.
KeepsOn(z) == CallEnds /\ Branched(zone') /\ (Kept(z) => Kept(zone'))

LEMMA CallsEnd ==
    ASSUME NEW s, Call(s), Finishes(zone.policy.active, s) PROVE CallEnds
BY DEF Call, Finishes, CallEnds

\* y is z in the middle of its call, its light as it was.
OnWay(z, y) ==
    /\ Sane(y) /\ ClearAhead(y) /\ y.at = z.at /\ y.occupied = z.occupied
    /\ y.policy.active = z.policy.active

\* A part of the call that hears nothing of the zone.
Passes(z, y) == OnWay(z, y) /\ Follows(z, y)

LEMMA ReconciledOnWay ==
    ASSUME NEW z, NEW x, OnWay(z, x) PROVE OnWay(z, Reconciled(x))
<1> DEFINE y == Reconciled(x)
<1> SUFFICES OnWay(z, y)
  OBVIOUS
<1>1. Sane(x) /\ ClearAhead(x) /\ x.at = z.at /\ x.occupied = z.occupied
      /\ x.policy.active = z.policy.active
  BY DEF OnWay
<1>2. Reconciles(x, y)
  BY <1>1, BranchEnds
<1> HIDE DEF y
<1>3. Stands(x, y) /\ y.at = x.at /\ y.sensor = x.sensor
  BY <1>2, ReconcilesStands
<1>4. Sane(y) /\ y.policy.active = x.policy.active /\ y.occupied = x.occupied
  BY <1>3 DEF Stands, Lit
<1>5. ClearAhead(y)
  BY <1>1, <1>3 DEF ClearAhead, ClearsAt
<1> QED BY <1>1, <1>3, <1>4, <1>5 DEF OnWay

LEMMA ReconciledPasses ==
    ASSUME NEW z, NEW x, Passes(z, x)
    PROVE  Passes(z, Reconciled(x)) /\ Branched(Reconciled(x))
<1>1. Sane(x)
  BY DEF Passes, OnWay
<1> QED BY <1>1, ReconciledOnWay, ReconciledUndisturbed, FollowsChain DEF Passes, Undisturbed

\* The zone y that the input at time t finds.
Found(z, y, t, event) ==
    /\ Sane(y) /\ y \in ZoneState /\ ClearAhead(y) /\ y.at = t
    /\ GoodBelief(y.belief) /\ y.belief.at = t
    /\ y.belief.generation \in {NoTime, y.sensor.start}
    /\ GoodSensor(y.sensor, t) /\ y.sensor \in SensorType
    /\ y.occupied = z.occupied
    /\ Announces(z.policy.active, y.policy.active, event)
    /\ z.policy.active = FALSE => y.policy.active = FALSE

LEMMA ReadyParts ==
    ASSUME NEW z, NEW t \in Nat, NEW pre, Readies(z, t, pre)
    PROVE  Found(z, pre.step.zone, t, pre.step.event)
<1> DEFINE y == pre.step.zone
<1>1. Sane(y) /\ ClearAhead(y) /\ y.at = t /\ y.occupied = z.occupied
  BY DEF Readies, Settled
<1>2. /\ Announces(z.policy.active, y.policy.active, pre.step.event)
      /\ z.policy.active = FALSE => y.policy.active = FALSE
  BY DEF Readies
<1> HIDE DEF y
<1>3. /\ y \in ZoneState /\ GoodBelief(y.belief) /\ y.belief.at = t
      /\ y.belief.generation \in {NoTime, y.sensor.start} /\ GoodSensor(y.sensor, t)
      /\ y.sensor \in SensorType
  BY <1>1 DEF Sane, Formed, GoodSensor
<1> QED BY <1>1, <1>2, <1>3 DEF Found, y

\* An observation that has left the zone in y ends with all settled.
LEMMA ObservationEnds ==
    ASSUME Sane(zone), zone.occupied, NEW t \in Nat, NEW z, NEW event, Found(zone, z, t, event),
           NEW y, OnWay(z, y), NEW i \in InputType, NEW b, GoodBelief(b), b.at <= t,
           Call(Concluded(Step(y, event), i, b))
    PROVE  CallEnds /\ Ends(y, i, zone')
<1> DEFINE s == Step(y, event)
           c == Concluded(s, i, b)
<1>1. s.zone = y /\ s.event = event /\ Call(c)
  BY DEF Step
<1> HIDE DEF s
<1>2. Sane(y) /\ ClearAhead(y) /\ y.at = t /\ y.occupied /\ y.policy.active = z.policy.active
  BY DEF OnWay, Found
<1>3. /\ Announces(zone.policy.active, z.policy.active, event)
      /\ zone.policy.active = FALSE => z.policy.active = FALSE
  BY DEF Found
<1>4. Begun(zone.policy.active, s) /\ s.zone.occupied /\ s.zone.at = t
  BY <1>1, <1>2, <1>3 DEF Begun
<1>5. b.at <= s.zone.at
  BY <1>4
<1>6. Finishes(zone.policy.active, c) /\ Ends(y, i, c.zone)
  BY <1>1, <1>4, <1>5, ActiveIs, ConcludedFinishes
<1> QED BY <1>1, <1>6, CallsEnd DEF Call

\* One that says nothing of the occupant keeps what it found.
LEMMA QuietEnds ==
    ASSUME Sane(zone), zone.occupied, NEW t \in Nat, NEW z, NEW event, Found(zone, z, t, event),
           NEW y, Passes(z, y), Branched(y), NEW b, GoodBelief(b), b.at <= t,
           Call(Concluded(Step(y, event), Unheard, b))
    PROVE  KeepsOn(z)
<1>1. CallEnds /\ Ends(y, Unheard, zone')
  BY UnheardIs, ObservationEnds DEF Passes
<1>2. Kept(z) => Kept(zone')
  BY <1>1, UnheardIs, FollowsFresh, QuietKept DEF Passes, Kept, Steady
<1>3. Branched(zone')
  BY <1>1, UnmovedBranched DEF Ends
<1> QED BY <1>1, <1>2, <1>3 DEF KeepsOn

LEMMA FlapEnds ==
    ASSUME Sane(zone), NEW t \in Nat, NEW pre, Readies(zone, t, pre), NEW reopened \in BOOLEAN,
           FlapOn(pre, reopened)
    PROVE  KeepsOn(pre.step.zone)
<1> DEFINE z == pre.step.zone
           b == IF reopened THEN SupersedeOutward(z.belief) ELSE z.belief
           on == [z EXCEPT !.sensor.level = "on", !.sensor.status = "asserted",
                           !.sensor.clearedAt = NoTime, !.belief = b]
<1>1. /\ zone.occupied /\ z.sensor.start # NoTime
      /\ Call(Concluded(Step(Reconciled(on), pre.step.event), Unheard, z.belief))
  BY DEF FlapOn, ContinuesFlap
<1>2. Found(zone, z, t, pre.step.event)
  BY ReadyParts
<1> HIDE DEF z
<1>3. /\ Sane(z) /\ z \in ZoneState /\ z.at = t /\ GoodBelief(z.belief) /\ z.belief.at = t
      /\ z.belief.generation \in {NoTime, z.sensor.start}
      /\ GoodSensor(z.sensor, t) /\ z.sensor \in SensorType
  BY <1>2 DEF Found
<1>4. GoodBelief(b) /\ Same(z.belief, b)
  BY <1>3, OutwardSuperseded DEF Same
<1>5. b.at = t /\ b.hold = z.belief.hold /\ b.generation = z.belief.generation
      /\ b.latest = z.belief.latest
  BY <1>3, <1>4 DEF Same
<1> HIDE DEF b
<1>6. /\ on \in ZoneState /\ on.at = t /\ on.belief = b /\ on.policy = z.policy
      /\ on.occupied = z.occupied /\ on.sensor.status = "asserted"
      /\ on.sensor.start = z.sensor.start /\ on.sensor.clearedAt = NoTime
  BY <1>3, <1>4 DEF ZoneState, SensorType, GoodBelief, Levels, Statuses
<1> HIDE DEF on
<1>7. GoodSensor(on.sensor, t)
  <2>1. z.sensor.start <= t /\ NoTime <= t
    BY <1>3, Constants DEF GoodSensor
  <2>2. on.sensor \in SensorType
    BY <1>6, ZoneParts
  <2> QED BY <1>1, <1>6, <2>1, <2>2 DEF GoodSensor
<1>8. Sane(on)
  BY <1>3, <1>4, <1>5, <1>6, <1>7, Made
<1>9. Passes(z, on)
  BY <1>3, <1>5, <1>6, <1>8, SameFollows DEF Passes, OnWay, ClearAhead
<1>10. Passes(z, Reconciled(on)) /\ Branched(Reconciled(on))
  BY <1>9, ReconciledPasses
<1>11. z.belief.at <= t
  BY <1>3
<1> QED BY <1>1, <1>2, <1>3, <1>10, <1>11, QuietEnds DEF z

LEMMA ClearEnds ==
    ASSUME Sane(zone), NEW t \in Nat, NEW pre, Readies(zone, t, pre), ClearEdge(pre)
    PROVE  KeepsOn(pre.step.zone)
<1> DEFINE z == pre.step.zone
           off == [z EXCEPT !.sensor.level = "off", !.sensor.status = "clearing",
                            !.sensor.clearedAt = z.at]
           end == Reconciled(off)
           h == ReconcileHold(end)
           b == KeptOr(pre.retained, h.belief)
<1>1. /\ zone.occupied /\ z.sensor.level = "on"
      /\ Call(Concluded(Step(end, pre.step.event), Unheard, b))
  BY DEF ClearEdge, KnownOn
<1>2. Found(zone, z, t, pre.step.event) /\ GoodKept(pre.retained, t)
  BY ReadyParts DEF Readies
<1> HIDE DEF z
<1>3. /\ Sane(z) /\ z \in ZoneState /\ z.at = t /\ GoodBelief(z.belief) /\ z.belief.at = t
      /\ z.belief.generation \in {NoTime, z.sensor.start}
      /\ GoodSensor(z.sensor, t) /\ z.sensor \in SensorType
  BY <1>2 DEF Found
<1>4. /\ off \in ZoneState /\ off.at = t /\ off.belief = z.belief /\ off.policy = z.policy
      /\ off.occupied = z.occupied /\ off.sensor.status = "clearing"
      /\ off.sensor.start = z.sensor.start /\ off.sensor.clearedAt = t
  BY <1>3 DEF ZoneState, SensorType, Levels, Statuses
<1> HIDE DEF off
<1>5. GoodSensor(off.sensor, t)
  <2>1. z.sensor.start <= t /\ t <= t /\ t # NoTime /\ z.sensor.start # NoTime
    BY <1>1, <1>3, Constants DEF GoodSensor
  <2>2. off.sensor \in SensorType
    BY <1>4, ZoneParts
  <2> QED BY <1>4, <2>1, <2>2 DEF GoodSensor
<1>6. Sane(off)
  BY <1>3, <1>4, <1>5, Made
<1>7. ClearAhead(off)
  BY <1>4, Constants DEF ClearAhead, ClearsAt
<1>8. Passes(z, off)
  BY <1>3, <1>4, <1>6, <1>7, SameFollows DEF Passes, OnWay
<1>9. Passes(z, end) /\ Branched(end)
  BY <1>8, ReconciledPasses
<1> HIDE DEF end
<1>10. Sane(end) /\ end.at = t
  BY <1>3, <1>9 DEF Passes, OnWay
<1>11. Reholds(end, h)
  BY <1>10, HoldFollows
<1> HIDE DEF h
<1>12. GoodBelief(h.belief) /\ h.belief.at = t
  BY <1>10, <1>11 DEF Reholds, Frame, Sane, Formed
<1>13. h.belief.at <= t
  BY <1>12
<1>14. GoodBelief(b) /\ b.at <= t
  BY <1>2, <1>12, <1>13, KeptIs
<1> HIDE DEF b
<1> QED BY <1>1, <1>2, <1>9, <1>14, QuietEnds DEF z

\* Only the belief of y moves.
LEMMA BeliefOnWay ==
    ASSUME NEW z, NEW x, OnWay(z, x), NEW b, GoodBelief(b),
           b.at = x.belief.at, b.hold = x.belief.hold, b.generation = x.belief.generation
    PROVE  OnWay(z, WithBelief(x, b))
<1> DEFINE y == WithBelief(x, b)
<1> SUFFICES OnWay(z, y)
  OBVIOUS
<1>1. Sane(x) /\ x.belief.at = x.at /\ x.belief.generation \in {NoTime, x.sensor.start}
  BY DEF OnWay, Sane, Formed
<1>2. b.at = x.at /\ b.hold = x.belief.hold /\ b.generation \in {NoTime, x.sensor.start}
  BY <1>1
<1>3. Believes(x, y, b)
  BY <1>1, <1>2, BeliefSet DEF Sane
<1> HIDE DEF y
<1>4. Sane(y)
  BY <1>1, <1>2, <1>3 DEF Believes, Sane, HoldsStill
<1>5. y.at = x.at /\ y.occupied = x.occupied /\ y.sensor = x.sensor /\ y.policy = x.policy
  BY <1>3 DEF Believes, Frame
<1> QED BY <1>4, <1>5 DEF OnWay, ClearAhead, ClearsAt

LEMMA BeliefPasses ==
    ASSUME NEW z, NEW x, Passes(z, x), Branched(x), NEW b, GoodBelief(b), Same(x.belief, b)
    PROVE  Passes(z, WithBelief(x, b)) /\ Branched(WithBelief(x, b))
<1> DEFINE y == WithBelief(x, b)
<1> SUFFICES Passes(z, y) /\ Branched(y)
  OBVIOUS
<1>1. OnWay(z, y)
  BY BeliefOnWay DEF Passes, Same
<1>2. Formed(x) /\ x.belief.at = x.at /\ x.belief.generation \in {NoTime, x.sensor.start}
  BY DEF Passes, OnWay, Sane, Formed
<1>3. Believes(x, y, b)
  BY <1>2, BeliefSet DEF Same
<1> HIDE DEF y
<1>4. Follows(x, y) /\ Unmoved(x, y)
  BY <1>3, SameFollows DEF Believes, Frame, Same, Unmoved
<1> QED BY <1>1, <1>4, FollowsChain, UnmovedBranched DEF Passes

LEMMA BaselineEnds ==
    ASSUME Sane(zone), NEW t \in Nat, NEW pre, Readies(zone, t, pre), BaselineOff(pre)
    PROVE  KeepsOn(pre.step.zone)
<1> DEFINE z == pre.step.zone
           x == [z EXCEPT !.sensor.level = "off",
                          !.sensor.status = IF @ = "unavailable" THEN "baseline" ELSE @]
           off == Reconciled(x)
           c == AvailabilityClear(off.belief)
           b == BaselineBefore(c, off.belief, pre.retained)
           y == WithBelief(off, c)
<1>1. /\ zone.occupied /\ z.sensor.level = "unavailable"
      /\ Call(Concluded(Step(y, pre.step.event), Unheard, b))
  BY DEF BaselineOff, WithBelief
<1>2. Found(zone, z, t, pre.step.event) /\ GoodKept(pre.retained, t)
  BY ReadyParts DEF Readies
<1> HIDE DEF z, y
<1>3. /\ Sane(z) /\ ClearAhead(z) /\ z \in ZoneState /\ z.at = t /\ GoodBelief(z.belief)
      /\ z.belief.at = t /\ z.belief.generation \in {NoTime, z.sensor.start}
      /\ GoodSensor(z.sensor, t) /\ z.sensor \in SensorType
  BY <1>2 DEF Found
<1>4. /\ x \in ZoneState /\ x.at = t /\ x.belief = z.belief /\ x.policy = z.policy
      /\ x.occupied = z.occupied /\ x.sensor.level = "off"
      /\ x.sensor.status = IF z.sensor.status = "unavailable" THEN "baseline" ELSE z.sensor.status
      /\ x.sensor.start = z.sensor.start /\ x.sensor.clearedAt = z.sensor.clearedAt
  BY <1>3 DEF ZoneState, SensorType, Levels, Statuses
<1> HIDE DEF x
<1>5. GoodSensor(x.sensor, t)
  <2>1. z.sensor.start <= t /\ z.sensor.clearedAt <= t
    BY <1>3 DEF GoodSensor
  <2>2. x.sensor \in SensorType
    BY <1>4, ZoneParts
  <2> QED BY <1>3, <1>4, <2>1, <2>2 DEF GoodSensor
<1>6. Sane(x)
  BY <1>3, <1>4, <1>5, Made
<1>7. ClearAhead(x)
  BY <1>3, <1>4 DEF ClearAhead, ClearsAt
<1>8. Passes(z, x)
  BY <1>3, <1>4, <1>6, <1>7, SameFollows DEF Passes, OnWay
<1>9. Passes(z, off) /\ Branched(off)
  BY <1>8, ReconciledPasses
<1> HIDE DEF off
<1>10. GoodBelief(off.belief) /\ off.belief.at = t
  BY <1>3, <1>9 DEF Passes, OnWay, Sane, Formed
<1>11. GoodBelief(c) /\ Same(off.belief, c)
  BY <1>10, AvailableAgain
<1>12. b = off.belief \/ (b = pre.retained /\ pre.retained # Nothing)
  BY DEF BaselineBefore, IsKept
<1> HIDE DEF b, c
<1>13. Passes(z, y) /\ Branched(y)
  BY <1>9, <1>11, BeliefPasses DEF y
<1>14. GoodBelief(b) /\ b.at <= t
  <2>1. off.belief.at <= t
    BY <1>10
  <2> QED BY <1>2, <1>10, <1>12, <2>1 DEF GoodKept
<1> QED BY <1>1, <1>2, <1>13, <1>14, QuietEnds DEF z

LEMMA OutageEnds ==
    ASSUME Sane(zone), NEW t \in Nat, NEW pre, Readies(zone, t, pre), Outage(pre)
    PROVE  KeepsOn(pre.step.zone)
<1> DEFINE z == pre.step.zone
           x == [z EXCEPT !.sensor.level = "unavailable", !.sensor.status = "unavailable",
                          !.sensor.clearedAt = NoTime, !.sensor.correlated = FALSE,
                          !.departs = NoTime]
           lost == Reconciled(x)
           c == ApplyUnavailable(lost.belief)
           y == WithBelief(lost, c)
<1>1. /\ zone.occupied
      /\ Call(Concluded(Step(y, pre.step.event), Unheard, lost.belief))
  BY DEF Outage, WithBelief
<1>2. Found(zone, z, t, pre.step.event)
  BY ReadyParts
<1> HIDE DEF z, y
<1>3. /\ Sane(z) /\ z \in ZoneState /\ z.at = t /\ GoodBelief(z.belief)
      /\ z.belief.at = t /\ z.belief.generation \in {NoTime, z.sensor.start}
      /\ GoodSensor(z.sensor, t) /\ z.sensor \in SensorType
  BY <1>2 DEF Found
<1>4. /\ x \in ZoneState /\ x.at = t /\ x.belief = z.belief /\ x.policy = z.policy
      /\ x.occupied = z.occupied /\ x.sensor.level = "unavailable"
      /\ x.sensor.status = "unavailable"
      /\ x.sensor.start = z.sensor.start /\ x.sensor.clearedAt = NoTime
  BY <1>3 DEF ZoneState, SensorType, Levels, Statuses
<1> HIDE DEF x
<1>5. GoodSensor(x.sensor, t)
  <2>1. z.sensor.start <= t /\ NoTime <= t
    BY <1>3, Constants DEF GoodSensor
  <2>2. x.sensor \in SensorType
    BY <1>4, ZoneParts
  <2> QED BY <1>4, <2>1, <2>2 DEF GoodSensor
<1>6. Sane(x)
  BY <1>3, <1>4, <1>5, Made
<1>7. Passes(z, x)
  BY <1>3, <1>4, <1>6, SameFollows DEF Passes, OnWay, ClearAhead
<1>8. Passes(z, lost) /\ Branched(lost)
  BY <1>7, ReconciledPasses
<1> HIDE DEF lost
<1>9. GoodBelief(lost.belief) /\ lost.belief.at = t
  BY <1>3, <1>8 DEF Passes, OnWay, Sane, Formed
<1>10. GoodBelief(c) /\ Same(lost.belief, c)
  BY <1>9, Unavailable
<1> HIDE DEF c
<1>11. Passes(z, y) /\ Branched(y)
  BY <1>8, <1>10, BeliefPasses DEF y
<1>12. lost.belief.at <= t
  BY <1>9
<1> QED BY <1>1, <1>2, <1>9, <1>11, <1>12, QuietEnds DEF z

\* A new episode of the zone has started: its belief has a generation.
Arriving(z, y) == OnWay(z, y) /\ y.belief.generation # NoTime

LEMMA Generated ==
    ASSUME NEW z, NEW y, Arriving(z, y)
    PROVE  GoodBelief(y.belief) /\ y.belief.generation # NoTime
BY DEF Arriving, OnWay, Sane, Formed

\* The new episode of the zone: an observation, if its profile keeps a record.
Dated(z, y) ==
    /\ Stay => y.belief.latest \in {NoTime, y.at}
    /\ ~Stay => y.belief.latest = z.belief.latest

LEMMA WitnessDated ==
    ASSUME NEW b, GoodBelief(b), NEW authorized
    PROVE  LET c == Witness(b, authorized)
           IN  /\ Stay => c.latest \in {NoTime, b.at}
               /\ ~Stay => c.latest = b.latest
<1>1. Observe(b).latest = b.at
  BY DEF Observe, GoodBelief, BeliefType
<1> QED BY <1>1 DEF Witness

\* Only where the paths and the ledger have it is moved.
LEMMA LocatedOnWay ==
    ASSUME NEW z, NEW x, OnWay(z, x), NEW m, Covered(x, m)
    PROVE  OnWay(z, m)
<1>1. Sane(m) /\ Frame(x, m) /\ Lit(x, m)
  BY DEF Covered
<1>2. m.at = x.at /\ m.occupied = x.occupied /\ m.sensor = x.sensor
      /\ m.policy.active = x.policy.active
  BY <1>1 DEF Frame, Lit
<1> QED BY <1>1, <1>2 DEF OnWay, ClearAhead, ClearsAt

LEMMA EndpointOnWay ==
    ASSUME NEW z, NEW x, Arriving(z, x)
    PROVE  Arriving(z, AtEndpoint(x)) /\ AtEndpoint(x).belief.latest = x.belief.latest
<1> DEFINE m == Located(x, "endpoint", x.sensor.start, FALSE)
           b == RestorePath(m.belief)
           y == WithBelief(m, b)
<1> SUFFICES Arriving(z, y) /\ y.belief.latest = x.belief.latest
  BY DEF AtEndpoint, WithBelief
<1>1. OnWay(z, x) /\ Sane(x) /\ x.belief.generation # NoTime
  BY DEF Arriving, OnWay
<1>2. x.sensor.start \in Nat \cup {NoTime} /\ "endpoint" \in Covers
  BY <1>1, ZoneParts, SensorParts DEF Sane, Formed, Covers
<1>3. Covered(x, m)
  BY <1>1, <1>2, LocationSet
<1> HIDE DEF m
<1>4. OnWay(z, m) /\ m.belief = x.belief
  BY <1>1, <1>3, LocatedOnWay DEF Covered
<1>5. Formed(m) /\ GoodBelief(m.belief) /\ m.belief.at = m.at
      /\ m.belief.generation \in {NoTime, m.sensor.start}
  BY <1>4 DEF OnWay, Sane, Formed
<1>6. GoodBelief(b) /\ Same(m.belief, b)
  BY <1>1, <1>4, <1>5, PathRestored
<1> HIDE DEF b
<1>7. b.at = m.belief.at /\ b.hold = m.belief.hold /\ b.generation = m.belief.generation
      /\ b.latest = m.belief.latest
  BY <1>6 DEF Same
<1>8. OnWay(z, y)
  BY <1>4, <1>6, <1>7, BeliefOnWay
<1>9. b.at = m.at /\ b.generation \in {NoTime, m.sensor.start}
  BY <1>5, <1>7
<1>10. Believes(m, y, b)
  BY <1>5, <1>6, <1>9, BeliefSet
<1> HIDE DEF y
<1> QED BY <1>1, <1>4, <1>7, <1>8, <1>10 DEF Believes, Arriving

LEMMA SelectedOnWay ==
    ASSUME NEW z, NEW x, Arriving(z, x)
    PROVE  OnWay(z, SelectedArrival(x)) /\ Dated(x, SelectedArrival(x))
<1> DEFINE w == AtEndpoint(x)
           q == ApplyArrival(w.belief)
           b == Witness(q, TRUE)
           y == [w EXCEPT !.departs = NoTime, !.belief = b]
<1>1. SelectedArrival(x) = y
  BY DEF SelectedArrival
<1>2. Arriving(z, w) /\ w.belief.latest = x.belief.latest
  BY EndpointOnWay
<1>21. w.at = z.at /\ x.at = z.at
  BY <1>2 DEF Arriving, OnWay
<1> HIDE DEF w
<1>3. GoodBelief(w.belief) /\ w.belief.generation # NoTime
  BY <1>2, Generated
<1>4. GoodBelief(q) /\ Same(w.belief, q)
  BY <1>3, Arrival
<1> HIDE DEF q
<1>5. q.generation # NoTime
  BY <1>3, <1>4 DEF Same
<1>6. /\ GoodBelief(b) /\ b.at = q.at /\ b.hold = q.hold /\ b.generation = q.generation
      /\ Stay => b.latest \in {NoTime, q.at}
      /\ ~Stay => b.latest = q.latest
  BY <1>4, <1>5, Observed, WitnessDated
<1> HIDE DEF b
<1>7. b.at = w.belief.at /\ b.hold = w.belief.hold /\ b.generation = w.belief.generation
  BY <1>4, <1>6 DEF Same
<1>8. Sane(w) /\ ClearAhead(w) /\ w.occupied = z.occupied /\ w.policy.active = z.policy.active
  BY <1>2 DEF Arriving, OnWay
<1>9. w \in ZoneState /\ w.belief.at = w.at /\ w.belief.generation \in {NoTime, w.sensor.start}
      /\ GoodSensor(w.sensor, w.at)
  BY <1>8 DEF Sane, Formed
<1>10. /\ y \in ZoneState /\ y.at = w.at /\ y.belief = b /\ y.policy = w.policy
       /\ y.occupied = w.occupied /\ y.sensor = w.sensor
  BY <1>6, <1>9 DEF ZoneState, GoodBelief
<1> HIDE DEF y
<1>11. Sane(y)
  BY <1>6, <1>7, <1>8, <1>9, <1>10, Made
<1>12. OnWay(z, y)
  BY <1>8, <1>10, <1>11, <1>21 DEF OnWay, ClearAhead, ClearsAt
<1>13. Dated(x, y)
  BY <1>2, <1>21, <1>4, <1>6, <1>9, <1>10 DEF Dated, Same
<1> QED BY <1>1, <1>12, <1>13

\* Cover is lost, or gained, in the middle of a call.
LEMMA CoverOnWay ==
    ASSUME NEW z, NEW x, OnWay(z, x), NEW before, NEW m, Covered(x, m)
    PROVE  LET y == CoverageChanged(before, m)
           IN  /\ OnWay(z, y) /\ y.belief.generation = x.belief.generation
               /\ Follows(x, y) /\ y.belief.resolvedAt = x.belief.resolvedAt
               /\ Unmoved(m, y)
<1> DEFINE y == CoverageChanged(before, m)
<1> SUFFICES OnWay(z, y) /\ y.belief.generation = x.belief.generation /\ Follows(x, y)
               /\ y.belief.resolvedAt = x.belief.resolvedAt /\ Unmoved(m, y)
  OBVIOUS
<1>1. Sane(m) /\ m.belief = x.belief /\ m.policy = x.policy
  BY DEF Covered
<1>2. OnWay(z, m)
  BY LocatedOnWay
<1>3. Moves(m, y) /\ Follows(m, y) /\ y.belief.resolvedAt = m.belief.resolvedAt
  BY <1>1, CoverageMoves, CoverageFollows
<1> HIDE DEF y
<1>4. Sane(y) /\ Frame(m, y) /\ Lit(m, y) /\ Unmoved(m, y)
  BY <1>3 DEF Moves, Frame, Unmoved
<1>5. y.at = m.at /\ y.occupied = m.occupied /\ y.sensor = m.sensor
      /\ y.policy.active = m.policy.active
  BY <1>4 DEF Frame, Lit
<1>6. OnWay(z, y)
  BY <1>2, <1>4, <1>5 DEF OnWay, ClearAhead, ClearsAt
<1>7. y.belief.generation = x.belief.generation /\ y.belief.resolvedAt = x.belief.resolvedAt
  BY <1>1, <1>3 DEF Moves
<1>8. Follows(x, y)
  <2>1. Follows(x, m)
    BY <1>1, SameFollows
  <2> QED BY <1>3, <2>1, FollowsChain
<1> QED BY <1>4, <1>6, <1>7, <1>8

LEMMA OtherOnWay ==
    ASSUME NEW z, NEW x, Arriving(z, x), NEW correlated \in BOOLEAN, NEW authorized \in BOOLEAN
    PROVE  /\ OnWay(z, OtherArrival(x, correlated, authorized))
           /\ Dated(x, OtherArrival(x, correlated, authorized))
<1> DEFINE left == Located(x, "none", NoTime, ~correlated)
           adopted == AtEndpoint(x)
           chosen == IF authorized /\ ~correlated THEN adopted ELSE left
           q == IF authorized THEN ApplyArrival(chosen.belief) ELSE chosen.belief
           b == Witness(q, authorized)
           y == WithBelief(chosen, b)
<1>1. OtherArrival(x, correlated, authorized) = y
  BY DEF OtherArrival, WithBelief
<1> HIDE DEF y
<1>2. Covered(x, left)
  <2>1. Sane(x) /\ "none" \in Covers /\ (~correlated) \in BOOLEAN
    BY DEF Arriving, OnWay, Covers
  <2> QED BY <2>1, LocationSet
<1> HIDE DEF left
<1>3. Arriving(z, left) /\ left.belief.latest = x.belief.latest
  BY <1>2, LocatedOnWay DEF Arriving, Covered
<1>4. Arriving(z, adopted) /\ adopted.belief.latest = x.belief.latest
  BY EndpointOnWay
<1> HIDE DEF adopted
<1>5. Arriving(z, chosen) /\ chosen.belief.latest = x.belief.latest /\ chosen.at = x.at
  BY <1>3, <1>4 DEF Arriving, OnWay
<1> HIDE DEF chosen
<1>6. GoodBelief(chosen.belief) /\ chosen.belief.generation # NoTime
  BY <1>5, Generated
<1>7. GoodBelief(q) /\ Same(chosen.belief, q)
  <2>1. CASE authorized
    BY <1>6, <2>1, Arrival
  <2>2. CASE ~authorized
    BY <1>6, <2>2 DEF Same
  <2> QED BY <2>1, <2>2
<1> HIDE DEF q
<1>8. q.generation # NoTime
  BY <1>6, <1>7 DEF Same
<1>9. /\ GoodBelief(b) /\ b.at = q.at /\ b.hold = q.hold /\ b.generation = q.generation
      /\ Stay => b.latest \in {NoTime, q.at}
      /\ ~Stay => b.latest = q.latest
  BY <1>7, <1>8, Observed, WitnessDated
<1> HIDE DEF b
<1>10. b.at = chosen.belief.at /\ b.hold = chosen.belief.hold
       /\ b.generation = chosen.belief.generation
  BY <1>7, <1>9 DEF Same
<1>11. OnWay(z, y)
  <2>1. OnWay(z, chosen)
    BY <1>5 DEF Arriving
  <2> QED BY <2>1, <1>9, <1>10, BeliefOnWay DEF y
<1>12. Dated(x, y)
  <2>1. Formed(chosen) /\ chosen.belief.at = chosen.at
        /\ chosen.belief.generation \in {NoTime, chosen.sensor.start}
    BY <1>5 DEF Arriving, OnWay, Sane, Formed
  <2>2. b.at = chosen.at /\ b.generation \in {NoTime, chosen.sensor.start}
    BY <1>10, <2>1
  <2>3. Believes(chosen, y, b)
    BY <1>9, <2>1, <2>2, BeliefSet DEF y
  <2>4. y.belief = b /\ y.at = b.at
    BY <1>10, <2>1, <2>3 DEF Believes, Frame
  <2> QED BY <1>5, <1>7, <1>9, <2>4 DEF Dated, Same
<1> QED BY <1>1, <1>11, <1>12

Evidence(c, a) ==
    [Unheard EXCEPT !.fact = IF c THEN "correlated_positive" ELSE "positive", !.authorized = a]

LEMMA StartEnds ==
    ASSUME Sane(zone), NEW t \in Nat, NEW pre, Readies(zone, t, pre), NEW correlated \in BOOLEAN,
           NEW selected \in BOOLEAN, NEW authorized \in BOOLEAN,
           StartOn(pre, correlated, selected, authorized)
    PROVE  KeepsOn(pre.step.zone)
<1> DEFINE z == pre.step.zone
           gain == IF correlated THEN CorrelatedGain ELSE PositiveGain
           b == ApplyPositive(z.belief, z.at, z.at, gain)
           s == Started(z.sensor, z.at, correlated)
           on == [z EXCEPT !.sensor = s, !.source = z.at, !.belief = b]
           after == IF selected THEN SelectedArrival(on)
                    ELSE OtherArrival(on, correlated, authorized)
           i == Evidence(correlated, authorized)
<1>1. /\ zone.occupied
      /\ Call(Concluded(Step(Reconciled(after), pre.step.event), i, z.belief))
  BY DEF StartOn, Evidence
<1>2. Found(zone, z, t, pre.step.event)
  BY ReadyParts
<1> HIDE DEF z
<1>3. /\ Sane(z) /\ z \in ZoneState /\ z.at = t /\ GoodBelief(z.belief)
      /\ z.belief.at = t /\ z.sensor \in SensorType
  BY <1>2 DEF Found
<1>4. /\ GoodBelief(b) /\ b.at = t /\ b.hold = z.belief.hold /\ b.generation = t
      /\ b.latest = z.belief.latest
  <2>1. gain \in Nat
    BY Constants
  <2> HIDE DEF gain
  <2>2. LET c == ApplyPositive(z.belief, z.belief.at, z.belief.at, gain)
        IN  GoodBelief(c) /\ c.at = z.belief.at /\ c.hold = z.belief.hold
            /\ c.generation = z.belief.at /\ c.latest = z.belief.latest
    BY <1>3, <2>1, Positive
  <2> QED BY <1>3, <2>2 DEF gain
<1>5. /\ s \in SensorType /\ s.start = t /\ s.status = "asserted" /\ s.clearedAt = NoTime
  BY <1>3 DEF Started, SensorType, Levels, Statuses
<1> HIDE DEF b, s
<1>6. GoodSensor(s, t)
  <2>1. t <= t /\ NoTime <= t /\ t # NoTime
    BY Constants
  <2> QED BY <1>5, <2>1 DEF GoodSensor
<1>7. /\ on \in ZoneState /\ on.at = t /\ on.belief = b /\ on.policy = z.policy
      /\ on.occupied = z.occupied /\ on.sensor = s
  BY <1>3, <1>4, <1>5 DEF ZoneState, GoodBelief
<1> HIDE DEF on
<1>8. Sane(on)
  BY <1>3, <1>4, <1>5, <1>6, <1>7, Made
<1>9. Arriving(z, on)
  <2>1. t # NoTime
    BY Constants
  <2> QED BY <1>3, <1>4, <1>5, <1>7, <1>8, <2>1 DEF Arriving, OnWay, ClearAhead
<1>10. OnWay(z, after) /\ Dated(on, after)
  BY <1>9, SelectedOnWay, OtherOnWay
<1> HIDE DEF after
<1> DEFINE y == Reconciled(after)
<1>11. OnWay(z, y) /\ Branched(y) /\ Follows(after, y)
  BY <1>10, ReconciledOnWay, ReconciledUndisturbed DEF OnWay, Undisturbed
<1> HIDE DEF y
<1>12. i \in InputType
  BY UnheardIs DEF Evidence, InputType
<1> HIDE DEF i
<1>13. z.belief.at <= t
  BY <1>3
<1>14. CallEnds /\ Ends(y, i, zone')
  BY <1>1, <1>2, <1>3, <1>11, <1>12, <1>13, ObservationEnds DEF y
<1>15. Kept(z) => Kept(zone')
  <2> SUFFICES ASSUME Kept(z) PROVE Kept(zone')
    OBVIOUS
  <2>1. ~Stay => z.belief.latest = NoTime
    BY DEF Kept, Steady, Fresh
  <2>2. y.at = after.at /\ y.belief.latest = after.belief.latest
    BY <1>10, <1>11 DEF OnWay, Follows
  <2>3. /\ Stay => y.belief.latest \in {NoTime, y.at}
        /\ ~Stay => y.belief.latest = NoTime
    BY <1>4, <1>7, <1>10, <2>1, <2>2 DEF Dated
  <2> QED BY <1>11, <1>14, <2>3, HeardKept
<1>16. Branched(zone')
  BY <1>11, <1>14, UnmovedBranched DEF Ends
<1> QED BY <1>14, <1>15, <1>16 DEF KeepsOn, z

-----------------------------------------------------------------------------
(* Calls about the rest of the house. *)

\* The presence and the lease of y have been settled: it is z now.
Rests(y, z, change) ==
    /\ Sane(z) /\ HoldOK(z) /\ ClearAhead(z) /\ z.at = y.at /\ z.occupied = y.occupied
    /\ z.policy.active = y.policy.active
    /\ change = "granted" => z.lease = z.at + LeaseTime
    /\ Follows(y, z) /\ Unmoved(y, z)

LEMMA HoldLeased ==
    ASSUME NEW y, Sane(y), ClearAhead(y), NEW change \in LeaseChanges
    PROVE  Rests(y, Leased(ReconcileHold(y), change), change)
<1> DEFINE h == ReconcileHold(y)
           l == IF change = "granted" THEN h.at + LeaseTime
                ELSE IF change = "cancelled" \/ h.lease <= h.at THEN NoTime ELSE h.lease
           z == WithLease(h, l)
<1>1. Leased(h, change) = z
  BY DEF Leased, WithLease
<1>2. Reholds(y, h) /\ Follows(y, h) /\ Unmoved(y, h)
  BY HoldFollows, HoldUndisturbed DEF Undisturbed, Reholds, Frame, Unmoved
<1> HIDE DEF h
<1>3. Stands(y, h) /\ h.at = y.at /\ h.sensor = y.sensor /\ HoldOK(h) /\ Sane(h)
  BY <1>2, ReholdsStands DEF Stands
<1>4. ClearAhead(h)
  BY <1>3 DEF ClearAhead, ClearsAt
<1>5. h.at \in Nat /\ h.lease \in Nat \cup {NoTime}
  BY <1>3, ZoneParts DEF Sane, Formed
<1>6. l \in Nat \cup {NoTime} /\ (change = "granted" => l = h.at + LeaseTime)
  <2>1. CASE change = "granted"
    <3>1. l = h.at + LeaseTime
      BY <2>1
    <3>2. h.at + LeaseTime \in Nat
      BY <1>5, Constants
    <3> HIDE DEF l
    <3> QED BY <3>1, <3>2
  <2>2. CASE change # "granted"
    <3>1. l \in {NoTime, h.lease}
      BY <2>2
    <3> HIDE DEF l
    <3> QED BY <1>5, <2>2, <3>1
  <2> QED BY <2>1, <2>2
<1> HIDE DEF l
<1>7. z.lease = l /\ z.policy = h.policy /\ z.belief = h.belief /\ Unmoved(h, z)
  BY <1>3, <1>6, LeaseSet DEF Unmoved
<1>8. Sane(z) /\ HoldOK(z) /\ ClearAhead(z) /\ Lit(h, z) /\ z.at = h.at /\ z.occupied = h.occupied
  BY <1>3, <1>4, <1>6, LeaseSetKeeps
<1> HIDE DEF z
<1>9. z.policy.active = y.policy.active /\ z.occupied = y.occupied
  BY <1>3, <1>8 DEF Lit, Stands
<1>10. change = "granted" => z.lease = z.at + LeaseTime
  BY <1>6, <1>7, <1>8
<1>11. Follows(y, z) /\ Unmoved(y, z)
  <2>1. Follows(h, z)
    BY <1>7, SameFollows
  <2> QED BY <1>2, <1>7, <2>1, FollowsChain, UnmovedChain
<1>12. Rests(y, z, change)
  BY <1>3, <1>8, <1>9, <1>10, <1>11 DEF Rests
<1> QED BY <1>1, <1>12 DEF h

LEMMA EndingLeaves ==
    ASSUME NEW s, NEW z, Sane(z), NEW i \in InputType, NEW b, GoodBelief(b), b.at <= z.at
    PROVE  LET y == Then(s, EvaluatePolicies(z, i, b)).zone
           IN  y.at = z.at /\ y.lease = z.lease /\ y.occupied = z.occupied
<1> DEFINE x == EvaluatePolicies(z, i, b)
<1>1. Concludes(z, i, x)
  BY EvaluationEnds
<1>2. Then(s, x).zone = x.zone
  BY DEF Then, Step
<1> HIDE DEF x
<1>3. Frame(z, x.zone)
  BY <1>1 DEF Concludes, Decides
<1>4. x.zone.at = z.at /\ x.zone.lease = z.lease /\ x.zone.occupied = z.occupied
  BY <1>3 DEF Frame
<1> QED BY <1>2, <1>4 DEF x

\* A lease that is granted lights a dark zone.
LEMMA GrantFinishes ==
    ASSUME NEW was \in BOOLEAN, NEW r, Finishes(was, r), r.zone.occupied,
           NEW change, change = "granted" => r.zone.lease = r.zone.at + LeaseTime
    PROVE  /\ Finishes(was, Granted(r, change)) /\ Unmoved(r.zone, Granted(r, change).zone)
           /\ Kept(r.zone) => Kept(Granted(r, change).zone)
<1> DEFINE y == r.zone
           o == ApplyPrediction(y.policy, y.at, y.lease)
           z == [y EXCEPT !.policy = o.policy]
           g == Granted(r, change)
<1> SUFFICES Finishes(was, g) /\ Unmoved(y, g.zone) /\ (Kept(y) => Kept(g.zone))
  OBVIOUS
<1>1. CASE change # "granted"
  BY <1>1 DEF Granted, Unmoved, Rooted
<1>2. CASE change = "granted"
  <2>1. g.zone = z /\ g.event = Last(r.event, o.event)
    BY <1>2 DEF Granted, Then, Step, Last
  <2> HIDE DEF g
  <2>2. y.lease = y.at + LeaseTime /\ y.occupied
    BY <1>2
  <2>3. Settled(y) /\ Tells(was, y.policy.active, r.event)
    BY DEF Finishes
  <2> HIDE DEF y
  <2>4. /\ Sane(y) /\ HoldOK(y) /\ ClearAhead(y) /\ NotLate(y) /\ y \in ZoneState
        /\ GoodPolicy(y.policy) /\ y.policy.evaluatedAt <= y.at /\ y.at \in Nat
        /\ y.policy.active \in BOOLEAN
    BY <2>3, ZoneParts, ActiveIs DEF Settled, Sane, Formed
  <2>5. y.lease \in Nat
    BY <2>2, <2>4, Constants
  <2>51. y.at < y.lease
    BY <2>2, <2>4, Constants
  <2>52. GoodPolicy(y.policy) /\ y.at \in Nat
    BY <2>4
  <2>53. y.policy.evaluatedAt <= y.at
    BY <2>4
  <2>6. Lights(y.policy, y.at, y.lease, o)
    BY <2>5, <2>51, <2>52, <2>53, PredictionLights
  <2> HIDE DEF o
  <2>7. o.policy \in PolicyType /\ o.policy.active \in BOOLEAN
    BY <2>6, PolicyParts DEF Lights, GoodPolicy, FairPolicy
  <2>8. /\ z \in ZoneState /\ z.policy = o.policy /\ z.belief = y.belief /\ z.cover = y.cover
        /\ z.at = y.at /\ z.occupied = y.occupied /\ z.sensor = y.sensor
        /\ z.source = y.source /\ z.lease = y.lease /\ Unmoved(y, z)
    BY <2>4, <2>7, PolicyPut DEF Unmoved
  <2> HIDE DEF z
  <2>9. z.policy.evaluatedAt <= z.at
    BY <2>6, <2>8 DEF Lights
  <2>10. HoldsStill(z)
    BY <2>4, <2>6, <2>8 DEF Lights, Sane, HoldsStill
  <2>11. Sane(z)
    BY <2>4, <2>6, <2>8, <2>9, <2>10 DEF Lights, Sane, Formed
  <2>12. HoldOK(z) /\ ClearAhead(z) /\ VacantOK(z)
    BY <2>2, <2>4, <2>8 DEF HoldOK, Witnessed, ClearAhead, ClearsAt, VacantOK
  <2>13. NotLate(z)
    BY <2>4, <2>6, <2>8 DEF Lights, NotLate
  <2>14. LeaseOK(z)
    BY <2>3, <2>51, <2>6, <2>8 DEF Lights, LeaseOK, Settled
  <2>15. Settled(z)
    BY <2>11, <2>12, <2>13, <2>14 DEF Settled
  <2>16. Tells(was, o.policy.active, Last(r.event, o.event))
    BY <2>3, <2>4, <2>6, <2>7, GrantTells DEF Lights
  <2>17. Kept(y) => Kept(z)
    <3> SUFFICES ASSUME Kept(y) PROVE Kept(z)
      OBVIOUS
    <3>1. Branched(z)
      BY <2>8, UnmovedBranched DEF Kept
    <3>2. CASE o.policy = y.policy
      BY <2>8, <3>1, <3>2, SameSteady DEF Kept
    <3>3. CASE o.policy.provenance = "prediction"
      <4>1. z.policy.provenance # "evidence"
        BY <2>8, <3>3
      <4>2. Fresh(z)
        BY <2>8, <4>1 DEF Kept, Steady, Fresh
      <4> QED BY <3>1, <4>1, <4>2, UnheldSteady DEF Kept, Steady
    <3> QED BY <2>6, <3>2, <3>3 DEF Lights
  <2> QED BY <2>1, <2>8, <2>15, <2>16, <2>17 DEF Finishes
<1> QED BY <1>1, <1>2

LEMMA ElsewhereFinishes ==
    ASSUME NEW was \in BOOLEAN, NEW s, Begun(was, s), s.zone.occupied,
           NEW kept, GoodKept(kept, s.zone.at), NEW change \in LeaseChanges
    PROVE  /\ Finishes(was, Elsewhere(s, kept, change))
           /\ Unmoved(s.zone, Elsewhere(s, kept, change).zone)
           /\ Fresh(s.zone) /\ Branched(s.zone) => Kept(Elsewhere(s, kept, change).zone)
<1> DEFINE y == s.zone
           h == ReconcileHold(y)
           z == Leased(h, change)
           k == LossOr(y, h, kept)
           b == KeptOr(k, z.belief)
           r == Then(s, EvaluatePolicies(z, Unheard, b))
           e == Elsewhere(s, kept, change)
<1>1. e = Granted(r, change)
  BY DEF Elsewhere
<1> HIDE DEF e
<1>2. Sane(y) /\ ClearAhead(y) /\ y.occupied
  BY DEF Begun
<1>3. Rests(y, z, change)
  BY <1>2, HoldLeased
<1> HIDE DEF z
<1>4. /\ Sane(z) /\ HoldOK(z) /\ ClearAhead(z) /\ z.at = y.at /\ z.occupied
      /\ z.policy.active = y.policy.active
      /\ change = "granted" => z.lease = z.at + LeaseTime
      /\ Follows(y, z) /\ Unmoved(y, z)
  BY <1>2, <1>3 DEF Rests
<1>5. GoodBelief(h.belief) /\ h.belief.at = y.at
  <2>1. Reholds(y, h)
    BY <1>2, HoldFollows
  <2> QED BY <2>1 DEF Reholds, Frame, Sane, Formed
<1>6. k \in {h.belief, kept}
  BY DEF LossOr
<1> HIDE DEF h, k
<1>7. y.at \in Nat /\ GoodBelief(z.belief) /\ z.belief.at = z.at
  BY <1>2, <1>4, ZoneParts DEF Sane, Formed
<1>8. h.belief.at <= y.at /\ z.belief.at <= y.at
  BY <1>4, <1>5, <1>7
<1>9. GoodKept(k, y.at)
  BY <1>5, <1>6, <1>8 DEF GoodKept
<1>10. GoodBelief(b) /\ b.at <= y.at
  BY <1>7, <1>8, <1>9, KeptIs
<1> HIDE DEF b
<1>11. b.at <= z.at
  BY <1>4, <1>10
<1>12. VacantOK(z)
  BY <1>4 DEF VacantOK
<1>13. /\ Announces(was, z.policy.active, s.event)
       /\ was = FALSE => z.policy.active = FALSE
  BY <1>4 DEF Begun
<1>14. Finishes(was, r)
  BY <1>4, <1>10, <1>11, <1>12, <1>13, UnheardIs, Ending
<1>15. r.zone.at = z.at /\ r.zone.lease = z.lease /\ r.zone.occupied = z.occupied
  BY <1>4, <1>10, <1>11, UnheardIs, EndingLeaves
<1>16. r.zone = EvaluatePolicies(z, Unheard, b).zone
  BY DEF Then, Step
<1>17. Ends(y, Unheard, r.zone)
  BY <1>4, <1>10, <1>11, <1>16, UnheardIs, EvaluationCloses, ClosesEnds
<1>18. Fresh(y) /\ Branched(y) => Kept(r.zone)
  BY <1>17, UnheardIs, QuietKept
<1> HIDE DEF r
<1>19. change = "granted" => r.zone.lease = r.zone.at + LeaseTime
  BY <1>4, <1>15
<1>20. r.zone.occupied
  BY <1>4, <1>15
<1>21. Finishes(was, e) /\ Unmoved(r.zone, e.zone) /\ (Kept(r.zone) => Kept(e.zone))
  BY <1>1, <1>14, <1>19, <1>20, GrantFinishes
<1>22. Unmoved(y, e.zone)
  BY <1>17, <1>21, UnmovedChain DEF Ends
<1> QED BY <1>18, <1>21, <1>22 DEF e

\* A call elsewhere that has left the zone in y.
LEMMA ElsewhereEnds ==
    ASSUME Sane(zone), zone.occupied, NEW t \in Nat, NEW z, NEW event, Found(zone, z, t, event),
           NEW y, Passes(z, y), Branched(y), NEW kept, GoodKept(kept, t), NEW change \in LeaseChanges
    PROVE  LET c == Elsewhere(Step(y, event), kept, change)
           IN  /\ Finishes(zone.policy.active, c) /\ Branched(c.zone)
               /\ Kept(z) => Kept(c.zone)
<1> DEFINE s == Step(y, event)
           c == Elsewhere(s, kept, change)
<1>1. s.zone = y /\ s.event = event
  BY DEF Step
<1> HIDE DEF s
<1>2. Sane(y) /\ ClearAhead(y) /\ y.at = t /\ y.occupied /\ y.policy.active = z.policy.active
  BY DEF Passes, OnWay, Found
<1>3. /\ Announces(zone.policy.active, z.policy.active, event)
      /\ zone.policy.active = FALSE => z.policy.active = FALSE
  BY DEF Found
<1>4. Begun(zone.policy.active, s) /\ s.zone.occupied /\ s.zone.at = t
  BY <1>1, <1>2, <1>3 DEF Begun
<1>5. GoodKept(kept, s.zone.at)
  BY <1>4
<1>6. /\ Finishes(zone.policy.active, c) /\ Unmoved(s.zone, c.zone)
      /\ Fresh(s.zone) /\ Branched(s.zone) => Kept(c.zone)
  BY <1>4, <1>5, ActiveIs, ElsewhereFinishes
<1>7. Kept(z) => Fresh(y)
  BY FollowsFresh DEF Passes, Kept, Steady
<1>8. Branched(c.zone)
  BY <1>1, <1>6, UnmovedBranched
<1> QED BY <1>1, <1>6, <1>7, <1>8 DEF s

LEMMA FoundOnWay ==
    ASSUME NEW z, NEW y, NEW t, NEW event, Found(z, y, t, event) PROVE OnWay(y, y)
BY DEF Found, OnWay

LEMMA ResolvedOnWay ==
    ASSUME NEW z, NEW x, OnWay(z, x), NEW resolves, resolves => Unresolved(x.belief)
    PROVE  OnWay(z, Resolved(x, resolves)) /\ Follows(x, Resolved(x, resolves))
<1> DEFINE b == Resolve(x.belief)
<1>1. CASE resolves
  <2>1. Resolved(x, resolves) = WithBelief(x, b)
    BY <1>1 DEF Resolved, WithBelief
  <2>2. GoodBelief(x.belief)
    BY DEF OnWay, Sane, Formed
  <2>3. GoodBelief(b) /\ b.at = x.belief.at /\ b.hold = x.belief.hold
        /\ b.generation = x.belief.generation /\ b.latest = x.belief.latest
    BY <1>1, <2>2, ResolvedIs
  <2> HIDE DEF b
  <2>4. Formed(x) /\ x.belief.at = x.at /\ x.belief.generation \in {NoTime, x.sensor.start}
    BY DEF OnWay, Sane, Formed
  <2>5. Believes(x, WithBelief(x, b), b)
    BY <2>3, <2>4, BeliefSet
  <2>6. Follows(x, WithBelief(x, b))
    BY <2>3, <2>5, SameFollows DEF Believes
  <2> QED BY <2>1, <2>3, <2>6, BeliefOnWay
<1>2. CASE ~resolves
  BY <1>2, SameFollows DEF Resolved
<1> QED BY <1>1, <1>2

\* Movement out of the zone leaves the record of its occupancy alone.
MovedOut(z, x, y) ==
    /\ OnWay(z, y) /\ Follows(x, y) /\ y.belief.latest = x.belief.latest
    /\ y.belief.resolvedAt = x.belief.resolvedAt

LEMMA MovedOnWay ==
    ASSUME NEW z, NEW x, OnWay(z, x), NEW movement \in Movements
    PROVE  MovedOut(z, x, Moved(x, movement))
<1> DEFINE qualified == movement = "qualified"
           b == RegisterOutward(x.belief, x.at + OutwardWindow, qualified)
           d == IF movement = "qualified" THEN x.at + OutwardWindow ELSE x.departs
           y == [x EXCEPT !.belief = b, !.departs = d]
<1>1. Sane(x) /\ ClearAhead(x) /\ x.at = z.at /\ x.occupied = z.occupied
      /\ x.policy.active = z.policy.active
  BY DEF OnWay
<1>2. x \in ZoneState /\ x.belief.at = x.at /\ x.belief.generation \in {NoTime, x.sensor.start}
      /\ GoodSensor(x.sensor, x.at) /\ GoodBelief(x.belief)
  BY <1>1 DEF Sane, Formed
<1>3. x.at \in Nat /\ x.departs \in Nat \cup {NoTime}
  BY <1>2, ZoneParts
<1>4. CASE movement = "none" \/ x.belief.generation = NoTime
  BY <1>4, SameFollows DEF Moved, MovedOut
<1>5. CASE ~(movement = "none" \/ x.belief.generation = NoTime)
  <2>1. Moved(x, movement) = y
    BY <1>5 DEF Moved
  <2>2. x.at + OutwardWindow \in Nat /\ qualified \in BOOLEAN
    BY <1>3, Constants
  <2>3. d \in Nat \cup {NoTime}
    BY <1>3, <2>2
  <2>4. GoodBelief(b) /\ Same(x.belief, b)
    BY <1>2, <1>5, <2>2, OutwardRegistered
  <2> HIDE DEF b, d
  <2>5. b.at = x.at /\ b.hold = x.belief.hold /\ b.generation = x.belief.generation
        /\ b.latest = x.belief.latest /\ b.resolvedAt = x.belief.resolvedAt
    BY <1>2, <2>4 DEF Same
  <2>6. /\ y \in ZoneState /\ y.at = x.at /\ y.belief = b /\ y.policy = x.policy
        /\ y.occupied = x.occupied /\ y.sensor = x.sensor
    BY <1>2, <2>3, <2>4 DEF ZoneState, GoodBelief
  <2> HIDE DEF y
  <2>7. Sane(y)
    BY <1>1, <1>2, <2>4, <2>5, <2>6, Made
  <2>8. OnWay(z, y)
    BY <1>1, <2>6, <2>7 DEF OnWay, ClearAhead, ClearsAt
  <2>9. Follows(x, y)
    BY <2>5, <2>6, SameFollows
  <2> QED BY <2>1, <2>5, <2>6, <2>8, <2>9 DEF MovedOut
<1> QED BY <1>4, <1>5

\* What the paths of the zone become.
LEMMA RecoveredOnWay ==
    ASSUME NEW z, NEW x, OnWay(z, x), NEW cover \in Covers
    PROVE  Covered(x, Recovered(x, cover)) /\ Recovered(x, cover).cover = cover
<1> DEFINE v == IF cover = "none" THEN NoTime ELSE IF x.cover = "none" THEN x.source ELSE x.visit
           q == x.pending /\ cover = "none"
<1>1. Sane(x)
  BY DEF OnWay
<1>2. v \in Nat \cup {NoTime} /\ q \in BOOLEAN
  BY <1>1, ZoneParts DEF Sane, Formed
<1>3. Recovered(x, cover) = Located(x, cover, v, q)
  BY DEF Recovered
<1> HIDE DEF v, q
<1> QED BY <1>1, <1>2, <1>3, LocationSet

LEMMA SelectedElsewhereEnds ==
    ASSUME Sane(zone), NEW t \in Nat, NEW pre, Readies(zone, t, pre), NEW cover \in Covers,
           NEW resolves \in BOOLEAN, NEW lease \in LeaseChanges,
           SelectedElsewhere(pre, cover, resolves, lease)
    PROVE  KeepsOn(pre.step.zone)
<1> DEFINE z == pre.step.zone
           x == Resolved(z, resolves)
           w == Recovered(x, cover)
           m == CoverageChanged(z, w)
           y == Reconciled(m)
           e == Elsewhere(Step(y, pre.step.event), pre.retained, lease)
<1>1. zone.occupied /\ (resolves => Unresolved(z.belief)) /\ Call(e)
  BY DEF SelectedElsewhere
<1>2. Found(zone, z, t, pre.step.event) /\ GoodKept(pre.retained, t)
  BY ReadyParts DEF Readies
<1> HIDE DEF z
<1>3. OnWay(z, x) /\ Follows(z, x)
  BY <1>1, <1>2, FoundOnWay, ResolvedOnWay
<1> HIDE DEF x
<1>4. Covered(x, w)
  BY <1>3, RecoveredOnWay
<1> HIDE DEF w
<1>5. Passes(z, m)
  BY <1>3, <1>4, CoverOnWay, FollowsChain DEF Passes
<1> HIDE DEF m
<1>6. Passes(z, y) /\ Branched(y)
  BY <1>5, ReconciledPasses
<1> HIDE DEF y
<1>7. Finishes(zone.policy.active, e) /\ Branched(e.zone) /\ (Kept(z) => Kept(e.zone))
  BY <1>1, <1>2, <1>6, ElsewhereEnds
<1> QED BY <1>1, <1>7, CallsEnd DEF KeepsOn, Call, z

LEMMA SupportsSettle ==
    ASSUME NEW x, Settled(x), NEW b \in BOOLEAN
    PROVE  /\ Settled([x EXCEPT !.settled = b])
           /\ Kept(x) => Kept([x EXCEPT !.settled = b])
           /\ Unmoved(x, [x EXCEPT !.settled = b])
           /\ [x EXCEPT !.settled = b].policy = x.policy
<1> DEFINE y == [x EXCEPT !.settled = b]
<1>1. Sane(x) /\ x \in ZoneState
  BY DEF Settled, Sane, Formed
<1>2. /\ y \in ZoneState /\ y.at = x.at /\ y.occupied = x.occupied /\ y.sensor = x.sensor
      /\ y.belief = x.belief /\ y.policy = x.policy /\ y.cover = x.cover
      /\ y.source = x.source /\ y.lease = x.lease /\ Unmoved(x, y)
  BY <1>1 DEF ZoneState, Unmoved, Rooted
<1> HIDE DEF y
<1>3. Sane(y)
  BY <1>1, <1>2 DEF Sane, Formed, HoldsStill
<1>4. VacantOK(y) /\ HoldOK(y) /\ ClearAhead(y) /\ LeaseOK(y) /\ NotLate(y)
  BY <1>2 DEF Settled, VacantOK, HoldOK, Witnessed, ClearAhead, ClearsAt, LeaseOK, NotLate
<1>5. Settled(y)
  BY <1>3, <1>4 DEF Settled
<1>6. Kept(x) => Kept(y)
  BY <1>2, SameSteady, UnmovedBranched DEF Kept
<1> QED BY <1>2, <1>5, <1>6 DEF y

LEMMA OtherElsewhereEnds ==
    ASSUME Sane(zone), NEW t \in Nat, NEW pre, Readies(zone, t, pre), NEW cover \in Covers,
           NEW movement \in Movements, NEW resolves \in BOOLEAN, NEW settled \in BOOLEAN,
           OtherElsewhere(pre, cover, movement, resolves, settled)
    PROVE  KeepsOn(pre.step.zone)
<1> DEFINE z == pre.step.zone
           w == Recovered(z, cover)
           left == CoverageChanged(z, w)
           x == Moved(left, movement)
           m == Resolved(x, resolves)
           y == Reconciled(m)
           e == Elsewhere(Step(y, pre.step.event), pre.retained, "kept")
           c == Step([e.zone EXCEPT !.settled = settled], e.event)
<1>1. zone.occupied /\ (resolves => Unresolved(z.belief)) /\ Call(c)
  BY DEF OtherElsewhere
<1>2. Found(zone, z, t, pre.step.event) /\ GoodKept(pre.retained, t)
  BY ReadyParts DEF Readies
<1> HIDE DEF z
<1>3. OnWay(z, z)
  BY <1>2, FoundOnWay
<1>4. Covered(z, w)
  BY <1>3, RecoveredOnWay
<1> HIDE DEF w
<1>5. OnWay(z, left) /\ Follows(z, left) /\ left.belief.resolvedAt = z.belief.resolvedAt
  BY <1>3, <1>4, CoverOnWay
<1> HIDE DEF left
<1>6. MovedOut(z, left, x)
  BY <1>5, MovedOnWay
<1> HIDE DEF x
<1>7. OnWay(z, x) /\ Follows(z, x)
  BY <1>5, <1>6, FollowsChain DEF MovedOut
<1>8. resolves => Unresolved(x.belief)
  BY <1>1, <1>5, <1>6 DEF MovedOut, Unresolved, Follows
<1>9. Passes(z, m)
  BY <1>7, <1>8, ResolvedOnWay, FollowsChain DEF Passes
<1> HIDE DEF m
<1>10. Passes(z, y) /\ Branched(y)
  BY <1>9, ReconciledPasses
<1> HIDE DEF y
<1>11. Finishes(zone.policy.active, e) /\ Branched(e.zone) /\ (Kept(z) => Kept(e.zone))
  <2>1. "kept" \in LeaseChanges
    BY DEF LeaseChanges
  <2> QED BY <1>1, <1>2, <1>10, <2>1, ElsewhereEnds
<1> HIDE DEF e
<1>12. Settled(e.zone) /\ Tells(zone.policy.active, e.zone.policy.active, e.event)
  BY <1>11 DEF Finishes
<1>13. /\ Settled([e.zone EXCEPT !.settled = settled])
       /\ [e.zone EXCEPT !.settled = settled].policy = e.zone.policy
       /\ Unmoved(e.zone, [e.zone EXCEPT !.settled = settled])
       /\ Kept(e.zone) => Kept([e.zone EXCEPT !.settled = settled])
  BY <1>12, SupportsSettle
<1>14. Finishes(zone.policy.active, c) /\ Branched(c.zone) /\ (Kept(z) => Kept(c.zone))
  <2>1. c.zone = [e.zone EXCEPT !.settled = settled] /\ c.event = e.event
    BY DEF Step
  <2> HIDE DEF c
  <2> QED BY <1>11, <1>12, <1>13, <2>1, UnmovedBranched DEF Finishes
<1> QED BY <1>1, <1>14, CallsEnd DEF KeepsOn, Call, z

-----------------------------------------------------------------------------
(* Counts and duplicates. *)

LEMMA Opened ==
    ASSUME NEW z, NEW x, OnWay(z, x)
    PROVE  LET y == [x EXCEPT !.occupied = TRUE]
           IN  Sane(y) /\ ClearAhead(y) /\ y.occupied = TRUE /\ y.at = z.at
               /\ y.policy.active = z.policy.active /\ Follows(x, y) /\ Unmoved(x, y)
<1> DEFINE y == [x EXCEPT !.occupied = TRUE]
<1>1. Sane(x) /\ ClearAhead(x) /\ x.at = z.at /\ x.policy.active = z.policy.active
      /\ x \in ZoneState
  BY DEF OnWay, Sane, Formed
<1>2. /\ y \in ZoneState /\ y.at = x.at /\ y.occupied = TRUE /\ y.sensor = x.sensor
      /\ y.belief = x.belief /\ y.policy = x.policy /\ Unmoved(x, y)
  BY <1>1 DEF ZoneState, Unmoved, Rooted
<1> HIDE DEF y
<1>3. Sane(y) /\ ClearAhead(y)
  BY <1>1, <1>2 DEF Sane, Formed, HoldsStill, ClearAhead, ClearsAt
<1>4. Follows(x, y) /\ Unmoved(x, y)
  BY <1>2, SameFollows DEF Unmoved
<1> QED BY <1>1, <1>2, <1>3, <1>4 DEF y

\* A path that is dropped leaves the authority of the visit as it was.
LEMMA DroppedBranched ==
    ASSUME NEW z, Branched(z), NEW cover \in CoversKept(z), NEW w, w = Recovered(z, cover),
           Covered(z, w), w.cover = cover, z \in ZoneState
    PROVE  Branched(w)
<1>1. /\ w.sensor = z.sensor /\ w.source = z.source
      /\ w.visit = (IF cover = "none" THEN NoTime
                    ELSE IF z.cover = "none" THEN z.source ELSE z.visit)
      /\ w.pending = (z.pending /\ cover = "none")
  BY DEF Recovered, Located, ZoneState
<1>2. cover = "branch" => z.cover # "none" /\ (z.cover = "branch" \/ z.visit # NoTime)
  BY DEF CoversKept
<1>3. cover # "none" => z.cover # "none"
  BY DEF CoversKept
<1> QED BY <1>1, <1>2, <1>3 DEF Branched

LEMMA CountChangeEnds ==
    ASSUME Sane(zone), NEW t \in Nat, NEW pre, Readies(zone, t, pre), Branched(pre.step.zone),
           NEW cover \in Covers, CountChange(pre, cover)
    PROVE  KeepsOn(pre.step.zone)
<1> DEFINE z == pre.step.zone
           w == Recovered(z, cover)
           m == CoverageChanged(z, w)
           x == [m EXCEPT !.occupied = TRUE]
           y == Leased(ReconcileHold(x), "kept")
           b == KeptOr(pre.retained, y.belief)
           s == Step(y, pre.step.event)
           r == Then(s, EvaluatePolicies(y, Unheard, b))
<1>1. Call(r) /\ cover \in CoversKept(z) /\ Branched(z)
  BY DEF CountChange
<1>2. Found(zone, z, t, pre.step.event) /\ GoodKept(pre.retained, t)
  BY ReadyParts DEF Readies
<1> HIDE DEF z
<1>21. OnWay(z, z) /\ z \in ZoneState
  BY <1>2, FoundOnWay DEF Found
<1>22. Covered(z, w) /\ w.cover = cover
  BY <1>21, RecoveredOnWay
<1>23. Branched(w)
  BY <1>1, <1>21, <1>22, DroppedBranched
<1> HIDE DEF w
<1>3. OnWay(z, m) /\ Follows(z, m) /\ Unmoved(w, m)
  BY <1>21, <1>22, CoverOnWay
<1> HIDE DEF m
<1>4. Sane(x) /\ ClearAhead(x) /\ x.occupied /\ x.at = z.at /\ x.policy.active = z.policy.active
      /\ Follows(m, x) /\ Unmoved(m, x)
  BY <1>3, Opened
<1> HIDE DEF x
<1>5. Rests(x, y, "kept")
  BY <1>4, HoldLeased DEF LeaseChanges
<1> HIDE DEF y
<1>6. /\ Sane(y) /\ HoldOK(y) /\ ClearAhead(y) /\ y.at = t /\ y.occupied
      /\ y.policy.active = z.policy.active
  BY <1>2, <1>4, <1>5 DEF Rests, Found
<1>7. VacantOK(y)
  BY <1>6 DEF VacantOK
<1>8. GoodBelief(y.belief) /\ y.belief.at = t
  BY <1>6 DEF Sane, Formed
<1>9. y.belief.at <= t
  BY <1>8
<1>10. GoodBelief(b) /\ b.at <= t
  BY <1>2, <1>8, <1>9, KeptIs
<1> HIDE DEF b
<1>11. b.at <= y.at
  BY <1>6, <1>10
<1>12. s.event = pre.step.event
  BY DEF Step
<1> HIDE DEF s
<1>13. /\ Announces(zone.policy.active, y.policy.active, s.event)
       /\ zone.policy.active = FALSE => y.policy.active = FALSE
  BY <1>2, <1>6, <1>12 DEF Found
<1>14. zone.policy.active \in BOOLEAN
  BY ActiveIs
<1>15. Finishes(zone.policy.active, r)
  BY <1>6, <1>7, <1>10, <1>11, <1>13, <1>14, UnheardIs, Ending
<1>16. Branched(r.zone) /\ (Kept(z) => Kept(r.zone))
  <2>1. Follows(z, x)
    BY <1>3, <1>4, FollowsChain
  <2>2. Branched(x)
    BY <1>23, <1>3, <1>4, UnmovedBranched
  <2>3. r.zone = EvaluatePolicies(y, Unheard, b).zone
    BY DEF Then, Step
  <2>4. Ends(x, Unheard, r.zone)
    BY <1>5, <1>6, <1>10, <1>11, <2>3, UnheardIs, EvaluationCloses, ClosesEnds DEF Rests
  <2>5. Branched(r.zone)
    BY <2>2, <2>4, UnmovedBranched DEF Ends
  <2> QED BY <2>1, <2>2, <2>4, <2>5, UnheardIs, FollowsFresh, QuietKept DEF Kept, Steady
<1> QED BY <1>1, <1>15, <1>16, CallsEnd DEF KeepsOn, Call, z

Lapsed(v, a) == [Unheard EXCEPT !.below = v, !.asserted = a]

LEMMA LapsedParts ==
    ASSUME NEW v \in Nat \cup {NoTime}, NEW a \in BOOLEAN
    PROVE  Lapsed(v, a) \in InputType /\ Lapsed(v, a).below = v
BY DEF Lapsed, Unheard, InputType

\* What a call that changes nothing has left: the loss of a retention that was
\* held when the call began is told to the policy.
LEMMA RetentionTold ==
    ASSUME NEW was \in BOOLEAN, NEW s, Settled(s.zone), s.zone.occupied,
           Announces(was, s.zone.policy.active, s.event),
           was = FALSE => s.zone.policy.active = FALSE,
           NEW kept, GoodKept(kept, s.zone.at)
    PROVE  /\ Finishes(was, RetentionLoss(s, kept))
           /\ Unmoved(s.zone, RetentionLoss(s, kept).zone)
<1> DEFINE z == s.zone
           v == CrossedAt(kept, z.at)
           i == Lapsed(v, AssertedStay(z))
           x == Evaluated(z, i)
           y == x.zone
           r == RetentionLoss(s, kept)
<1> SUFFICES Finishes(was, r) /\ Unmoved(z, r.zone)
  OBVIOUS
<1>1. Sane(z) /\ HoldOK(z) /\ ClearAhead(z) /\ z.at \in Nat /\ z.policy.active \in BOOLEAN
  BY ZoneParts, ActiveIs DEF Settled, Sane, Formed
<1>2. CASE IsKept(kept) /\ z.policy.held /\ ~RetainedZone(z)
  <2>1. r = Then(s, x)
    BY <1>2 DEF RetentionLoss, Lapsed
  <2>2. r.zone = y /\ r.event = Last(s.event, x.event)
    BY <2>1 DEF Then, Step, Last
  <2> HIDE DEF r
  <2>3. GoodBelief(kept) /\ kept.at <= z.at
    BY <1>2 DEF GoodKept, IsKept
  <2>4. v \in Nat \cup {NoTime}
    BY <1>1, <2>3, Crossing
  <2>5. v <= z.at
    BY <1>1, <2>3, Crossing
  <2> HIDE DEF v
  <2>6. i \in InputType /\ i.below = v
    BY <1>1, <2>4, Judgments, LapsedParts
  <2> HIDE DEF i
  <2>7. GoodInput(i, z.at)
    BY <2>5, <2>6 DEF GoodInput
  <2>8. z.policy.phase = "active"
    BY <1>1, <1>2 DEF Sane, Formed, GoodPolicy, HeldOK
  <2>9. Rules(z, x)
    BY <1>1, <2>7, <2>8, ActiveEvaluated
  <2> HIDE DEF x
  <2>10. Decides(z, x) /\ NotLate(y) /\ LeaseOK(y) /\ Sane(y) /\ y.occupied
    BY <2>9 DEF Rules, Decides, Frame, LeaseOK
  <2>101. Unmoved(z, y)
    BY <2>9 DEF Rules, Decides, Frame, Unmoved
  <2>11. HoldOK(y) /\ ClearAhead(y)
    BY <1>1, <2>10, DecidesKeeps
  <2>12. VacantOK(y)
    BY <2>10 DEF VacantOK
  <2>13. Settled(y)
    BY <2>10, <2>11, <2>12 DEF Settled
  <2>14. Announces(z.policy.active, y.policy.active, x.event) /\ y.policy.active \in BOOLEAN
    BY <2>10, ActiveIs DEF Decides
  <2>15. Tells(was, y.policy.active, Last(s.event, x.event))
    BY <1>1, <2>14, ThenTells
  <2> QED BY <2>2, <2>101, <2>13, <2>15 DEF Finishes
<1>3. CASE ~(IsKept(kept) /\ z.policy.held /\ ~RetainedZone(z))
  <2>1. r = s
    BY <1>3 DEF RetentionLoss
  <2> HIDE DEF r
  <2>2. Tells(was, z.policy.active, s.event)
    BY <1>1, AnnouncesTells
  <2> QED BY <2>1, <2>2 DEF Finishes, Unmoved, Rooted
<1> QED BY <1>2, <1>3

LEMMA IgnoredEnds ==
    ASSUME Sane(zone), NEW t \in Nat, NEW pre, Readies(zone, t, pre), Branched(pre.step.zone),
           Ignored(pre)
    PROVE  KeepsOn(pre.step.zone)
<1> DEFINE s == pre.step
           r == RetentionLoss(s, pre.retained)
<1>1. Call(r) /\ zone.occupied
  BY DEF Ignored, IgnoredCall
<1>2. /\ Settled(s.zone) /\ s.zone.at = t /\ s.zone.occupied
      /\ Announces(zone.policy.active, s.zone.policy.active, s.event)
      /\ zone.policy.active = FALSE => s.zone.policy.active = FALSE
      /\ GoodKept(pre.retained, s.zone.at)
  BY <1>1 DEF Readies
<1> HIDE DEF s
<1>3. Kept(s.zone) => Kept(r.zone)
  <2> SUFFICES ASSUME Kept(s.zone) PROVE r = s
    OBVIOUS
  <2>1. s.zone.policy.held => s.zone.policy.provenance = "evidence"
    BY <1>2 DEF Settled, Sane, Formed, GoodPolicy, HeldOK
  <2>2. s.zone.policy.provenance = "evidence" => s.zone.policy.held = RetainedZone(s.zone)
    BY DEF Kept, Steady, Retentive
  <2> QED BY <2>1, <2>2 DEF RetentionLoss
<1>4. Finishes(zone.policy.active, r) /\ Unmoved(s.zone, r.zone)
  BY <1>2, ActiveIs, RetentionTold
<1>5. Branched(r.zone)
  BY <1>4, UnmovedBranched DEF s
<1> QED BY <1>1, <1>4, <1>3, <1>5, CallsEnd DEF KeepsOn, Call, s

-----------------------------------------------------------------------------
(* An empty house. *)

\* What is left of the zone when the house is emptied.
Remains(x) ==
    /\ x \in ZoneState /\ GoodPolicy(x.policy) /\ x.policy.evaluatedAt <= x.at
    /\ GoodSensor(x.sensor, x.at) /\ ClearAhead(x)

Empties(x, r) ==
    /\ Settled(r.zone) /\ Announces(x.policy.active, r.zone.policy.active, r.event)
    /\ Kept(r.zone)

LEMMA Emptying ==
    ASSUME NEW x, Remains(x) PROVE Empties(x, ZeroPolicy(Emptied(x)))
<1> DEFINE b == EmptyBaseline(x.at)
           m == Emptied(x)
           o == CountZero(m.policy, m.at)
           y == [m EXCEPT !.policy = o.policy]
           r == ZeroPolicy(m)
<1> SUFFICES Empties(x, r)
  OBVIOUS
<1>1. r.zone = y /\ r.event = o.event
  BY DEF ZeroPolicy, Step
<1> HIDE DEF r
<1>2. x \in ZoneState /\ x.at \in Nat /\ GoodPolicy(x.policy) /\ x.policy.evaluatedAt <= x.at
      /\ GoodSensor(x.sensor, x.at) /\ ClearAhead(x)
  BY ZoneParts DEF Remains
<1>3. GoodBelief(b) /\ b.at = x.at /\ b.hold = FALSE /\ b.generation = NoTime
      /\ b.latest = NoTime
  <2>1. b.latest = NoTime
    BY DEF EmptyBaseline, InitialBelief
  <2>2. GoodBelief(b) /\ b.at = x.at /\ b.hold = FALSE /\ b.generation = NoTime
    BY <1>2, Initially DEF EmptyBaseline
  <2> QED BY <2>1, <2>2
<1>4. /\ m \in ZoneState /\ m.at = x.at /\ m.occupied = FALSE /\ m.cover = "none"
      /\ m.lease = NoTime /\ m.belief = b /\ m.policy = x.policy /\ m.sensor = x.sensor
      /\ m.visit = NoTime /\ m.pending = FALSE
  BY <1>2, <1>3 DEF Emptied, Located, ZoneState, GoodBelief, Covers
<1> HIDE DEF b, m
<1>5. GoodPolicy(m.policy) /\ m.at \in Nat
  BY <1>2, <1>4
<1>6. m.policy.evaluatedAt <= m.at
  BY <1>2, <1>4
<1>7. /\ GoodPolicy(o.policy) /\ o.policy.evaluatedAt = m.at
      /\ Announces(m.policy.active, o.policy.active, o.event)
      /\ o.policy.phase = "inactive" /\ o.policy.provenance = "none"
      /\ o.policy.pending = NoTime
  BY <1>5, <1>6, ZeroCounted
<1> HIDE DEF o
<1>8. /\ y \in ZoneState /\ y.policy = o.policy /\ y.belief = b /\ y.cover = "none"
      /\ y.at = x.at /\ y.occupied = FALSE /\ y.sensor = x.sensor /\ y.lease = NoTime
      /\ y.visit = NoTime /\ y.pending = FALSE
  BY <1>4, <1>7, PolicyPut DEF GoodPolicy, FairPolicy, Rooted
<1> HIDE DEF y
<1>9. y.policy.evaluatedAt <= y.at
  BY <1>2, <1>4, <1>7, <1>8
<1>10. Sane(y)
  BY <1>2, <1>3, <1>7, <1>8, <1>9 DEF Sane, Formed, HoldsStill
<1>11. VacantOK(y) /\ HoldOK(y) /\ ClearAhead(y) /\ LeaseOK(y) /\ NotLate(y)
  BY <1>2, <1>3, <1>7, <1>8
     DEF VacantOK, HoldOK, Witnessed, ClearAhead, ClearsAt, LeaseOK, NotLate
<1>12. Settled(y)
  BY <1>10, <1>11 DEF Settled
<1>13. Announces(x.policy.active, y.policy.active, o.event)
  BY <1>4, <1>7, <1>8
<1>14. Kept(y)
  <2>1. y.policy.provenance # "evidence" /\ y.belief.latest = NoTime /\ y.cover = "none"
    BY <1>3, <1>7, <1>8
  <2> QED BY <1>8, <2>1, UnheldSteady DEF Kept, Steady, Fresh, Branched
<1> QED BY <1>1, <1>12, <1>13, <1>14 DEF Empties

Vacated(x) == [x EXCEPT !.occupied = FALSE, !.sensor.correlated = FALSE]

LEMMA Leaving ==
    ASSUME NEW z, NEW x, OnWay(z, x)
    PROVE  LET y == Vacated(x)
           IN  Sane(y) /\ ClearAhead(y) /\ y.policy.active = z.policy.active
<1> DEFINE y == [x EXCEPT !.occupied = FALSE, !.sensor.correlated = FALSE]
<1>1. Sane(x) /\ ClearAhead(x) /\ x.policy.active = z.policy.active
      /\ x \in ZoneState /\ x.sensor \in SensorType /\ GoodSensor(x.sensor, x.at)
  BY ZoneParts DEF OnWay, Sane, Formed
<1>2. /\ y \in ZoneState /\ y.at = x.at /\ y.belief = x.belief /\ y.policy = x.policy
      /\ y.sensor.level = x.sensor.level /\ y.sensor.status = x.sensor.status
      /\ y.sensor.start = x.sensor.start /\ y.sensor.clearedAt = x.sensor.clearedAt
  BY <1>1 DEF ZoneState, SensorType
<1> HIDE DEF y
<1>3. GoodSensor(y.sensor, y.at)
  <2>1. x.sensor.start <= x.at /\ x.sensor.clearedAt <= x.at
    BY <1>1 DEF GoodSensor
  <2>2. y.sensor.start <= y.at /\ y.sensor.clearedAt <= y.at
    BY <1>2, <2>1
  <2>3. y.sensor \in SensorType
    BY <1>2, ZoneParts
  <2> QED BY <1>1, <1>2, <2>2, <2>3 DEF GoodSensor
<1>4. Sane(y)
  BY <1>1, <1>2, <1>3 DEF Sane, Formed, HoldsStill
<1>5. ClearAhead(y)
  BY <1>1, <1>2 DEF ClearAhead, ClearsAt
<1> QED BY <1>1, <1>2, <1>4, <1>5 DEF y, Vacated

LEMMA ZeroCountEnds ==
    ASSUME Sane(zone), NEW t \in Nat, NEW pre, Readies(zone, t, pre), ZeroCount(pre)
    PROVE  KeepsOn(pre.step.zone)
<1> DEFINE z == pre.step.zone
           w == Located(z, "none", NoTime, FALSE)
           m == CoverageChanged(z, w)
           x == Vacated(m)
           y == ReconcileHold(x)
           e == ZeroPolicy(Emptied(y))
           r == Then(pre.step, e)
<1>1. Call(r)
  BY DEF ZeroCount, Vacated
<1>2. Found(zone, z, t, pre.step.event)
  BY ReadyParts
<1>3. r.zone = e.zone /\ r.event = Last(pre.step.event, e.event)
  BY DEF Then, Step, Last
<1> HIDE DEF z, r
<1>4. OnWay(z, m)
  <2>1. OnWay(z, z) /\ Sane(z) /\ "none" \in Covers
    BY <1>2, FoundOnWay DEF Found, Covers
  <2>2. Covered(z, w)
    BY <2>1, LocationSet
  <2> HIDE DEF w
  <2> QED BY <2>1, <2>2, CoverOnWay
<1> HIDE DEF w, m
<1>5. Sane(x) /\ ClearAhead(x) /\ x.policy.active = z.policy.active
  BY <1>4, Leaving
<1> HIDE DEF x
<1>6. Reholds(x, y)
  BY <1>5, HoldFollows
<1> HIDE DEF y
<1>7. Stands(x, y) /\ y.at = x.at /\ y.sensor = x.sensor /\ Sane(y)
  BY <1>6, ReholdsStands DEF Stands
<1>8. y.policy.active = z.policy.active
  BY <1>5, <1>7 DEF Stands, Lit
<1>9. ClearAhead(y)
  BY <1>5, <1>7 DEF ClearAhead, ClearsAt
<1>10. Remains(y)
  BY <1>7, <1>9 DEF Remains, Sane, Formed
<1>11. Empties(y, e)
  BY <1>10, Emptying
<1> HIDE DEF e
<1>12. Settled(e.zone) /\ Announces(z.policy.active, e.zone.policy.active, e.event)
       /\ Kept(e.zone)
  BY <1>8, <1>11 DEF Empties
<1>13. e.zone.policy.active \in BOOLEAN /\ z.policy.active \in BOOLEAN
       /\ zone.policy.active \in BOOLEAN
  BY <1>2, <1>12, ActiveIs DEF Settled, Found
<1>14. Tells(zone.policy.active, e.zone.policy.active, Last(pre.step.event, e.event))
  BY <1>2, <1>12, <1>13, ThenTells DEF Found
<1>15. Finishes(zone.policy.active, r)
  BY <1>3, <1>12, <1>14 DEF Finishes
<1> QED BY <1>1, <1>3, <1>12, <1>15, CallsEnd DEF KeepsOn, Call, Kept

\* A sensor at time t whose clear, if one runs, is ahead.
Runs(s, t) == GoodSensor(s, t) /\ (s.status = "clearing" => t < s.clearedAt + StableClear)

LEMMA VacantRuns ==
    ASSUME NEW s, NEW t \in Nat, Runs(s, t), NEW level \in Levels, NEW correlated \in BOOLEAN
    PROVE  Runs(VacantSensor(s, level, t, correlated), t)
<1> DEFINE v == VacantSensor(s, level, t, correlated)
           lost == [s EXCEPT !.level = level, !.status = level, !.clearedAt = NoTime,
                             !.correlated = FALSE]
           edge == [s EXCEPT !.level = level, !.status = "clearing", !.clearedAt = t]
           off  == [s EXCEPT !.level = level,
                             !.status = IF @ = "unavailable" THEN "baseline" ELSE @]
           flap == [s EXCEPT !.level = level, !.status = "asserted", !.clearedAt = NoTime]
           new  == Started(s, t, correlated)
<1> SUFFICES Runs(v, t)
  OBVIOUS
<1>1. /\ s \in SensorType /\ GoodSensor(s, t)
      /\ s.status = "clearing" => t < s.clearedAt + StableClear
  BY DEF Runs, GoodSensor
<1>2. s.start <= t /\ s.clearedAt <= t /\ NoTime <= t /\ t <= t /\ t # NoTime
  BY <1>1, Constants DEF GoodSensor
<1>3. t < t + StableClear
  BY Constants
<1>4. CASE level = s.level
  BY <1>1, <1>4 DEF VacantSensor, Runs
<1>5. CASE level # s.level /\ level = "unavailable"
  <2>1. v = lost
    BY <1>5 DEF VacantSensor
  <2> HIDE DEF v
  <2>2. lost \in SensorType /\ lost.level = "unavailable" /\ lost.status = "unavailable"
        /\ lost.start = s.start /\ lost.clearedAt = NoTime
    BY <1>1, <1>5 DEF SensorType, Levels, Statuses
  <2> HIDE DEF lost
  <2> QED BY <1>2, <2>1, <2>2 DEF Runs, GoodSensor
<1>6. CASE level # s.level /\ level = "off" /\ s.level = "on"
  <2>1. v = edge
    BY <1>6 DEF VacantSensor
  <2> HIDE DEF v
  <2>2. edge \in SensorType /\ edge.status = "clearing"
        /\ edge.start = s.start /\ edge.clearedAt = t
    BY <1>1 DEF SensorType, Levels, Statuses
  <2> HIDE DEF edge
  <2>3. s.start # NoTime
    BY <1>1, <1>6 DEF GoodSensor
  <2> QED BY <1>2, <1>3, <2>1, <2>2, <2>3 DEF Runs, GoodSensor
<1>7. CASE level # s.level /\ level = "off" /\ s.level # "on"
  <2>1. v = off
    BY <1>7 DEF VacantSensor
  <2> HIDE DEF v
  <2>2. off \in SensorType /\ off.level = "off"
        /\ off.status = (IF s.status = "unavailable" THEN "baseline" ELSE s.status)
        /\ off.start = s.start /\ off.clearedAt = s.clearedAt
    BY <1>1, <1>7 DEF SensorType, Levels, Statuses
  <2> HIDE DEF off
  <2> QED BY <1>1, <1>2, <2>1, <2>2 DEF Runs, GoodSensor
<1>8. CASE level # s.level /\ level = "on" /\ ContinuesFlap(s, t)
  <2>1. v = flap
    BY <1>8 DEF VacantSensor
  <2> HIDE DEF v
  <2>2. flap \in SensorType /\ flap.status = "asserted"
        /\ flap.start = s.start /\ flap.clearedAt = NoTime
    BY <1>1 DEF SensorType, Levels, Statuses
  <2>3. s.start # NoTime
    BY <1>8 DEF ContinuesFlap
  <2> HIDE DEF flap
  <2> QED BY <1>2, <2>1, <2>2, <2>3 DEF Runs, GoodSensor
<1>9. CASE level # s.level /\ level = "on" /\ ~ContinuesFlap(s, t)
  <2>1. v = new
    BY <1>9 DEF VacantSensor
  <2> HIDE DEF v
  <2>2. new \in SensorType /\ new.status = "asserted" /\ new.start = t /\ new.clearedAt = NoTime
    BY <1>1 DEF Started, SensorType, Levels, Statuses
  <2> HIDE DEF new
  <2> QED BY <1>2, <2>1, <2>2 DEF Runs, GoodSensor
<1> QED BY <1>4, <1>5, <1>6, <1>7, <1>8, <1>9 DEF Levels

LEMMA EmptyHouseEnds ==
    ASSUME Settled(zone), NEW t \in Nat, zone.at <= t, NEW level \in Levels,
           NEW correlated \in BOOLEAN, EmptyHouse(t, level, correlated)
    PROVE  KeepsOn(zone)
<1> DEFINE z == zone
           over == [z.sensor EXCEPT !.status = "clear", !.clearedAt = NoTime]
           due == IF ClearDue(z, t) THEN over ELSE z.sensor
           now == VacantSensor(due, level, t, correlated)
           x == [z EXCEPT !.at = t, !.sensor = now,
                          !.source = IF now.start # due.start THEN t ELSE @]
           r == ZeroPolicy(Emptied(x))
<1>1. Call(r)
  BY DEF EmptyHouse
<1>2. /\ Sane(z) /\ ClearAhead(z) /\ z \in ZoneState /\ z.sensor \in SensorType
      /\ GoodSensor(z.sensor, z.at) /\ GoodPolicy(z.policy)
  BY ZoneParts DEF Settled, Sane, Formed
<1>3. z.sensor.start <= t /\ z.sensor.clearedAt <= t
  <2>1. z.sensor.start <= z.at /\ z.sensor.clearedAt <= z.at
    BY <1>2 DEF GoodSensor
  <2>2. z.sensor.start \in Int /\ z.sensor.clearedAt \in Int /\ z.at \in Int
    <3>1. z.sensor.start \in Nat \cup {NoTime} /\ z.sensor.clearedAt \in Nat \cup {NoTime} /\ z.at \in Nat
      BY <1>2, ZoneParts, SensorParts
    <3> QED BY <3>1 DEF NoTime
  <2> QED BY <2>1, <2>2
<1>4. z.policy.evaluatedAt <= t
  <2>1. z.policy.evaluatedAt <= z.at
    BY <1>2 DEF Sane, Formed
  <2>2. z.policy.evaluatedAt \in Int /\ z.at \in Int
    BY <1>2, ZoneParts, PolicyParts
  <2> QED BY <2>1, <2>2
<1>5. Runs(due, t)
  <2>1. CASE ClearDue(z, t)
    <3>1. over \in SensorType /\ over.status = "clear" /\ over.start = z.sensor.start
          /\ over.clearedAt = NoTime /\ over.level = z.sensor.level
      BY <1>2 DEF SensorType, Statuses
    <3>2. z.sensor.status = "clearing" /\ due = over
      BY <2>1 DEF ClearDue
    <3> HIDE DEF over, due
    <3>3. z.sensor.start # NoTime /\ NoTime <= t
      BY <1>2, <3>2, Constants DEF GoodSensor
    <3> QED BY <1>3, <3>1, <3>2, <3>3 DEF Runs, GoodSensor
  <2>2. CASE ~ClearDue(z, t)
    <3>1. due = z.sensor
      BY <2>2
    <3> HIDE DEF due
    <3>2. z.sensor.status = "clearing" => t < z.sensor.clearedAt + StableClear
      <4>1. z.sensor.clearedAt \in Int /\ StableClear \in Int
        BY <1>2, SensorParts, Constants
      <4> QED BY <2>2, <4>1 DEF ClearDue, ClearsAt
    <3> QED BY <1>2, <1>3, <3>1, <3>2 DEF Runs, GoodSensor
  <2> QED BY <2>1, <2>2
<1> HIDE DEF due
<1>6. Runs(now, t) /\ now \in SensorType
  BY <1>5, VacantRuns DEF Runs, GoodSensor
<1> HIDE DEF now
<1>7. x \in ZoneState /\ x.at = t /\ x.sensor = now /\ x.policy = z.policy
  BY <1>2, <1>6 DEF ZoneState
<1> HIDE DEF x
<1>8. Remains(x)
  <2>1. x.policy.evaluatedAt <= x.at
    BY <1>4, <1>7
  <2>2. ClearAhead(x)
    BY <1>6, <1>7 DEF Runs, ClearAhead, ClearsAt
  <2> QED BY <1>2, <1>6, <1>7, <2>1, <2>2 DEF Remains, Runs
<1>9. Empties(x, r)
  BY <1>8, Emptying
<1> HIDE DEF r
<1>10. Settled(r.zone) /\ Announces(z.policy.active, r.zone.policy.active, r.event)
       /\ Kept(r.zone)
  BY <1>7, <1>9 DEF Empties
<1>11. z.policy.active \in BOOLEAN /\ r.zone.policy.active \in BOOLEAN
  BY <1>2, <1>10, ActiveIs DEF Settled
<1>12. Tells(z.policy.active, r.zone.policy.active, r.event)
  BY <1>10, <1>11, AnnouncesTells
<1>13. Finishes(z.policy.active, r)
  BY <1>10, <1>12 DEF Finishes
<1> QED BY <1>1, <1>10, <1>13, CallsEnd DEF KeepsOn, Call, Kept

-----------------------------------------------------------------------------
(* Time and restarts. *)

\* The timer, at any later time.
LEMMA AdvanceFinishes ==
    ASSUME NEW z, Settled(z), NEW t \in Nat, z.at <= t
    PROVE  /\ Finishes(z.policy.active, Advance(z, t))
           /\ Branched(Advance(z, t).zone)
           /\ Kept(z) => Kept(Advance(z, t).zone)
<1> DEFINE e == EpisodeEffects(z, t)
           m == Reconciled(At(e.zone, t))
           y == LeaseLasts(m)
           b == KeptOr(e.kept, e.zone.belief)
           x == EvaluatePolicies(y, Unheard, b)
           s == Step(y, NoEvent)
           r == Then(s, x)
           a == Advance(z, t)
<1>1. a = x
  BY DEF Advance, AdvanceFrom
<1> HIDE DEF a
<1>2. Sane(z) /\ VacantOK(z) /\ HoldOK(z) /\ ClearAhead(z) /\ LeaseOK(z)
  BY DEF Settled
<1>3. Effects(z, e, t) /\ Undisturbed(z, e.zone)
  BY <1>2, EffectsDone, EffectsUndisturbed
<1> HIDE DEF e
<1>4. /\ Stands(z, m) /\ m.at = t /\ Sane(m) /\ VacantOK(m) /\ HoldOK(m) /\ ClearAhead(m)
  BY <1>2, <1>3, Arrives
<1>5. Undisturbed(z, m) /\ Branched(m)
  <2>1. Sane(e.zone) /\ e.zone.at <= t
    BY <1>3 DEF Effects, Stands
  <2>2. Undisturbed(e.zone, At(e.zone, t)) /\ Elapses(e.zone, At(e.zone, t), t)
    BY <2>1, Elapse, ElapseUndisturbed
  <2>3. Sane(At(e.zone, t))
    BY <2>2 DEF Elapses, Stands
  <2>4. Undisturbed(At(e.zone, t), m) /\ Branched(m)
    BY <2>3, ReconciledUndisturbed
  <2> QED BY <1>3, <2>2, <2>4, UndisturbedChain
<1> HIDE DEF m
<1>6. Lapses(m, y)
  BY <1>4, LeaseLapses
<1> HIDE DEF y
<1>7. Sane(y) /\ VacantOK(y) /\ HoldOK(y) /\ ClearAhead(y) /\ y.at = t
      /\ y.policy.active = z.policy.active
  BY <1>4, <1>6 DEF Lapses, Stands, Lit
<1>8. GoodKept(e.kept, e.zone.at) /\ e.zone.at <= t /\ Sane(e.zone)
  BY <1>3 DEF Effects, Stands
<1>9. GoodBelief(e.zone.belief) /\ e.zone.belief.at = e.zone.at
      /\ e.zone.at \in Nat
  BY <1>8, ZoneParts DEF Sane, Formed
<1>10. e.zone.belief.at <= e.zone.at
  BY <1>9
<1>11. GoodBelief(b) /\ b.at <= e.zone.at
  BY <1>8, <1>9, <1>10, KeptIs
<1> HIDE DEF b
<1>12. b.at <= y.at
  <2>1. b.at \in Nat
    BY <1>11, BeliefParts DEF GoodBelief
  <2> QED BY <1>7, <1>8, <1>9, <1>11, <2>1
<1>13. s.event = NoEvent
  BY DEF Step
<1> HIDE DEF s
<1>14. z.policy.active \in BOOLEAN
  BY <1>2, ActiveIs
<1>15. Announces(z.policy.active, y.policy.active, s.event)
       /\ (z.policy.active = FALSE => y.policy.active = FALSE)
  BY <1>7, <1>13 DEF Announces, Events, NoEvent
<1>16. Finishes(z.policy.active, r)
  BY <1>7, <1>11, <1>12, <1>14, <1>15, UnheardIs, Ending
<1>17. r.zone = x.zone /\ r.event = x.event
  BY <1>13 DEF Then, Step
<1>18. Branched(x.zone) /\ (Kept(z) => Kept(x.zone))
  <2>1. Unmoved(m, y) /\ Follows(y, y) /\ Unmoved(y, y)
    BY <1>6 DEF Lapses, Follows, Unmoved, Rooted
  <2>2. Branched(y)
    BY <1>5, <2>1, UnmovedBranched
  <2>3. Closes(y, Unheard, x.zone)
    BY <1>7, <1>11, <1>12, UnheardIs, EvaluationCloses
  <2>4. Kept(z) => Fresh(y)
    BY <1>5, <1>6 DEF Undisturbed, Kept, Steady, Lapses, Fresh
  <2> HIDE DEF x
  <2>5. Ends(y, Unheard, x.zone)
    BY <2>1, <2>3, ClosesEnds
  <2>6. Branched(x.zone)
    BY <2>2, <2>5, UnmovedBranched DEF Ends
  <2> QED BY <2>2, <2>4, <2>5, <2>6, UnheardIs, QuietKept
<1> HIDE DEF r, x
<1>19. Finishes(z.policy.active, x)
  BY <1>16, <1>17 DEF Finishes
<1> QED BY <1>1, <1>19, <1>18 DEF a

LEMMA TimerEnds ==
    ASSUME Settled(zone), NEW t \in Nat, zone.at <= t, Timer(t) PROVE KeepsOn(zone)
BY AdvanceFinishes, CallsEnd DEF Timer, KeepsOn, Call

LEMMA TowardsNothing ==
    ASSUME NEW n \in Int, NEW goal \in Int PROVE Towards(n, goal, 0) = n
BY DEF Towards, Later

\* Evidence of a new episode raises the belief, and its displacement with it.
LEMMA PositiveOnward ==
    ASSUME NEW b, GoodBelief(b), NEW gain \in Nat
    PROVE  Onward(b, ApplyPositive(b, b.at, b.at, gain))
<1> DEFINE d == AdvanceTo(b, b.at)
           c == ApplyPositive(b, b.at, b.at, gain)
           m == IF d.displacedAt # NoTime THEN d.at ELSE NoTime
           n == Towards(b.level, Baseline[DecayContext(b)],
                        Rate[DecayContext(b)] * (b.at - b.at))
<1> SUFFICES Onward(b, c)
  OBVIOUS
<1>1. /\ b \in BeliefType /\ b.at \in Nat /\ b.level \in BeliefLevels
      /\ b.displacedAt \in Nat \cup {NoTime} /\ DisplacementOK(b)
  BY BeliefParts DEF GoodBelief, BeliefOK
<1>2. b.level \in Int /\ b.level <= TopLevel /\ 0 <= b.level /\ TopLevel \in Nat
  BY <1>1, Constants
<1>3. n = b.level
  <2>1. DecayContext(b) \in Contexts
    BY <1>1, BeliefParts DEF DecayContext, Contexts
  <2>2. Baseline[DecayContext(b)] \in Int /\ Rate[DecayContext(b)] \in Int
    BY <2>1, BeliefAssumption, Constants
  <2>3. Rate[DecayContext(b)] * (b.at - b.at) = 0
    BY <1>1, <2>2
  <2> QED BY <1>2, <2>2, <2>3, TowardsNothing
<1>4. /\ d.level \in {b.level, n} /\ d.at = b.at /\ d.displacedAt = b.displacedAt
      /\ d.resolvedAt = b.resolvedAt /\ d \in BeliefType
  <2>1. GoodBelief(d)
    <3>1. b.at <= b.at
      BY <1>1
    <3> QED BY <1>1, <3>1, Advanced
  <2>2. d \in BeliefType
    BY <2>1 DEF GoodBelief
  <2> QED BY <1>1, <2>2 DEF AdvanceTo, BeliefType
<1> HIDE DEF d, n
<1>5. d.level = b.level
  BY <1>3, <1>4
<1>6. b.displacedAt <= m
  <2>1. b.displacedAt # NoTime => b.displacedAt <= b.at
    BY <1>1 DEF DisplacementOK
  <2> QED BY <1>1, <1>4, <2>1, Constants
<1>7. b.displacedAt <= d.displacedAt
  BY <1>1, <1>4, Constants
<1> HIDE DEF m
<1>8. CASE b.generation = b.at
  <2>1. c = d
    BY <1>8 DEF ApplyPositive, d
  <2>2. b.level <= d.level
    BY <1>2, <1>5
  <2> HIDE DEF c
  <2> QED BY <1>4, <1>7, <2>1, <2>2 DEF Onward
<1>9. CASE b.generation # b.at
  <2>1. c = Asserted(d, b.at, gain)
    BY <1>9 DEF ApplyPositive, d
  <2> HIDE DEF c
  <2>2. c.level = Bounded(d.level + gain) /\ c.displacedAt = m /\ c.resolvedAt = b.resolvedAt
    BY <1>4, <2>1 DEF Asserted, BeliefType, m
  <2>3. b.level <= Bounded(d.level + gain)
    BY <1>2, <1>5 DEF Bounded
  <2>4. b.level <= c.level
    BY <2>2, <2>3
  <2>5. b.displacedAt <= c.displacedAt
    BY <1>6, <2>2
  <2> QED BY <2>2, <2>4, <2>5 DEF Onward
<1> QED BY <1>8, <1>9

\* What the rest of the start of the engine finds: nothing of the light has
\* changed, and the dwell is not over.
Starts(z, x) ==
    /\ Sane(x) /\ ClearAhead(x) /\ VacantOK(x) /\ NotLate(x) /\ x.at = z.at

StartsSensor(z, s) ==
    /\ GoodSensor(s, z.at)
    /\ s.start = z.sensor.start \/ s.start = z.at
    /\ s.status = "clearing" => s = z.sensor

LEMMA StartupSensorIs ==
    ASSUME NEW z, Sane(z), NEW level \in Levels
    PROVE  StartsSensor(z, StartupSensor(z.sensor, level, z.at))
<1> DEFINE s == StartupSensor(z.sensor, level, z.at)
           new == Started(z.sensor, z.at, FALSE)
           off == [z.sensor EXCEPT !.level = level, !.clearedAt = NoTime, !.correlated = FALSE,
                       !.status = IF level = "off" THEN "baseline" ELSE "unavailable"]
<1> SUFFICES StartsSensor(z, s)
  OBVIOUS
<1>1. z.sensor \in SensorType /\ GoodSensor(z.sensor, z.at) /\ z.at \in Nat
  BY ZoneParts DEF Sane, Formed
<1>2. z.sensor.start <= z.at /\ NoTime <= z.at /\ z.at <= z.at /\ z.at # NoTime
  BY <1>1, Constants DEF GoodSensor
<1>3. s = z.sensor \/ (s = new /\ level = "on") \/ (s = off /\ level # "on")
  BY DEF StartupSensor
<1> HIDE DEF s
<1>4. CASE s = z.sensor
  BY <1>1, <1>4 DEF StartsSensor
<1>5. CASE s = new /\ level = "on"
  <2>1. /\ new \in SensorType /\ new.status = "asserted" /\ new.start = z.at
        /\ new.clearedAt = NoTime
    BY <1>1 DEF Started, SensorType, Levels, Statuses
  <2> HIDE DEF new
  <2> QED BY <1>2, <1>5, <2>1 DEF StartsSensor, GoodSensor
<1>6. CASE s = off /\ level # "on"
  <2>1. /\ off \in SensorType /\ off.status \in {"baseline", "unavailable"} /\ off.level # "on"
        /\ off.start = z.sensor.start /\ off.clearedAt = NoTime
    BY <1>1, <1>6 DEF SensorType, Statuses
  <2> HIDE DEF off
  <2> QED BY <1>2, <1>6, <2>1 DEF StartsSensor, GoodSensor
<1> QED BY <1>3, <1>4, <1>5, <1>6

LEMMA OnwardAlways ==
    ASSUME NEW b, GoodBelief(b), NEW c, c.level = b.level, c.displacedAt = b.displacedAt,
           c.resolvedAt = b.resolvedAt
    PROVE  Onward(b, c)
<1>1. b.level \in Int /\ b.displacedAt \in Int
  BY BeliefParts, Constants DEF GoodBelief
<1>2. b.level <= c.level /\ b.displacedAt <= c.displacedAt
  BY <1>1
<1> QED BY <1>2 DEF Onward

LEMMA StartupReadStarts ==
    ASSUME NEW z, Settled(z), NEW s, StartsSensor(z, s), NEW level
    PROVE  Starts(z, StartupRead(z, s, level))
<1> DEFINE up == ApplyPositive(z.belief, z.at, z.at, PositiveGain)
           gone == ApplyUnavailable(z.belief)
           b == IF ~z.occupied THEN z.belief
                ELSE IF s.start # z.sensor.start THEN up
                ELSE IF s # z.sensor /\ s.start # NoTime THEN gone
                ELSE z.belief
           d == IF level = z.sensor.level THEN z.departs ELSE NoTime
           x == [z EXCEPT !.sensor = s, !.belief = b, !.departs = d]
<1>1. StartupRead(z, s, level) = x
  BY DEF StartupRead
<1>2. /\ Sane(z) /\ z \in ZoneState /\ GoodBelief(z.belief) /\ z.belief.at = z.at
      /\ z.belief.generation \in {NoTime, z.sensor.start}
      /\ ClearAhead(z) /\ VacantOK(z) /\ NotLate(z) /\ Formed(z)
  BY DEF Settled, Sane, Formed
<1>3. /\ GoodSensor(s, z.at) /\ s \in SensorType
      /\ s.start = z.sensor.start \/ s.start = z.at
      /\ s.status = "clearing" => s = z.sensor
  BY DEF StartsSensor, GoodSensor
<1>4. /\ GoodBelief(b) /\ b.at = z.at /\ b.hold = z.belief.hold
      /\ b.generation \in {NoTime, s.start} /\ (~z.occupied => b.generation = NoTime)
      /\ Onward(z.belief, b)
  <2>1. CASE b = z.belief /\ (~z.occupied \/ s.start = z.sensor.start)
    <3>1. ~z.occupied => z.belief.generation = NoTime
      BY <1>2 DEF VacantOK
    <3>2. Onward(z.belief, z.belief)
      BY <1>2, OnwardAlways
    <3> HIDE DEF b
    <3> QED BY <1>2, <2>1, <3>1, <3>2
  <2>2. CASE b = up /\ z.occupied /\ s.start = z.at
    <3>1. LET c == ApplyPositive(z.belief, z.belief.at, z.belief.at, PositiveGain)
          IN  GoodBelief(c) /\ c.at = z.belief.at /\ c.hold = z.belief.hold
              /\ c.generation = z.belief.at
      BY <1>2, Constants, Positive
    <3>2. Onward(z.belief, ApplyPositive(z.belief, z.belief.at, z.belief.at, PositiveGain))
      BY <1>2, Constants, PositiveOnward
    <3>3. GoodBelief(up) /\ up.at = z.at /\ up.hold = z.belief.hold /\ up.generation = z.at
      BY <1>2, <3>1
    <3>4. Onward(z.belief, up)
      BY <1>2, <3>2
    <3> HIDE DEF b, up
    <3> QED BY <2>2, <3>3, <3>4
  <2>3. CASE b = gone /\ z.occupied /\ s.start = z.sensor.start
    <3>1. GoodBelief(gone) /\ Same(z.belief, gone)
      BY <1>2, Unavailable
    <3>2. gone.level = z.belief.level /\ gone.displacedAt = z.belief.displacedAt
      BY <1>2 DEF ApplyUnavailable, GoodBelief, BeliefType
    <3> HIDE DEF gone
    <3>3. Onward(z.belief, gone)
      BY <1>2, <3>1, <3>2, OnwardAlways DEF Same
    <3>4. gone.at = z.at /\ gone.hold = z.belief.hold
          /\ gone.generation = z.belief.generation
      BY <1>2, <3>1 DEF Same
    <3> HIDE DEF b
    <3> QED BY <1>2, <2>3, <3>1, <3>3, <3>4
  <2>4. \/ b = z.belief /\ (~z.occupied \/ s.start = z.sensor.start)
        \/ b = up /\ z.occupied /\ s.start = z.at
        \/ b = gone /\ z.occupied /\ s.start = z.sensor.start
    BY <1>3
  <2> QED BY <2>1, <2>2, <2>3, <2>4
<1> HIDE DEF b
<1>5. d \in Nat \cup {NoTime}
  BY <1>2, ZoneParts
<1> HIDE DEF d
<1>6. /\ x \in ZoneState /\ x.at = z.at /\ x.belief = b /\ x.policy = z.policy
      /\ x.occupied = z.occupied /\ x.sensor = s /\ x.cover = z.cover /\ x.lease = z.lease
  BY <1>2, <1>3, <1>4, <1>5 DEF ZoneState, GoodBelief
<1> HIDE DEF x
<1>7. Sane(x)
  BY <1>2, <1>3, <1>4, <1>6, Made
<1>8. ClearAhead(x)
  BY <1>2, <1>3, <1>6 DEF ClearAhead, ClearsAt
<1>9. VacantOK(x)
  BY <1>2, <1>4, <1>6 DEF VacantOK
<1>10. NotLate(x)
  <2>1. Formed(x)
    BY <1>7 DEF Sane
  <2>2. x.policy.pending = z.policy.pending /\ Onward(z.belief, x.belief)
    BY <1>4, <1>6
  <2> QED BY <1>2, <1>6, <2>1, <2>2, StillNotLate
<1>11. Starts(z, x)
  BY <1>6, <1>7, <1>8, <1>9, <1>10 DEF Starts
<1> QED BY <1>1, <1>11

\* Whether the prediction is over, when its lease is not the one it was lit for.
LEMMA LeaseForced ==
    ASSUME NEW z, Sane(z), z.policy.phase = "predicted",
           ~Expirable(z.policy, z.at, z.lease # z.policy.expires)
    PROVE  z.lease = z.policy.expires /\ z.at < z.lease
<1>1. z.at \in Nat /\ z.policy.expires \in Nat \cup {NoTime}
  BY ZoneParts, PolicyParts DEF Sane, Formed
<1>2. ~(z.policy.expires <= z.at) /\ z.lease = z.policy.expires
  BY DEF Expirable
<1>3. z.at < z.policy.expires
  BY <1>1, <1>2, Constants
<1> QED BY <1>2, <1>3

LEMMA ReselectSettles ==
    ASSUME NEW z, Settled(z), z.occupied, KnownOn(z.sensor)
    PROVE  LET y == [z EXCEPT !.belief = Reselect(@, z.sensor.start)]
           IN  Settled(y) /\ Unmoved(z, y)
<1> DEFINE b == Reselect(z.belief, z.sensor.start)
           y == WithBelief(z, b)
<1>1. /\ Sane(z) /\ GoodBelief(z.belief) /\ z.belief.at = z.at /\ GoodSensor(z.sensor, z.at)
      /\ z.sensor.start \in Nat \cup {NoTime} /\ Formed(z)
      /\ HoldOK(z) /\ ClearAhead(z) /\ LeaseOK(z) /\ NotLate(z)
  BY SensorParts DEF Settled, Sane, Formed, GoodSensor
<1>2. z.sensor.start \in Nat
  BY <1>1 DEF KnownOn, GoodSensor
<1>3. z.sensor.start <= z.belief.at
  BY <1>1 DEF GoodSensor
<1>4. /\ GoodBelief(b) /\ b.at = z.belief.at /\ b.hold = z.belief.hold
      /\ b.generation = z.sensor.start /\ b.level = z.belief.level
      /\ b.resolvedAt = z.belief.resolvedAt
  BY <1>1, <1>2, <1>3, Reselected
<1>5. z.belief.displacedAt <= b.displacedAt
  BY <1>1, <1>2, <1>3, Reselected
<1> HIDE DEF b
<1>6. Onward(z.belief, b)
  <2>1. z.belief.level <= b.level
    BY <1>1, <1>4, BeliefParts, Constants DEF GoodBelief
  <2> QED BY <1>4, <1>5, <2>1 DEF Onward
<1>7. Believes(z, y, b)
  BY <1>1, <1>4, BeliefSet
<1> HIDE DEF y
<1>8. /\ Formed(y) /\ y.at = z.at /\ y.occupied = z.occupied /\ y.sensor = z.sensor
      /\ y.source = z.source /\ y.lease = z.lease /\ y.policy = z.policy
      /\ y.cover = z.cover /\ y.belief = b /\ Unmoved(z, y)
  BY <1>7 DEF Believes, Frame, Unmoved
<1>9. Sane(y)
  BY <1>1, <1>4, <1>8 DEF Sane, HoldsStill
<1>10. NotLate(y)
  BY <1>1, <1>6, <1>8, StillNotLate
<1>11. VacantOK(y) /\ HoldOK(y) /\ ClearAhead(y) /\ LeaseOK(y)
  BY <1>1, <1>4, <1>8 DEF VacantOK, HoldOK, Witnessed, ClearAhead, ClearsAt, LeaseOK
<1>12. Settled(y)
  BY <1>9, <1>10, <1>11 DEF Settled
<1> QED BY <1>8, <1>12 DEF y, b, WithBelief

LEMMA StartupEndSettles ==
    ASSUME NEW z, Starts(z, z), HoldOK(z), Branched(z)
    PROVE  Settled(StartupEnd(z)) /\ Branched(StartupEnd(z))
<1> DEFINE force == z.lease # z.policy.expires
           d == ExpireDue(z, force)
           y == d.zone
           w == [y EXCEPT !.belief = Reselect(@, y.sensor.start)]
<1>1. StartupEnd(z) = IF y.occupied /\ KnownOn(y.sensor) THEN w ELSE y
  BY DEF StartupEnd
<1>2. Sane(z) /\ ClearAhead(z) /\ VacantOK(z) /\ NotLate(z) /\ HoldOK(z)
  BY DEF Starts
<1>3. Expires(z, force, d)
  BY <1>2, Expiry
<1> HIDE DEF d
<1>4. /\ Decides(z, d) /\ NotLate(y) /\ Sane(y) /\ y.at = z.at /\ y.occupied = z.occupied
      /\ y.sensor = z.sensor /\ y.lease = z.lease /\ y.cover = z.cover /\ y.belief = z.belief
      /\ Unmoved(z, y)
  BY <1>2, <1>3 DEF Expires, Decides, Frame, Unmoved
<1>5. HoldOK(y) /\ ClearAhead(y)
  BY <1>2, <1>4, DecidesKeeps
<1>6. \/ y.policy = z.policy /\ ~Expirable(z.policy, z.at, force)
      \/ y.policy.phase = "inactive"
  BY <1>3 DEF Expires
<1> HIDE DEF y
<1>7. VacantOK(y)
  BY <1>2, <1>4, <1>6 DEF VacantOK
<1>8. LeaseOK(y)
  <2>1. CASE y.policy = z.policy /\ ~Expirable(z.policy, z.at, force)
    <3>1. z.policy.phase = "predicted" => z.lease = z.policy.expires /\ z.at < z.lease
      BY <1>2, <2>1, LeaseForced
    <3> QED BY <1>4, <2>1, <3>1 DEF LeaseOK
  <2>2. CASE y.policy.phase = "inactive"
    BY <2>2 DEF LeaseOK
  <2> QED BY <1>6, <2>1, <2>2
<1>9. Settled(y)
  BY <1>4, <1>5, <1>7, <1>8 DEF Settled
<1>10. y.occupied /\ KnownOn(y.sensor) => Settled(w) /\ Unmoved(y, w)
  BY <1>9, ReselectSettles
<1> HIDE DEF w
<1>11. Branched(y)
  BY <1>4, UnmovedBranched
<1>12. y.occupied /\ KnownOn(y.sensor) => Branched(w)
  BY <1>10, <1>11, UnmovedBranched
<1> QED BY <1>1, <1>9, <1>10, <1>11, <1>12 DEF y

LEMMA StartsHeld ==
    ASSUME NEW z, NEW x, Starts(z, x)
    PROVE  LET y == LeaseLasts(ReconcileHold(Reconciled(x)))
           IN  Starts(y, y) /\ HoldOK(y) /\ Branched(y)
<1> DEFINE m == Reconciled(x)
           h == ReconcileHold(m)
           y == LeaseLasts(h)
<1>1. Sane(x) /\ ClearAhead(x) /\ VacantOK(x) /\ NotLate(x)
  BY DEF Starts
<1>2. Reconciles(x, m)
  BY <1>1, BranchEnds
<1> HIDE DEF m
<1>3. Sane(m) /\ VacantOK(m) /\ NotLate(m) /\ m.at = x.at /\ m.sensor = x.sensor /\ Branched(m)
  BY <1>1, <1>2 DEF Reconciles, Frame
<1>4. Reholds(m, h)
  BY <1>3, HoldFollows
<1> HIDE DEF h
<1>5. Sane(h) /\ VacantOK(h) /\ NotLate(h) /\ HoldOK(h) /\ h.at = x.at /\ h.sensor = x.sensor
      /\ Unmoved(m, h)
  BY <1>3, <1>4 DEF Reholds, Frame, Unmoved
<1>6. ClearAhead(h)
  BY <1>1, <1>5 DEF ClearAhead, ClearsAt
<1>7. Lapses(h, y)
  BY <1>5, LeaseLapses
<1> HIDE DEF y
<1>8. Sane(y) /\ VacantOK(y) /\ NotLate(y) /\ HoldOK(y) /\ ClearAhead(y) /\ Unmoved(h, y)
  BY <1>5, <1>6, <1>7 DEF Lapses, Unmoved
<1>9. Branched(y)
  BY <1>3, <1>5, <1>8, UnmovedBranched
<1> QED BY <1>8, <1>9 DEF Starts, y, h, m

\* A restart is silent, whatever it changes.
RestartEnds == Settled(zone') /\ Branched(zone') /\ published' = Silent

LEMMA StartupEnds ==
    ASSUME NEW z, Settled(z), NEW level \in Levels, Startup(z, level) PROVE RestartEnds
<1> DEFINE s == StartupSensor(z.sensor, level, z.at)
           x == StartupRead(z, s, level)
           y == LeaseLasts(ReconcileHold(Reconciled(x)))
<1>1. zone' = StartupEnd(y) /\ published' = Silent
  BY DEF Startup, StartupFrom
<1>2. StartsSensor(z, s)
  BY StartupSensorIs DEF Settled
<1> HIDE DEF s
<1>3. Starts(z, x)
  BY <1>2, StartupReadStarts
<1> HIDE DEF x
<1>4. Starts(y, y) /\ HoldOK(y) /\ Branched(y)
  BY <1>3, StartsHeld
<1> HIDE DEF y
<1>5. Settled(StartupEnd(y)) /\ Branched(StartupEnd(y))
  BY <1>4, StartupEndSettles
<1> QED BY <1>1, <1>5 DEF RestartEnds

LEMMA RestartSettles ==
    ASSUME Settled(zone), NEW t \in Nat, zone.at <= t, NEW level \in Levels, Restart(t, level)
    PROVE  RestartEnds
<1> DEFINE a == Advance(zone, t).zone
           z == IF t > zone.at THEN a ELSE zone
<1>1. Startup(z, level)
  BY DEF Restart
<1>2. Settled(a)
  BY AdvanceFinishes DEF Finishes
<1> HIDE DEF a
<1>3. Settled(z)
  BY <1>2
<1> HIDE DEF z
<1> QED BY <1>1, <1>3, StartupEnds

-----------------------------------------------------------------------------
(* The specification. *)

LEMMA ObservationsSettle ==
    ASSUME Sane(zone), NEW t \in Nat, NEW pre, Readies(zone, t, pre), Local(pre)
    PROVE  KeepsOn(pre.step.zone)
<1>1. CASE \E reopened \in BOOLEAN : FlapOn(pre, reopened)
  BY <1>1, FlapEnds
<1>2. CASE \E correlated, selected, authorized \in BOOLEAN :
               StartOn(pre, correlated, selected, authorized)
  BY <1>2, StartEnds
<1>3. CASE ClearEdge(pre)
  BY <1>3, ClearEnds
<1>4. CASE BaselineOff(pre)
  BY <1>4, BaselineEnds
<1>5. CASE Outage(pre)
  BY <1>5, OutageEnds
<1> QED BY <1>1, <1>2, <1>3, <1>4, <1>5 DEF Local

LEMMA HouseSettles ==
    ASSUME Sane(zone), NEW t \in Nat, NEW pre, Readies(zone, t, pre), Branched(pre.step.zone),
           Remote(pre) \/ Counts(pre) \/ Ignored(pre)
    PROVE  KeepsOn(pre.step.zone)
<1>1. CASE Remote(pre)
  <2>1. CASE \E cover \in Covers, resolves \in BOOLEAN, lease \in LeaseChanges :
                 SelectedElsewhere(pre, cover, resolves, lease)
    BY <2>1, SelectedElsewhereEnds
  <2>2. CASE \E cover \in Covers, movement \in Movements, resolves, settled \in BOOLEAN :
                 OtherElsewhere(pre, cover, movement, resolves, settled)
    BY <2>2, OtherElsewhereEnds
  <2> QED BY <1>1, <2>1, <2>2 DEF Remote
<1>2. CASE Counts(pre)
  <2>1. CASE ZeroCount(pre)
    BY <2>1, ZeroCountEnds
  <2>2. CASE \E cover \in Covers : CountChange(pre, cover)
    BY <2>2, CountChangeEnds
  <2> QED BY <1>2, <2>1, <2>2 DEF Counts
<1>3. CASE Ignored(pre)
  BY <1>3, IgnoredEnds
<1> QED BY <1>1, <1>2, <1>3

LEMMA TimesAhead ==
    ASSUME Sane(zone), NEW t \in Times PROVE t \in Nat /\ zone.at <= t
<1>1. zone.at \in Nat
  BY ZoneParts DEF Sane, Formed
<1>2. zone.at + MaxStep \in Nat /\ MaxTime \in Nat
  BY <1>1, Constants
<1>3. t \in zone.at .. (IF zone.at + MaxStep > MaxTime THEN MaxTime ELSE zone.at + MaxStep)
  BY DEF Times
<1> QED BY <1>1, <1>2, <1>3

\* Every call of the engine but a restart ends with all settled and kept.
LEMMA CallSettles ==
    ASSUME Settled(zone), Next
    PROVE  KeepsOn(zone) \/ (RestartEnds /\ "restart" \in Inputs)
<1>1. Sane(zone)
  BY DEF Settled
<1>2. PICK t \in Times :
          \/ Local(Pre(zone, t))
          \/ Remote(Pre(zone, t)) \/ Counts(Pre(zone, t)) \/ Ignored(Pre(zone, t))
          \/ \E level \in Levels, correlated \in BOOLEAN : EmptyHouse(t, level, correlated)
          \/ Timer(t)
          \/ \E level \in Levels : "restart" \in Inputs /\ Restart(t, level)
  BY DEF Next
<1>3. t \in Nat /\ zone.at <= t
  BY <1>1, TimesAhead
<1>4. /\ Readies(zone, t, Pre(zone, t))
      /\ Branched(Pre(zone, t).step.zone)
      /\ Kept(zone) => Kept(Pre(zone, t).step.zone)
  BY <1>3, BeforeReady, PreUndisturbed DEF Kept, Undisturbed
<1>5. CASE Local(Pre(zone, t))
  BY <1>1, <1>3, <1>4, <1>5, ObservationsSettle DEF KeepsOn
<1>6. CASE Remote(Pre(zone, t)) \/ Counts(Pre(zone, t)) \/ Ignored(Pre(zone, t))
  BY <1>1, <1>3, <1>4, <1>6, HouseSettles DEF KeepsOn
<1>7. CASE \E level \in Levels, correlated \in BOOLEAN : EmptyHouse(t, level, correlated)
  BY <1>3, <1>7, EmptyHouseEnds
<1>8. CASE Timer(t)
  BY <1>3, <1>8, TimerEnds
<1>9. CASE \E level \in Levels : "restart" \in Inputs /\ Restart(t, level)
  BY <1>3, <1>9, RestartSettles
<1> QED BY <1>2, <1>5, <1>6, <1>7, <1>8, <1>9

\* A dark zone, or one that an older store has lit.
LEMMA SeedGood ==
    ASSUME NEW seed \in BOOLEAN
    PROVE  LET p == InitialPolicy(0, seed)
           IN  GoodPolicy(p) /\ p.evaluatedAt = 0 /\ p.pending = NoTime /\ p.phase # "predicted"
<1> DEFINE p == InitialPolicy(0, seed)
<1>1. /\ p \in PolicyType /\ p.active = seed /\ p.pending = NoTime /\ p.expires = NoTime
      /\ p.activatedAt = NoTime /\ p.held = FALSE /\ p.dedup = {} /\ p.evaluatedAt = 0
      /\ p.phase = (IF seed THEN "active" ELSE "inactive")
      /\ p.provenance = (IF seed THEN "restored_seed" ELSE "none")
  BY DEF InitialPolicy, PolicyType, Phases, Provenances
<1> HIDE DEF p
<1>2. PhaseOK(p) /\ HeldOK(p) /\ PendingOK(p)
  BY <1>1 DEF PhaseOK, HeldOK, PendingOK
<1>3. ActivationOK(p)
  <2>1. p.activatedAt <= p.evaluatedAt
    BY <1>1, Constants
  <2> QED BY <1>1, <2>1 DEF ActivationOK
<1>4. IsFiniteSet(p.dedup) /\ Cardinality(p.dedup) = 0
  BY <1>1, FS_EmptySet
<1>5. DedupOK(p)
  BY <1>1, <1>4, Constants DEF DedupOK
<1>6. GoodPolicy(p)
  BY <1>1, <1>2, <1>3, <1>4, <1>5 DEF GoodPolicy, FairPolicy
<1> QED BY <1>1, <1>6 DEF p

\* Between any two calls all is settled, and nothing is left to withdraw.
IInv == Settled(zone) /\ Branched(zone) /\ published \in Events \cup {Silent}

LEMMA ZoneStarts == Init => IInv
<1> SUFFICES ASSUME Init PROVE IInv
  OBVIOUS
<1>1. PICK seed \in Seeds : zone = InitialZone(seed)
  BY DEF Init
<1> DEFINE b == InitialBelief(0)
           p == InitialPolicy(0, seed)
<1>2. GoodBelief(b) /\ b.at = 0 /\ b.hold = FALSE /\ b.generation = NoTime
  BY Initially
<1>3. GoodPolicy(p) /\ p.evaluatedAt = 0 /\ p.pending = NoTime /\ p.phase # "predicted"
  BY Constants, SeedGood
<1>4. /\ zone.at = 0 /\ zone.occupied = TRUE /\ zone.sensor = InitialSensor
      /\ zone.belief = b /\ zone.policy = p /\ zone \in ZoneState
  <2>1. InitialSensor \in SensorType
    BY DEF InitialSensor, SensorType, Levels, Statuses
  <2>2. b \in BeliefType /\ p \in PolicyType
    BY <1>2, <1>3 DEF GoodBelief, GoodPolicy, FairPolicy
  <2> HIDE DEF b, p
  <2>3. zone = [at |-> 0, occupied |-> TRUE, sensor |-> InitialSensor, belief |-> b,
                policy |-> p, cover |-> "none", visit |-> NoTime, pending |-> FALSE,
                source |-> NoTime, departs |-> NoTime, settled |-> FALSE, lease |-> NoTime]
    BY <1>1 DEF InitialZone, b, p
  <2> QED BY <2>1, <2>2, <2>3 DEF ZoneState, Covers
<1>5. zone.source = NoTime
  BY <1>1 DEF InitialZone
<1> HIDE DEF b, p
<1>6. GoodSensor(zone.sensor, zone.at)
  <2>1. InitialSensor.start = NoTime /\ InitialSensor.clearedAt = NoTime
        /\ InitialSensor.level = "unavailable" /\ InitialSensor.status = "baseline"
        /\ InitialSensor \in SensorType
    BY DEF InitialSensor, SensorType, Levels, Statuses
  <2>2. NoTime <= 0
    BY Constants
  <2> QED BY <1>4, <2>1, <2>2 DEF GoodSensor
<1>7. Sane(zone)
  <2>1. zone.policy.evaluatedAt <= zone.at
    BY <1>3, <1>4
  <2> QED BY <1>2, <1>3, <1>4, <1>6, <2>1 DEF Sane, Formed, HoldsStill
<1>8. VacantOK(zone) /\ HoldOK(zone) /\ LeaseOK(zone) /\ NotLate(zone)
  BY <1>2, <1>3, <1>4, <1>5 DEF VacantOK, HoldOK, Witnessed, LeaseOK, NotLate
<1>9. ClearAhead(zone)
  BY <1>4 DEF ClearAhead, InitialSensor
<1>10. published \in Events
  BY DEF Init, Events
<1>11. Branched(zone)
  BY <1>1 DEF InitialZone, Branched
<1> QED BY <1>7, <1>8, <1>9, <1>10, <1>11 DEF IInv, Settled

LEMMA ZoneKeeps == IInv /\ [Next]_vars => IInv'
<1> SUFFICES ASSUME IInv, [Next]_vars PROVE IInv'
  OBVIOUS
<1>1. CASE Next
  <2>1. Settled(zone') /\ Branched(zone') /\ published' \in Events \cup {Silent}
    BY <1>1, CallSettles DEF IInv, KeepsOn, CallEnds, RestartEnds, Tells
  <2> QED BY <2>1 DEF IInv
<1>2. CASE UNCHANGED vars
  BY <1>2 DEF vars, IInv
<1> QED BY <1>1, <1>2

LEMMA ZoneSettled == Spec => []IInv
<1> QED BY ZoneStarts, ZoneKeeps, PTL DEF Spec

\* What a restart lifts, no other call does: the belief of a zone whose light
\* waits for the end of its dwell.
KInv == IInv /\ Kept(zone)

LEMMA KeptStarts == Init => Kept(zone)
<1> SUFFICES ASSUME Init PROVE Kept(zone)
  OBVIOUS
<1>1. PICK seed \in Seeds : zone = InitialZone(seed)
  BY DEF Init
<1>2. /\ zone.policy.provenance # "evidence" /\ zone.belief.latest = NoTime
      /\ zone.cover = "none"
  BY <1>1 DEF InitialZone, InitialPolicy, InitialBelief
<1>3. Branched(zone)
  BY <1>1 DEF InitialZone, Branched
<1> QED BY <1>2, <1>3, UnheldSteady DEF Kept, Steady, Fresh

LEMMA KeptKeeps == "restart" \notin Inputs => (KInv /\ [Next]_vars => KInv')
<1> SUFFICES ASSUME "restart" \notin Inputs, KInv, [Next]_vars PROVE KInv'
  OBVIOUS
<1>1. IInv'
  BY ZoneKeeps DEF KInv
<1>2. CASE Next
  BY <1>1, <1>2, CallSettles DEF KInv, IInv, KeepsOn
<1>3. CASE UNCHANGED vars
  BY <1>1, <1>3 DEF vars, KInv
<1> QED BY <1>2, <1>3

\* Whatever the profile of the sensor, the levels of its belief and the order
\* of the calls, what the engine holds for a zone can be saved and loaded.
THEOREM ZoneRestorable == Spec => []Restorable
<1>1. IInv => Restorable
  <2> SUFFICES ASSUME IInv PROVE Restorable
    OBVIOUS
  <2>1. /\ Formed(zone) /\ VacantOK(zone) /\ HoldOK(zone)
        /\ published \in Events \cup {Silent}
    BY DEF IInv, Settled, Sane
  <2>2. TypeOK
    BY <2>1 DEF TypeOK, Formed, ZoneState
  <2>3. BeliefOK(zone.belief) /\ PolicyOK(zone.policy)
    BY <2>1 DEF Formed, GoodBelief, GoodPolicy, FairPolicy, PolicyOK
  <2>4. zone.belief.at <= zone.at
    BY <2>1, ZoneParts DEF Formed
  <2>5. Withdrawn(zone) = zone
    BY <2>1, RootedStays DEF IInv, Formed
  <2> QED BY <2>1, <2>2, <2>3, <2>4, <2>5 DEF Restorable, Formed, VacantOK, HoldOK
<1> QED BY <1>1, ZoneSettled, PTL

\* A light that is on for a prediction has the live lease it was lit for,
\* whichever calls granted, cancelled and expired the leases of its zone.
THEOREM ZoneLeased == Spec => []PredictionLeased
<1>1. IInv => PredictionLeased
  <2> SUFFICES ASSUME IInv, zone.policy.phase = "predicted"
               PROVE  zone.lease = zone.policy.expires /\ zone.lease > zone.at
    BY DEF PredictionLeased
  <2>1. Sane(zone) /\ zone.lease = zone.policy.expires /\ zone.at < zone.lease
    BY DEF IInv, Settled, LeaseOK
  <2>2. zone.at \in Int /\ zone.lease \in Int
    BY <2>1, ZoneParts, Constants DEF Sane, Formed
  <2> QED BY <2>1, <2>2
<1> QED BY <1>1, ZoneSettled, PTL

\* No call of the engine returns with a release that was due: a dwell that is
\* over, of a zone that nothing shields, has put its light out.
THEOREM ZoneNotLate == Spec => []NoLateRelease
<1>1. IInv => NoLateRelease
  BY DEF IInv, Settled, NotLate, NoLateRelease, Free
<1> QED BY <1>1, ZoneSettled, PTL

\* Every light that goes on or off is announced by the call that changed it,
\* except by a restart: the evaluations that run unpublished in the middle of
\* a call never change it.
THEOREM ZoneAnnounced == Spec => Announced
<1>1. IInv /\ [Next]_vars =>
          [published' # Silent /\ zone.policy.active # zone'.policy.active =>
              published' = IF zone'.policy.active THEN "acquired" ELSE "released"]_vars
  <2> SUFFICES ASSUME IInv, Next, published' # Silent,
                      zone.policy.active # zone'.policy.active
               PROVE  published' = IF zone'.policy.active THEN "acquired" ELSE "released"
    BY DEF vars
  <2>1. CallEnds
    BY CallSettles DEF IInv, KeepsOn, RestartEnds
  <2> QED BY <2>1 DEF CallEnds, Tells
<1> QED BY <1>1, ZoneSettled, PTL DEF Spec, Announced

\* Where no restart intervenes, what the next evaluation reads of the last one
\* is true of the zone now (policy.py:404-423): the policy remembers the
\* retention the zone has, so that the next loss of it is noticed; a dwell that
\* runs has a low belief, unless the belief rises when it is left alone; and an
\* observation that protects the zone is not older than its activation.
THEOREM ZonePolicyCurrent ==
    ASSUME "restart" \notin Inputs
    PROVE  Spec => []Steady(zone)
<1>1. Init => KInv
  BY ZoneStarts, KeptStarts DEF KInv
<1>2. KInv /\ [Next]_vars => KInv'
  BY KeptKeeps
<1>3. KInv => Steady(zone)
  BY DEF KInv, Kept
<1> QED BY <1>1, <1>2, <1>3, PTL DEF Spec
=============================================================================
