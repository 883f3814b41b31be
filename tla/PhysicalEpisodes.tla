-------------------------- MODULE PhysicalEpisodes --------------------------
(***************************************************************************)
(* zone_model/episodes.py: raw alias edges of each physical sensor node    *)
(* are collapsed into one correlated episode per node.  A call carries its *)
(* own time; a call older than the frontier of a node does not touch it.   *)
(* Every action is one whole call of PhysicalEpisodes, deadlines that fell *)
(* due on the way included.                                                *)
(*                                                                         *)
(* An episode identifier (node, generation, start) is represented by the   *)
(* node and the generation; cadence_warning and health_warning are the     *)
(* presence of their reasons; reliability is left out.                     *)
(***************************************************************************)
EXTENDS Integers, FiniteSets

CONSTANTS
    Nodes,              \* physical node identifiers
    Aliases,            \* [Nodes -> non-empty sets of entity aliases]
    InteractionNodes,   \* nodes all of whose aliases are event entities
    Profile,            \* [Nodes -> sensor profile record]
    DiagnosticWarnings, \* the constructor's diagnostic_warnings
    CountPressure,      \* TRUE: the legacy count-conflict calls are made
    Neutral,            \* alias levels that say nothing: unknown, unavailable
    CycleLimit,         \* the cap of cadence_cycle_count (65535)
    MaxTime,            \* bound on the time of a call
    MaxGeneration       \* bound on the episodes of a node

NoTime == -1
Times == 0 .. MaxTime
Levels == {"off", "on"} \cup Neutral
Statuses == {"baseline", "asserted", "degraded", "clearing", "clear", "unavailable"}
HealthReasons == {"none", "assertion_timeout", "count_conflict"}
CadenceReasons == {"none", "impossible_cadence", "sustained_flapping"}
EffectKinds == {"positive", "correlated_positive", "interaction", "stable_clear",
                "correlated_flap_ignored", "impossible_cadence", "sustained_flapping",
                "cadence_warning_cleared", "health_degraded", "health_recovered"}

\* What SensorProfile.__post_init__ accepts; only stay_presence links cycles.
ProfileOK(p) ==
    /\ p.presence \in BOOLEAN /\ p.stay \in BOOLEAN
    /\ {p.burst, p.clear, p.hold, p.trust, p.traversal, p.cycle, p.sustained} \subseteq Nat
    /\ p.clear > 0 /\ p.trust > 0 /\ p.burst < p.clear
    /\ p.sustained > 0 => p.cycle > 0 /\ p.sustained > p.cycle
    /\ p.cycle > 0 <=> p.presence

ASSUME NodesAssumption ==
    /\ InteractionNodes \subseteq Nodes
    /\ DOMAIN Aliases = Nodes
    /\ \A n \in Nodes : Aliases[n] # {}

ASSUME ProfileAssumption ==
    /\ DOMAIN Profile = Nodes
    /\ \A n \in Nodes : ProfileOK(Profile[n])

ASSUME BoundsAssumption ==
    /\ DiagnosticWarnings \in BOOLEAN
    /\ CountPressure \in BOOLEAN
    /\ Neutral \subseteq {"unknown", "unavailable"} /\ "unknown" \in Neutral
    /\ CycleLimit \in Nat \ {0}
    /\ MaxTime \in Nat /\ MaxGeneration \in Nat

VARIABLES
    ep,      \* ep[n]: the EpisodeState of node n
    effects  \* effects[n]: the facts about n returned by the last call

vars == <<ep, effects>>

(***************************************************************************)
(* Episode records                                                         *)
(***************************************************************************)
FreshEpisode(n) ==
    [aliases |-> [a \in Aliases[n] |-> "unknown"],
     generation |-> 0, status |-> "baseline", startedAt |-> NoTime,
     lastEventAt |-> NoTime, advancedAt |-> NoTime,
     clearStartedAt |-> NoTime, clearDeadline |-> NoTime, clearEmitted |-> FALSE,
     holdUntil |-> NoTime, trustUntil |-> NoTime, traversalUntil |-> NoTime,
     degradedAt |-> NoTime, degradationReason |-> "none",
     cadenceRunAt |-> NoTime, cadenceLastAt |-> NoTime, cadenceCycles |-> 0,
     cadenceCorrelated |-> FALSE, cadenceReason |-> "none"]

KnownOn(s) == \E a \in DOMAIN s.aliases : s.aliases[a] = "on"
AllOff(s) == \A a \in DOMAIN s.aliases : s.aliases[a] = "off"
AllNeutral(s) == \A a \in DOMAIN s.aliases : s.aliases[a] \in Neutral
HealthWarning(s) == s.degradationReason # "none"
CadenceWarning(s) == s.cadenceReason # "none"

IsStale(s, at) == at < s.lastEventAt \/ at < s.advancedAt

Fact(s, kind, at, reason) ==
    [kind |-> kind, at |-> at, generation |-> s.generation, reason |-> reason]

CadenceCleared(s, at) ==
    IF CadenceWarning(s) THEN {Fact(s, "cadence_warning_cleared", at, s.cadenceReason)} ELSE {}

HealthRecovered(s, at) ==
    IF HealthWarning(s) THEN {Fact(s, "health_recovered", at, s.degradationReason)} ELSE {}

\* Mutant: the completed cycles survive the reset.
MutCadenceReset(s) ==
    [s EXCEPT !.cadenceRunAt = NoTime, !.cadenceLastAt = NoTime,
              !.cadenceCorrelated = FALSE, !.cadenceReason = "none"]

CadenceReset(s) ==
    [s EXCEPT !.cadenceRunAt = NoTime, !.cadenceLastAt = NoTime, !.cadenceCycles = 0,
              !.cadenceCorrelated = FALSE, !.cadenceReason = "none"]

\* Mutant: clear edges and flaps do not move the quiet window.
MutCadenceTouched(s, at) == s

\* A transition of the aggregate level extends an open cadence run.
CadenceTouched(s, at) ==
    [s EXCEPT !.cadenceLastAt = IF s.cadenceRunAt # NoTime THEN at ELSE NoTime]

(***************************************************************************)
(* _advance_state: every deadline that is due by t, in deadline order.     *)
(* The cadence deadlines and the clear or timeout deadline touch different *)
(* fields, so each is given in closed form.                                *)
(***************************************************************************)
QuietAt(n, s) == s.cadenceLastAt + Profile[n].cycle
SustainedAt(n, s) == s.cadenceRunAt + Profile[n].sustained

\* Mutant: the quiet window is closed at its end.
MutQuietDue(n, s, t) ==
    s.cadenceLastAt # NoTime /\ Profile[n].cycle > 0 /\ QuietAt(n, s) < t

QuietDue(n, s, t) ==
    s.cadenceLastAt # NoTime /\ Profile[n].cycle > 0 /\ QuietAt(n, s) <= t

SustainedDue(n, s, t) ==
    /\ DiagnosticWarnings /\ Profile[n].sustained > 0
    /\ s.cadenceRunAt # NoTime /\ s.cadenceCycles > 0 /\ ~CadenceWarning(s)
    /\ SustainedAt(n, s) <= t
    /\ QuietDue(n, s, t) => SustainedAt(n, s) < QuietAt(n, s)

\* Mutant: the stable clear is one instant late.
MutClearDueLate(n, s, t) ==
    /\ s.status = "clearing" /\ s.generation > 0 /\ ~s.clearEmitted
    /\ s.clearDeadline # NoTime /\ s.clearDeadline < t

\* Mutant: the stable clear needs a call at exactly its deadline.
MutClearDueExact(n, s, t) ==
    /\ s.status = "clearing" /\ s.generation > 0 /\ ~s.clearEmitted
    /\ s.clearDeadline # NoTime /\ s.clearDeadline = t

ClearDue(n, s, t) ==
    /\ s.status = "clearing" /\ s.generation > 0 /\ ~s.clearEmitted
    /\ s.clearDeadline # NoTime /\ s.clearDeadline <= t

TimeoutDue(n, s, t) ==
    /\ DiagnosticWarnings /\ s.status = "asserted" /\ ~Profile[n].stay
    /\ ~HealthWarning(s) /\ s.generation > 0 /\ s.trustUntil <= t

SustainedWarned(n, s, t) ==
    IF SustainedDue(n, s, t) THEN [s EXCEPT !.cadenceReason = "sustained_flapping"] ELSE s

\* cadence_correlated is not cleared by quiet.
AdvanceCadence(n, s, t) ==
    IF QuietDue(n, s, t)
    THEN [s EXCEPT !.cadenceRunAt = NoTime, !.cadenceLastAt = NoTime,
                   !.cadenceCycles = 0, !.cadenceReason = "none"]
    ELSE SustainedWarned(n, s, t)

AdvanceStatus(n, s, t) ==
    IF ClearDue(n, s, t)
    THEN [s EXCEPT !.status = "clear", !.clearEmitted = TRUE,
                   !.clearStartedAt = NoTime, !.clearDeadline = NoTime,
                   !.traversalUntil = NoTime,
                   !.degradedAt = NoTime, !.degradationReason = "none",
                   !.cadenceReason = IF Profile[n].cycle > 0 THEN @ ELSE "none"]
    ELSE IF TimeoutDue(n, s, t)
    THEN [s EXCEPT !.status = "degraded", !.traversalUntil = NoTime,
                   !.degradedAt = s.trustUntil, !.degradationReason = "assertion_timeout"]
    ELSE s

Advanced(n, s, t) == [AdvanceStatus(n, AdvanceCadence(n, s, t), t) EXCEPT !.advancedAt = t]

AdvanceFacts(n, s, t) ==
    (IF SustainedDue(n, s, t)
     THEN {Fact(s, "sustained_flapping", SustainedAt(n, s), "sustained_flapping")} ELSE {})
    \cup
    (IF QuietDue(n, s, t)
     THEN CadenceCleared(SustainedWarned(n, s, t), QuietAt(n, s)) ELSE {})
    \cup
    (IF ClearDue(n, s, t)
     THEN {Fact(s, "stable_clear", s.clearDeadline, "none")}
          \cup HealthRecovered(s, s.clearDeadline)
          \cup (IF Profile[n].cycle = 0 THEN CadenceCleared(s, s.clearDeadline) ELSE {})
     ELSE {})
    \cup
    (IF TimeoutDue(n, s, t)
     THEN {Fact(s, "health_degraded", s.trustUntil, "assertion_timeout")} ELSE {})

(***************************************************************************)
(* Starting, continuing and ending an episode                              *)
(***************************************************************************)
\* Mutant: the end of the hardware hold still counts as held.
MutContinuesFlap(n, s, at) ==
    /\ s.generation > 0 /\ s.status # "unavailable"
    /\ \/ s.clearStartedAt # NoTime /\ at <= s.clearStartedAt + Profile[n].burst
       \/ at <= s.holdUntil

\* _continues_flap: the hardware could not have re-armed, or the clear edge
\* is within the burst window.
ContinuesFlap(n, s, at) ==
    /\ s.generation > 0 /\ s.status # "unavailable"
    /\ \/ s.clearStartedAt # NoTime /\ at <= s.clearStartedAt + Profile[n].burst
       \/ at < s.holdUntil

\* The positive closes a cycle of an open run after a stable clear.
LinksCycle(n, s, at) == s.status = "clear" /\ s.cadenceRunAt # NoTime

TraversalFrontier(n, at) ==
    at + (IF Profile[n].traversal < Profile[n].trust THEN Profile[n].traversal
                                                     ELSE Profile[n].trust)

\* The fields every new generation gets, interaction pulse or assertion.
NewGeneration(n, s, at) ==
    [s EXCEPT !.generation = @ + 1, !.startedAt = at,
              !.holdUntil = at + Profile[n].hold, !.trustUntil = at + Profile[n].trust,
              !.traversalUntil = TraversalFrontier(n, at), !.clearEmitted = FALSE,
              !.degradedAt = NoTime, !.degradationReason = "none"]

\* Mutant: the cycle count has no cap.
MutNextCycles(n, s, correlated) ==
    IF Profile[n].cycle = 0 \/ s.cadenceRunAt = NoTime THEN 0
    ELSE IF correlated THEN s.cadenceCycles + 1 ELSE s.cadenceCycles

NextCycles(n, s, correlated) ==
    IF Profile[n].cycle = 0 \/ s.cadenceRunAt = NoTime THEN 0
    ELSE IF correlated /\ s.cadenceCycles < CycleLimit THEN s.cadenceCycles + 1
    ELSE s.cadenceCycles

StartEpisode(n, s, at, correlated) ==
    LET linked == Profile[n].cycle > 0
    IN  [NewGeneration(n, s, at) EXCEPT
            !.status = "asserted", !.clearStartedAt = NoTime, !.clearDeadline = NoTime,
            !.cadenceRunAt = IF linked /\ @ = NoTime THEN at ELSE @,
            !.cadenceLastAt = IF linked THEN at ELSE NoTime,
            !.cadenceCycles = NextCycles(n, s, correlated),
            !.cadenceCorrelated = correlated,
            !.cadenceReason = IF linked THEN @ ELSE "none"]

StartFacts(n, s, at, correlated) ==
    LET started == NewGeneration(n, s, at)
    IN  {Fact(started, h.kind, at, h.reason) : h \in HealthRecovered(s, at)}
        \cup (IF Profile[n].cycle = 0 THEN CadenceCleared(s, at) ELSE {})
        \cup {Fact(started, IF correlated THEN "correlated_positive" ELSE "positive", at, "none")}

Pulse(n, s, at) ==
    [CadenceReset(NewGeneration(n, s, at)) EXCEPT
        !.status = "clearing",
        !.clearStartedAt = at, !.clearDeadline = at + Profile[n].clear]

\* An assertion the hardware cannot have produced.
Impossible(s, at) == at < s.holdUntil

CountDegraded(s) == s.degradationReason = "count_conflict"

\* Mutant: a flap after the re-arm restores the authority of the episode.
MutAuthorityAfterFlap(n, s, at) ==
    IF Impossible(s, at) \/ CountDegraded(s) THEN NoTime ELSE TraversalFrontier(n, s.startedAt)

AuthorityAfterFlap(n, s, at) ==
    IF Impossible(s, at) \/ CountDegraded(s) THEN NoTime ELSE s.traversalUntil

Reassert(n, s, at) ==
    [CadenceTouched(s, at) EXCEPT
        !.status = IF CountDegraded(s) THEN "degraded" ELSE "asserted",
        !.clearStartedAt = NoTime, !.clearDeadline = NoTime, !.clearEmitted = FALSE,
        !.traversalUntil = AuthorityAfterFlap(n, s, at),
        !.cadenceReason = IF Impossible(s, at) /\ DiagnosticWarnings
                          THEN "impossible_cadence" ELSE @]

ReassertFacts(s, at) ==
    IF Impossible(s, at) /\ DiagnosticWarnings
    THEN {Fact(s, "impossible_cadence", at, "impossible_cadence")}
    ELSE {Fact(s, "correlated_flap_ignored", at, "none")}

\* A stay_presence node is clear only when every alias says off.
KnownClear(n, s) == ~Profile[n].presence \/ AllOff(s)

ReleaseLevel(n, s, at) ==
    IF KnownClear(n, s)
    THEN [CadenceTouched(s, at) EXCEPT
            !.status = "clearing",
            !.clearStartedAt = at, !.clearDeadline = at + Profile[n].clear]
    ELSE [CadenceTouched(s, at) EXCEPT
            !.status = "unavailable",
            !.clearStartedAt = NoTime, !.clearDeadline = NoTime, !.traversalUntil = NoTime]

\* Mutant: a lost assertion is kept as long as another alias is known.
MutEndedByOutage(n, before, s, interactionLost) ==
    \/ interactionLost
    \/ Profile[n].presence /\ s.status = "clearing" /\ ~KnownOn(s)
    \/ AllNeutral(s)

\* Losing the last known assertion (or all knowledge) ends the episode.
EndedByOutage(n, before, s, interactionLost) ==
    \/ interactionLost
    \/ KnownOn(before) /\ ~KnownOn(s)
    \/ Profile[n].presence /\ s.status = "clearing" /\ ~KnownOn(s)
    \/ AllNeutral(s)

LoseLevel(n, before, s, interactionLost) ==
    LET ended == EndedByOutage(n, before, s, interactionLost)
    IN  [CadenceReset(s) EXCEPT
            !.status = IF ended THEN "unavailable"
                       ELSE IF HealthWarning(s) /\ KnownOn(s) THEN "asserted" ELSE @,
            !.clearStartedAt = IF ended THEN NoTime ELSE @,
            !.clearDeadline = IF ended THEN NoTime ELSE @,
            !.clearEmitted = IF ended THEN FALSE ELSE @,
            !.traversalUntil = NoTime, !.degradedAt = NoTime, !.degradationReason = "none"]

(***************************************************************************)
(* The calls                                                               *)
(***************************************************************************)
Init ==
    /\ ep = [n \in Nodes |-> FreshEpisode(n)]
    /\ effects = [n \in Nodes |-> {}]

\* A call about one node returns one update.
Update(n, s, facts) ==
    /\ ep' = [ep EXCEPT ![n] = s]
    /\ effects' = [m \in Nodes |-> IF m = n THEN facts ELSE {}]

\* A pressed interaction entity; a press at the last event's time is a duplicate.
Press(n, at) ==
    LET s == Advanced(n, ep[n], at)
    IN  /\ n \in InteractionNodes
        /\ ~IsStale(ep[n], at) /\ ep[n].lastEventAt # at
        /\ Update(n, [Pulse(n, s, at) EXCEPT !.lastEventAt = at],
                  AdvanceFacts(n, ep[n], at)
                  \cup {Fact(NewGeneration(n, s, at), "interaction", at, "none")})

\* Mutant: the deadlines due before the observation are skipped.
MutObserved(n, a, level, at) ==
    [ep[n] EXCEPT !.aliases[a] = level, !.lastEventAt = at, !.advancedAt = at]

\* Any other alias level: deadlines first, then the alias is replaced.
Observed(n, a, level, at) ==
    [Advanced(n, ep[n], at) EXCEPT !.aliases[a] = level, !.lastEventAt = at]

InteractionLost(n, level) ==
    /\ level \in Neutral /\ n \in InteractionNodes
    /\ ep[n].generation > 0 /\ ep[n].status # "unavailable"

\* Neither stale nor a repeat of the level already known.
Accepts(n, a, level, at) ==
    /\ a \in Aliases[n] /\ ~IsStale(ep[n], at)
    /\ ep[n].aliases[a] # level \/ InteractionLost(n, level)

ObserveUnavailable(n, a, level, at) ==
    LET s == Observed(n, a, level, at)
    IN  /\ level \in Neutral /\ Accepts(n, a, level, at)
        /\ Update(n, LoseLevel(n, ep[n], s, InteractionLost(n, level)),
                  AdvanceFacts(n, ep[n], at) \cup CadenceCleared(s, at) \cup HealthRecovered(s, at))

\* Interaction entities report presses only (events.py).
AcceptsLevel(n, a, level, at) == n \notin InteractionNodes /\ Accepts(n, a, level, at)

\* An edge of one of several aliases that leaves the node on.
AliasEdge(n, a, level, at) ==
    LET s == Observed(n, a, level, at)
    IN  /\ level \in {"on", "off"} /\ AcceptsLevel(n, a, level, at)
        /\ KnownOn(ep[n]) /\ KnownOn(s)
        /\ Update(n, s, AdvanceFacts(n, ep[n], at))

FlapOn(n, a, at) ==
    LET s == Observed(n, a, "on", at)
    IN  /\ AcceptsLevel(n, a, "on", at) /\ ~KnownOn(ep[n]) /\ ContinuesFlap(n, s, at)
        /\ Update(n, Reassert(n, s, at), AdvanceFacts(n, ep[n], at) \cup ReassertFacts(s, at))

StartOn(n, a, at) ==
    LET s == Observed(n, a, "on", at)
        correlated == LinksCycle(n, s, at)
    IN  /\ AcceptsLevel(n, a, "on", at) /\ ~KnownOn(ep[n]) /\ ~ContinuesFlap(n, s, at)
        /\ Update(n, StartEpisode(n, s, at, correlated),
                  AdvanceFacts(n, ep[n], at) \cup StartFacts(n, s, at, correlated))

ClearEdge(n, a, at) ==
    LET s == Observed(n, a, "off", at)
    IN  /\ AcceptsLevel(n, a, "off", at) /\ KnownOn(ep[n]) /\ ~KnownOn(s)
        /\ Update(n, ReleaseLevel(n, s, at), AdvanceFacts(n, ep[n], at))

BaselineOff(n, a, at) ==
    LET s == Observed(n, a, "off", at)
    IN  /\ AcceptsLevel(n, a, "off", at) /\ ~KnownOn(ep[n])
        /\ Update(n, [s EXCEPT !.status = IF @ = "unavailable" THEN "baseline" ELSE @],
                  AdvanceFacts(n, ep[n], at))

Advances(n, at) == ~IsStale(ep[n], at) /\ ep[n].advancedAt # at

\* advance: a stale node and a node already at this time are left alone.
Advance(at) ==
    /\ \E n \in Nodes : Advances(n, at)
    /\ ep' = [n \in Nodes |-> IF Advances(n, at) THEN Advanced(n, ep[n], at) ELSE ep[n]]
    /\ effects' = [n \in Nodes |-> IF Advances(n, at) THEN AdvanceFacts(n, ep[n], at) ELSE {}]

\* An authoritative count of zero: the engine advances every node to the time
\* of the count and then resets the cadence (engine.py observe_count).
CountZero(at) ==
    /\ \A n \in Nodes : ~IsStale(ep[n], at)
    /\ ep' = [n \in Nodes |-> CadenceReset(Advanced(n, ep[n], at))]
    /\ effects' = [n \in Nodes |->
                      AdvanceFacts(n, ep[n], at) \cup CadenceCleared(Advanced(n, ep[n], at), at)]

(***************************************************************************)
(* Startup: the levels of all aliases read at one time                     *)
(***************************************************************************)
StartupContinues(s, aliases) ==
    LET now == [s EXCEPT !.aliases = aliases]
    IN  \/ KnownOn(now) /\ KnownOn(s)
        \/ AllOff(now) /\ AllOff(s) /\ s.status \in {"clearing", "clear"}
        \/ aliases = s.aliases /\ s.status \in {"baseline", "unavailable"}

StartupBaseline(s) ==
    [CadenceReset(s) EXCEPT
        !.status = IF AllOff(s) THEN "baseline" ELSE "unavailable",
        !.clearStartedAt = NoTime, !.clearDeadline = NoTime, !.clearEmitted = FALSE,
        !.traversalUntil = NoTime, !.degradedAt = NoTime, !.degradationReason = "none"]

StartupRead(n, s, aliases, at) ==
    [Advanced(n, s, at) EXCEPT
        !.aliases = aliases, !.lastEventAt = IF aliases # s.aliases THEN at ELSE @]

Reconciled(n, s, aliases, at) ==
    LET read == StartupRead(n, s, aliases, at)
    IN  IF StartupContinues(Advanced(n, s, at), aliases) THEN read
        ELSE IF KnownOn(read) THEN StartEpisode(n, read, at, FALSE)
        ELSE StartupBaseline(read)

ReconciledFacts(n, s, aliases, at) ==
    LET read == StartupRead(n, s, aliases, at)
    IN  AdvanceFacts(n, s, at)
        \cup (IF ~StartupContinues(Advanced(n, s, at), aliases) /\ KnownOn(read)
              THEN StartFacts(n, read, at, FALSE) ELSE {})

StartupLevels(n) == [Aliases[n] -> IF n \in InteractionNodes THEN Neutral ELSE Levels]

ReconcileStartup(at, levels) ==
    /\ \A n \in Nodes : ~IsStale(ep[n], at)
    /\ ep' = [n \in Nodes |-> Reconciled(n, ep[n], levels[n], at)]
    /\ effects' = [n \in Nodes |-> ReconciledFacts(n, ep[n], levels[n], at)]

(***************************************************************************)
(* Legacy count conflict: applied after a dwell, so after the start        *)
(***************************************************************************)
ApplyCountConflict(n, at) ==
    /\ CountPressure /\ Profile[n].stay
    /\ ep[n].status = "asserted" /\ ~HealthWarning(ep[n]) /\ KnownOn(ep[n])
    /\ ep[n].generation > 0
    /\ ~IsStale(ep[n], at) /\ at > ep[n].startedAt
    /\ Update(n, [ep[n] EXCEPT !.status = "degraded", !.advancedAt = at,
                               !.traversalUntil = NoTime, !.degradedAt = at,
                               !.degradationReason = "count_conflict"],
              {Fact(ep[n], "health_degraded", at, "count_conflict")})

RecoverCountConflict(n, at) ==
    /\ CountPressure /\ Profile[n].stay
    /\ ep[n].status = "degraded" /\ KnownOn(ep[n])
    /\ ep[n].degradationReason = "count_conflict" /\ ~IsStale(ep[n], at)
    /\ Update(n, [ep[n] EXCEPT !.status = "asserted", !.advancedAt = at,
                               !.degradedAt = NoTime, !.degradationReason = "none"],
              {Fact(ep[n], "health_recovered", at, "count_conflict")})

WithinBound == \A n \in Nodes : ep'[n].generation <= MaxGeneration

AliasCall(n, at) ==
    \E a \in Aliases[n] :
        \/ \E level \in Neutral : ObserveUnavailable(n, a, level, at)
        \/ \E level \in {"on", "off"} : AliasEdge(n, a, level, at)
        \/ FlapOn(n, a, at)
        \/ StartOn(n, a, at)
        \/ ClearEdge(n, a, at)
        \/ BaselineOff(n, a, at)

NodeCall(n, at) ==
    \/ Press(n, at)
    \/ AliasCall(n, at)
    \/ ApplyCountConflict(n, at)
    \/ RecoverCountConflict(n, at)

Startup(at) ==
    \E levels \in [Nodes -> UNION {StartupLevels(n) : n \in Nodes}] :
        /\ \A n \in Nodes : levels[n] \in StartupLevels(n)
        /\ ReconcileStartup(at, levels)
        /\ WithinBound

Next ==
    \E at \in Times :
        \/ Advance(at)
        \/ CountZero(at)
        \/ Startup(at)
        \/ \E n \in Nodes : NodeCall(n, at) /\ WithinBound

Spec == Init /\ [][Next]_vars

(***************************************************************************)
(* Properties                                                              *)
(***************************************************************************)
OptTime == Nat \cup {NoTime}

EpisodeType(n) ==
    [aliases : [Aliases[n] -> Levels], generation : Nat, status : Statuses,
     startedAt : OptTime, lastEventAt : OptTime, advancedAt : OptTime,
     clearStartedAt : OptTime, clearDeadline : OptTime, clearEmitted : BOOLEAN,
     holdUntil : OptTime, trustUntil : OptTime, traversalUntil : OptTime,
     degradedAt : OptTime, degradationReason : HealthReasons,
     cadenceRunAt : OptTime, cadenceLastAt : OptTime, cadenceCycles : 0 .. CycleLimit,
     cadenceCorrelated : BOOLEAN, cadenceReason : CadenceReasons]

FactType ==
    [kind : EffectKinds, at : OptTime, generation : Nat, reason : HealthReasons \cup CadenceReasons]

\* The type invariant: every record has the fields and ranges of EpisodeState.
TypeOK ==
    /\ DOMAIN ep = Nodes
    /\ \A n \in Nodes : ep[n] \in EpisodeType(n)
    /\ effects \in [Nodes -> SUBSET FactType]

\* _validate_state, one named part per group of its tests.
FrontiersOK(s) ==
    /\ s.lastEventAt <= s.advancedAt
    /\ s.startedAt <= s.advancedAt

IdentityOK(n, s) ==
    IF s.generation = 0 THEN s.startedAt = NoTime
    ELSE /\ s.startedAt # NoTime
         /\ s.holdUntil = s.startedAt + Profile[n].hold
         /\ s.trustUntil = s.startedAt + Profile[n].trust

HealthOK(s) ==
    /\ HealthWarning(s) <=> s.degradedAt # NoTime
    /\ s.degradationReason = "assertion_timeout" => s.degradedAt = s.trustUntil
    /\ s.degradationReason = "count_conflict" =>
          s.startedAt < s.degradedAt /\ s.degradedAt <= s.advancedAt

TraversalOK(n, s) ==
    /\ s.traversalUntil # NoTime =>
          s.generation > 0 /\ s.traversalUntil = TraversalFrontier(n, s.startedAt)
    /\ s.status \in {"degraded", "clear", "unavailable"} => s.traversalUntil = NoTime

StatusOK(n, s) ==
    /\ s.clearEmitted <=> s.status = "clear"
    /\ s.status \in {"asserted", "degraded"} => s.generation > 0
    /\ s.status = "asserted" => ~HealthWarning(s)
    /\ s.status = "degraded" => HealthWarning(s)
    /\ s.status = "clearing" =>
          s.clearStartedAt # NoTime /\ s.clearDeadline = s.clearStartedAt + Profile[n].clear
    /\ s.status = "clear" => s.clearStartedAt = NoTime /\ s.clearDeadline = NoTime

LevelOK(s) == s.status \in {"asserted", "degraded"} <=> KnownOn(s)

CadenceOK(n, s) ==
    /\ s.cadenceRunAt = NoTime <=> s.cadenceLastAt = NoTime
    /\ s.cadenceRunAt <= s.cadenceLastAt /\ s.cadenceLastAt <= s.advancedAt
    /\ s.cadenceRunAt = NoTime => s.cadenceCycles = 0
    /\ s.cadenceCorrelated => s.generation > 0
    /\ ~Profile[n].presence => s.cadenceRunAt = NoTime /\ ~s.cadenceCorrelated
    /\ s.cadenceReason = "sustained_flapping" => s.cadenceCycles > 0

InteractionOK(n, s) ==
    n \in InteractionNodes =>
        s.status \in {"baseline", "clear", "clearing", "unavailable"} /\ AllNeutral(s)

\* Whatever calls were made, the state a save takes is one that restore_snapshot
\* accepts after a restart: _validate_state, EpisodeState.__post_init__ and the
\* interaction test of restore_snapshot raise on none of its episodes, whose
\* fields have their ranges.
Restorable ==
    /\ TypeOK
    /\ \A n \in Nodes :
        /\ FrontiersOK(ep[n])
        /\ IdentityOK(n, ep[n])
        /\ HealthOK(ep[n])
        /\ TraversalOK(n, ep[n])
        /\ StatusOK(n, ep[n]) /\ LevelOK(ep[n])
        /\ CadenceOK(n, ep[n])
        /\ InteractionOK(n, ep[n])

\* No call leaves a deadline behind that was due at its own time: a clearing
\* node is still inside its stable-clear window and an open cadence run inside
\* its quiet window, whatever call moved the frontier past the others.
NoOverdueDeadline ==
    \A n \in Nodes :
        /\ ep[n].status = "clearing" => ep[n].advancedAt < ep[n].clearDeadline
        /\ ep[n].cadenceLastAt # NoTime => ep[n].advancedAt < QuietAt(n, ep[n])

\* Traversal authority that an episode lost (an impossible re-arm, an outage, a
\* count conflict, its stable clear) is never given back within that episode.
AuthorityNotRevived ==
    [][\A n \in Nodes :
        /\ ep[n].generation > 0 /\ ep'[n].generation = ep[n].generation
        /\ ep[n].traversalUntil = NoTime
        => ep'[n].traversalUntil = NoTime]_vars

\* A pending stable clear is resolved: the clear is reported, the node is
\* asserted again, it becomes unavailable, or a newer pulse takes over.
ClearsEventually ==
    \A n \in Nodes : \A g \in 1 .. MaxGeneration :
        (ep[n].status = "clearing" /\ ep[n].generation = g /\ ep[n].clearDeadline <= MaxTime)
            ~> (ep[n].status # "clearing" \/ ep[n].generation # g)
=============================================================================
