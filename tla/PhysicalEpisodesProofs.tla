----------------------- MODULE PhysicalEpisodesProofs -----------------------
(***************************************************************************)
(* In the mode the engine uses (no diagnostic warnings) every reachable    *)
(* state of PhysicalEpisodes is typed and restorable, for any nodes,       *)
(* aliases, profiles and times.  Core collects what an episode record      *)
(* keeps between the moment an alias level is replaced and the moment the  *)
(* status follows it; Sound adds the agreement of the two.                 *)
(***************************************************************************)
EXTENDS PhysicalEpisodes, TLAPS

Core(n, s) ==
    /\ s \in EpisodeType(n)
    /\ FrontiersOK(s) /\ IdentityOK(n, s) /\ HealthOK(s) /\ TraversalOK(n, s)
    /\ StatusOK(n, s) /\ CadenceOK(n, s)
    /\ s.degradationReason # "assertion_timeout"

Sound(n, s) == Core(n, s) /\ LevelOK(s) /\ InteractionOK(n, s)

-----------------------------------------------------------------------------
(* Facts about the constants and the ranges. *)

LEMMA TypeFacts ==
    /\ NoTime \in OptTime /\ Nat \subseteq OptTime /\ Times \subseteq Nat
    /\ \A x \in OptTime : x \in Int /\ x >= -1 /\ (x # NoTime => x \in Nat)
    /\ 0 \in 0 .. CycleLimit
    /\ "none" \in CadenceReasons /\ "none" \in HealthReasons
    /\ {"baseline", "asserted", "degraded", "clearing", "clear", "unavailable"} = Statuses
    /\ "unknown" \in Levels /\ "on" \notin Neutral
BY BoundsAssumption DEF OptTime, NoTime, Times, CadenceReasons, HealthReasons, Statuses, Levels

LEMMA ProfileFacts ==
    ASSUME NEW n \in Nodes
    PROVE  /\ Profile[n].burst \in Nat /\ Profile[n].clear \in Nat /\ Profile[n].hold \in Nat
           /\ Profile[n].trust \in Nat /\ Profile[n].traversal \in Nat
           /\ Profile[n].cycle \in Nat /\ Profile[n].sustained \in Nat
           /\ Profile[n].clear > 0 /\ Profile[n].burst < Profile[n].clear
           /\ Profile[n].cycle > 0 <=> Profile[n].presence
BY ProfileAssumption DEF ProfileOK

LEMMA FrontierType ==
    ASSUME NEW n \in Nodes, NEW at \in Nat PROVE TraversalFrontier(n, at) \in Nat
BY ProfileFacts DEF TraversalFrontier

LEMMA FreshSound == ASSUME NEW n \in Nodes PROVE Sound(n, FreshEpisode(n))
BY NodesAssumption, ProfileAssumption, BoundsAssumption
   DEF Sound, Core, FreshEpisode, EpisodeType, FrontiersOK, IdentityOK, HealthOK, TraversalOK,
       StatusOK, LevelOK, CadenceOK, InteractionOK, OptTime, NoTime, Levels, Statuses,
       HealthReasons, CadenceReasons, HealthWarning, KnownOn, AllNeutral, ProfileOK

-----------------------------------------------------------------------------
(* Deadlines. *)

LEMMA AdvanceCadenceCore ==
    ASSUME ~DiagnosticWarnings, NEW n \in Nodes, NEW s, Core(n, s), NEW t \in Nat
    PROVE  LET r == AdvanceCadence(n, s, t)
           IN  /\ Core(n, r)
               /\ r.aliases = s.aliases /\ r.status = s.status
               /\ r.advancedAt = s.advancedAt /\ r.lastEventAt = s.lastEventAt
<1> DEFINE r == [s EXCEPT !.cadenceRunAt = NoTime, !.cadenceLastAt = NoTime,
                          !.cadenceCycles = 0, !.cadenceReason = "none"]
<1>1. AdvanceCadence(n, s, t) \in {s, r}
  BY DEF AdvanceCadence, SustainedWarned, SustainedDue
<1>2. r \in EpisodeType(n)
  BY TypeFacts DEF Core, EpisodeType
<1>3. /\ r.aliases = s.aliases /\ r.status = s.status
      /\ r.advancedAt = s.advancedAt /\ r.lastEventAt = s.lastEventAt
      /\ r.degradationReason = s.degradationReason
  BY DEF Core, EpisodeType
<1>4. FrontiersOK(r) /\ IdentityOK(n, r) /\ HealthOK(r) /\ TraversalOK(n, r) /\ StatusOK(n, r)
  BY DEF Core, EpisodeType, FrontiersOK, IdentityOK, HealthOK, TraversalOK, StatusOK, HealthWarning
<1>5. CadenceOK(n, r)
  BY DEF Core, EpisodeType, CadenceOK, OptTime, NoTime
<1> QED BY <1>1, <1>2, <1>3, <1>4, <1>5 DEF Core

LEMMA AdvanceStatusCore ==
    ASSUME ~DiagnosticWarnings, NEW n \in Nodes, NEW s, Core(n, s), NEW t \in Nat
    PROVE  LET r == AdvanceStatus(n, s, t)
           IN  /\ Core(n, r)
               /\ r.aliases = s.aliases
               /\ r.status = s.status \/ (s.status = "clearing" /\ r.status = "clear")
               /\ r.advancedAt = s.advancedAt /\ r.lastEventAt = s.lastEventAt
<1> DEFINE reason == IF Profile[n].cycle > 0 THEN s.cadenceReason ELSE "none"
           r == [s EXCEPT !.status = "clear", !.clearEmitted = TRUE,
                          !.clearStartedAt = NoTime, !.clearDeadline = NoTime,
                          !.traversalUntil = NoTime,
                          !.degradedAt = NoTime, !.degradationReason = "none",
                          !.cadenceReason = reason]
<1>1. CASE ~ClearDue(n, s, t)
  BY <1>1 DEF AdvanceStatus, TimeoutDue
<1>2. CASE ClearDue(n, s, t)
  <2>1. AdvanceStatus(n, s, t) = r
    BY <1>2 DEF AdvanceStatus
  <2>2. reason \in CadenceReasons
    BY TypeFacts DEF Core, EpisodeType
  <2>3. r \in EpisodeType(n)
    BY <2>2, TypeFacts DEF Core, EpisodeType
  <2>4. /\ r.aliases = s.aliases /\ r.status = "clear" /\ s.status = "clearing"
        /\ r.advancedAt = s.advancedAt /\ r.lastEventAt = s.lastEventAt
    BY <1>2 DEF Core, EpisodeType, ClearDue
  <2>5. FrontiersOK(r) /\ IdentityOK(n, r) /\ HealthOK(r) /\ TraversalOK(n, r) /\ StatusOK(n, r)
    BY DEF Core, EpisodeType, FrontiersOK, IdentityOK, HealthOK, TraversalOK, StatusOK, HealthWarning
  <2>6. CadenceOK(n, r)
    BY DEF Core, EpisodeType, CadenceOK
  <2> QED BY <2>1, <2>3, <2>4, <2>5, <2>6 DEF Core
<1> QED BY <1>1, <1>2

\* The frontier of a node that is not stale moves to the time of the call.
LEMMA AdvancedSound ==
    ASSUME ~DiagnosticWarnings, NEW n \in Nodes, NEW s, Core(n, s), NEW t \in Nat, ~IsStale(s, t)
    PROVE  LET r == Advanced(n, s, t)
           IN  /\ Core(n, r)
               /\ r.aliases = s.aliases
               /\ r.status = s.status \/ (s.status = "clearing" /\ r.status = "clear")
               /\ r.advancedAt = t /\ r.lastEventAt = s.lastEventAt
<1> DEFINE q == AdvanceStatus(n, AdvanceCadence(n, s, t), t)
           r == [q EXCEPT !.advancedAt = t]
<1>1. /\ Core(n, q) /\ q.aliases = s.aliases
      /\ q.status = s.status \/ (s.status = "clearing" /\ q.status = "clear")
      /\ q.advancedAt = s.advancedAt /\ q.lastEventAt = s.lastEventAt
  BY AdvanceCadenceCore, AdvanceStatusCore
<1>2. s.advancedAt <= t /\ s.lastEventAt <= t
  BY TypeFacts DEF IsStale, Core, EpisodeType
<1>3. r \in EpisodeType(n)
  BY <1>1, TypeFacts DEF Core, EpisodeType
<1>4. /\ r.aliases = s.aliases /\ r.lastEventAt = s.lastEventAt /\ r.advancedAt = t
      /\ r.status = q.status
  BY <1>1 DEF Core, EpisodeType
<1>5. FrontiersOK(r) /\ CadenceOK(n, r) /\ HealthOK(r)
  BY <1>1, <1>2, TypeFacts DEF Core, EpisodeType, FrontiersOK, CadenceOK, HealthOK, HealthWarning
<1>6. IdentityOK(n, r) /\ TraversalOK(n, r) /\ StatusOK(n, r)
  BY <1>1 DEF Core, EpisodeType, IdentityOK, TraversalOK, StatusOK, HealthWarning
<1> QED BY <1>1, <1>3, <1>4, <1>5, <1>6 DEF Core, Advanced

-----------------------------------------------------------------------------
(* The record operators. *)

ReadLevels(s, al, le) == [s EXCEPT !.aliases = al, !.lastEventAt = le]

\* Replacing alias levels disturbs nothing but the agreement with the status.
LEMMA ReadCore ==
    ASSUME NEW n \in Nodes, NEW s, Core(n, s),
           NEW al \in [Aliases[n] -> Levels], NEW le \in OptTime, le <= s.advancedAt
    PROVE  LET q == ReadLevels(s, al, le)
           IN  /\ Core(n, q)
               /\ q.aliases = al /\ q.status = s.status /\ q.advancedAt = s.advancedAt
<1> DEFINE q == [s EXCEPT !.aliases = al, !.lastEventAt = le]
<1>1. q \in EpisodeType(n)
  BY DEF Core, EpisodeType
<1>2. q.aliases = al /\ q.status = s.status /\ q.advancedAt = s.advancedAt
  BY DEF Core, EpisodeType
<1>3. /\ FrontiersOK(q) /\ IdentityOK(n, q) /\ HealthOK(q) /\ TraversalOK(n, q)
      /\ StatusOK(n, q) /\ CadenceOK(n, q)
  BY DEF Core, EpisodeType, FrontiersOK, IdentityOK, HealthOK, TraversalOK, StatusOK, CadenceOK,
         HealthWarning
<1> QED BY <1>1, <1>2, <1>3 DEF Core, ReadLevels

LEMMA CadenceResetCore ==
    ASSUME NEW n \in Nodes, NEW s, Core(n, s)
    PROVE  LET r == CadenceReset(s)
           IN  /\ Core(n, r)
               /\ r.aliases = s.aliases /\ r.status = s.status /\ r.generation = s.generation
               /\ r.clearStartedAt = s.clearStartedAt /\ r.clearDeadline = s.clearDeadline
               /\ r.clearEmitted = s.clearEmitted /\ r.advancedAt = s.advancedAt
               /\ r.traversalUntil = s.traversalUntil /\ r.cadenceLastAt = NoTime
<1> DEFINE r == [s EXCEPT !.cadenceRunAt = NoTime, !.cadenceLastAt = NoTime,
                          !.cadenceCycles = 0, !.cadenceCorrelated = FALSE,
                          !.cadenceReason = "none"]
<1>1. r \in EpisodeType(n)
  BY TypeFacts DEF Core, EpisodeType
<1>2. /\ FrontiersOK(r) /\ IdentityOK(n, r) /\ HealthOK(r) /\ TraversalOK(n, r)
      /\ StatusOK(n, r)
  BY DEF Core, EpisodeType, FrontiersOK, IdentityOK, HealthOK, TraversalOK, StatusOK, HealthWarning
<1>3. CadenceOK(n, r)
  BY TypeFacts DEF Core, EpisodeType, CadenceOK, FrontiersOK, NoTime
<1>4. /\ r.aliases = s.aliases /\ r.status = s.status /\ r.generation = s.generation
      /\ r.clearStartedAt = s.clearStartedAt /\ r.clearDeadline = s.clearDeadline
      /\ r.clearEmitted = s.clearEmitted /\ r.advancedAt = s.advancedAt
      /\ r.traversalUntil = s.traversalUntil /\ r.cadenceLastAt = NoTime
      /\ r.degradationReason = s.degradationReason
  BY DEF Core, EpisodeType
<1> QED BY <1>1, <1>2, <1>3, <1>4 DEF Core, CadenceReset

LEMMA CadenceTouchedCore ==
    ASSUME NEW n \in Nodes, NEW s, Core(n, s), NEW at \in Nat, s.advancedAt = at
    PROVE  LET r == CadenceTouched(s, at)
           IN  /\ Core(n, r)
               /\ r.aliases = s.aliases /\ r.status = s.status /\ r.generation = s.generation
               /\ r.degradationReason = s.degradationReason
               /\ r.advancedAt = s.advancedAt
<1> DEFINE last == IF s.cadenceRunAt # NoTime THEN at ELSE NoTime
           r == [s EXCEPT !.cadenceLastAt = last]
<1>1. last \in OptTime
  BY TypeFacts
<1>2. r \in EpisodeType(n)
  BY <1>1 DEF Core, EpisodeType
<1>3. /\ FrontiersOK(r) /\ IdentityOK(n, r) /\ HealthOK(r) /\ TraversalOK(n, r)
      /\ StatusOK(n, r)
      /\ r.aliases = s.aliases /\ r.status = s.status /\ r.generation = s.generation
      /\ r.degradationReason = s.degradationReason /\ r.advancedAt = s.advancedAt
  BY DEF Core, EpisodeType, FrontiersOK, IdentityOK, HealthOK, TraversalOK, StatusOK, HealthWarning
<1>4. CadenceOK(n, r)
  BY TypeFacts DEF Core, EpisodeType, CadenceOK, FrontiersOK, NoTime
<1> QED BY <1>2, <1>3, <1>4 DEF Core, CadenceTouched

\* What every new generation gets.
LEMMA NewGenerationFields ==
    ASSUME NEW n \in Nodes, NEW s, Core(n, s), NEW at \in Nat, s.advancedAt = at
    PROVE  LET g == NewGeneration(n, s, at)
           IN  /\ g \in EpisodeType(n)
               /\ FrontiersOK(g) /\ IdentityOK(n, g) /\ HealthOK(g) /\ CadenceOK(n, g)
               /\ ~HealthWarning(g) /\ ~g.clearEmitted
               /\ g.generation = s.generation + 1 /\ g.startedAt = at
               /\ g.traversalUntil = TraversalFrontier(n, at)
               /\ g.aliases = s.aliases /\ g.status = s.status /\ g.advancedAt = at
               /\ g.cadenceRunAt = s.cadenceRunAt /\ g.cadenceCycles = s.cadenceCycles
               /\ g.cadenceReason = s.cadenceReason
<1> DEFINE hold == at + Profile[n].hold
           trust == at + Profile[n].trust
           frontier == TraversalFrontier(n, at)
           next == s.generation + 1
           g == [s EXCEPT !.generation = next, !.startedAt = at,
                          !.holdUntil = hold, !.trustUntil = trust,
                          !.traversalUntil = frontier, !.clearEmitted = FALSE,
                          !.degradedAt = NoTime, !.degradationReason = "none"]
<1>1. NewGeneration(n, s, at) = g
  BY DEF NewGeneration, Core, EpisodeType
<1>2. /\ hold \in OptTime /\ trust \in OptTime /\ frontier \in OptTime /\ at \in OptTime
      /\ next \in Nat
  BY ProfileFacts, FrontierType, TypeFacts DEF Core, EpisodeType
<1>3. g \in EpisodeType(n)
  <2> HIDE DEF hold, trust, frontier, next
  <2> QED BY <1>2, TypeFacts DEF Core, EpisodeType
<1>4. /\ g.generation = next /\ g.startedAt = at /\ g.traversalUntil = frontier
      /\ g.degradedAt = NoTime /\ g.degradationReason = "none" /\ ~g.clearEmitted
      /\ g.holdUntil = hold /\ g.trustUntil = trust
  <2> HIDE DEF hold, trust, frontier, next
  <2> QED BY DEF Core, EpisodeType
<1>5. /\ g.aliases = s.aliases /\ g.status = s.status /\ g.advancedAt = at
      /\ g.lastEventAt = s.lastEventAt
      /\ g.cadenceRunAt = s.cadenceRunAt /\ g.cadenceLastAt = s.cadenceLastAt
      /\ g.cadenceCycles = s.cadenceCycles /\ g.cadenceReason = s.cadenceReason
      /\ g.cadenceCorrelated = s.cadenceCorrelated
  <2> HIDE DEF hold, trust, frontier, next
  <2> QED BY DEF Core, EpisodeType
<1> HIDE DEF g
<1>6. FrontiersOK(g) /\ IdentityOK(n, g) /\ HealthOK(g) /\ ~HealthWarning(g)
  BY <1>4, <1>5, TypeFacts DEF Core, EpisodeType, FrontiersOK, IdentityOK, HealthOK, HealthWarning, NoTime
<1>7. CadenceOK(n, g)
  BY <1>4, <1>5 DEF Core, EpisodeType, CadenceOK
<1> QED BY <1>1, <1>3, <1>4, <1>5, <1>6, <1>7

LEMMA StartEpisodeCore ==
    ASSUME NEW n \in Nodes, NEW s, Core(n, s), NEW at \in Nat, s.advancedAt = at,
           NEW correlated \in BOOLEAN, correlated => LinksCycle(n, s, at)
    PROVE  LET r == StartEpisode(n, s, at, correlated)
           IN  /\ Core(n, r)
               /\ r.aliases = s.aliases /\ r.status = "asserted"
               /\ r.generation = s.generation + 1
<1> DEFINE linked == Profile[n].cycle > 0
           g == NewGeneration(n, s, at)
           run == IF linked /\ s.cadenceRunAt = NoTime THEN at ELSE s.cadenceRunAt
           last == IF linked THEN at ELSE NoTime
           cycles == NextCycles(n, s, correlated)
           reason == IF linked THEN s.cadenceReason ELSE "none"
           r == [g EXCEPT !.status = "asserted", !.clearStartedAt = NoTime,
                          !.clearDeadline = NoTime,
                          !.cadenceRunAt = run, !.cadenceLastAt = last,
                          !.cadenceCycles = cycles,
                          !.cadenceCorrelated = correlated, !.cadenceReason = reason]
<1>1. /\ g \in EpisodeType(n)
      /\ FrontiersOK(g) /\ IdentityOK(n, g) /\ HealthOK(g) /\ CadenceOK(n, g)
      /\ ~HealthWarning(g) /\ ~g.clearEmitted
      /\ g.generation = s.generation + 1 /\ g.startedAt = at
      /\ g.traversalUntil = TraversalFrontier(n, at)
      /\ g.aliases = s.aliases /\ g.advancedAt = at
      /\ g.cadenceRunAt = s.cadenceRunAt /\ g.cadenceCycles = s.cadenceCycles
      /\ g.cadenceReason = s.cadenceReason
  BY NewGenerationFields
<1> HIDE DEF g
<1>2. StartEpisode(n, s, at, correlated) = r
  BY <1>1 DEF StartEpisode, g, EpisodeType
<1>3. cycles \in 0 .. CycleLimit /\ s.generation + 1 \in Nat \ {0}
  BY BoundsAssumption DEF NextCycles, Core, EpisodeType
<1>4. run \in OptTime /\ last \in OptTime /\ reason \in CadenceReasons
  BY TypeFacts DEF Core, EpisodeType
<1>5. /\ linked => run # NoTime /\ last = at /\ run <= last /\ reason = s.cadenceReason
      /\ ~linked => run = s.cadenceRunAt /\ last = NoTime /\ reason = "none"
  BY TypeFacts DEF Core, EpisodeType, CadenceOK, FrontiersOK, NoTime
<1>6. /\ ~linked => cycles = 0 /\ run = NoTime /\ ~correlated
      /\ reason = "sustained_flapping" => cycles > 0
  BY BoundsAssumption, ProfileFacts DEF NextCycles, Core, EpisodeType, CadenceOK, LinksCycle
<1>7. r \in EpisodeType(n)
  <2> HIDE DEF run, last, cycles, reason
  <2> QED BY <1>1, <1>3, <1>4, TypeFacts DEF EpisodeType
<1>8. /\ r.aliases = g.aliases /\ r.status = "asserted" /\ r.generation = g.generation
      /\ r.startedAt = g.startedAt /\ r.lastEventAt = g.lastEventAt
      /\ r.advancedAt = g.advancedAt /\ r.holdUntil = g.holdUntil /\ r.trustUntil = g.trustUntil
      /\ r.traversalUntil = g.traversalUntil /\ r.degradedAt = g.degradedAt
      /\ r.degradationReason = g.degradationReason /\ r.clearEmitted = g.clearEmitted
      /\ r.cadenceRunAt = run /\ r.cadenceLastAt = last /\ r.cadenceCycles = cycles
      /\ r.cadenceCorrelated = correlated /\ r.cadenceReason = reason
  <2> HIDE DEF run, last, cycles, reason
  <2> QED BY <1>1 DEF EpisodeType
<1> HIDE DEF r
<1>9. FrontiersOK(r) /\ IdentityOK(n, r) /\ HealthOK(r)
  BY <1>1, <1>8 DEF FrontiersOK, IdentityOK, HealthOK, HealthWarning
<1>10. TraversalOK(n, r) /\ StatusOK(n, r)
  BY <1>1, <1>3, <1>8 DEF TraversalOK, StatusOK, HealthWarning
<1>11. CadenceOK(n, r)
  <2> HIDE DEF run, last, cycles, reason
  <2>1. CASE linked
    <3>1. last = at /\ last # NoTime /\ run # NoTime /\ run <= last /\ g.advancedAt = at
      BY <2>1, <1>1, <1>5 DEF NoTime
    <3>2. Profile[n].presence /\ g.generation > 0
      BY <2>1, <1>1, <1>3, ProfileFacts
    <3> QED BY <3>1, <3>2, <1>6, <1>8 DEF CadenceOK
  <2>2. CASE ~linked
    BY <2>2, <1>1, <1>3, <1>4, <1>5, <1>6, <1>8, TypeFacts DEF CadenceOK, EpisodeType, NoTime
  <2> QED BY <2>1, <2>2
<1> QED BY <1>1, <1>2, <1>7, <1>8, <1>9, <1>10, <1>11 DEF Core, HealthWarning

LEMMA PulseCore ==
    ASSUME NEW n \in Nodes, NEW s, Core(n, s), NEW at \in Nat, s.advancedAt = at
    PROVE  LET r == Pulse(n, s, at)
           IN  /\ Core(n, r)
               /\ r.aliases = s.aliases /\ r.status = "clearing" /\ r.advancedAt = at
<1> DEFINE g == NewGeneration(n, s, at)
           clear == at + Profile[n].clear
           r == [g EXCEPT !.cadenceRunAt = NoTime, !.cadenceLastAt = NoTime,
                          !.cadenceCycles = 0, !.cadenceCorrelated = FALSE,
                          !.cadenceReason = "none",
                          !.status = "clearing", !.clearStartedAt = at, !.clearDeadline = clear]
<1>1. /\ g \in EpisodeType(n)
      /\ FrontiersOK(g) /\ IdentityOK(n, g) /\ HealthOK(g) /\ CadenceOK(n, g)
      /\ ~HealthWarning(g) /\ ~g.clearEmitted
      /\ g.generation = s.generation + 1 /\ g.startedAt = at
      /\ g.traversalUntil = TraversalFrontier(n, at)
      /\ g.aliases = s.aliases /\ g.advancedAt = at
  BY NewGenerationFields
<1> HIDE DEF g
<1>2. Pulse(n, s, at) = r
  BY <1>1 DEF Pulse, g, EpisodeType, CadenceReset
<1>3. clear \in OptTime /\ at \in OptTime /\ s.generation + 1 \in Nat \ {0}
  BY ProfileFacts, TypeFacts DEF Core, EpisodeType
<1>4. r \in EpisodeType(n)
  <2> HIDE DEF clear
  <2> QED BY <1>1, <1>3, TypeFacts DEF EpisodeType
<1>5. /\ r.aliases = g.aliases /\ r.status = "clearing" /\ r.generation = g.generation
      /\ r.startedAt = g.startedAt /\ r.lastEventAt = g.lastEventAt
      /\ r.advancedAt = g.advancedAt /\ r.holdUntil = g.holdUntil /\ r.trustUntil = g.trustUntil
      /\ r.traversalUntil = g.traversalUntil /\ r.degradedAt = g.degradedAt
      /\ r.degradationReason = g.degradationReason /\ r.clearEmitted = g.clearEmitted
      /\ r.clearStartedAt = at /\ r.clearDeadline = clear
      /\ r.cadenceRunAt = NoTime /\ r.cadenceLastAt = NoTime /\ r.cadenceCycles = 0
      /\ ~r.cadenceCorrelated /\ r.cadenceReason = "none"
  <2> HIDE DEF clear
  <2> QED BY <1>1 DEF EpisodeType
<1> HIDE DEF r
<1>6. FrontiersOK(r) /\ IdentityOK(n, r) /\ HealthOK(r)
  BY <1>1, <1>5 DEF FrontiersOK, IdentityOK, HealthOK, HealthWarning
<1>7. TraversalOK(n, r) /\ StatusOK(n, r)
  BY <1>1, <1>3, <1>5 DEF TraversalOK, StatusOK, HealthWarning, NoTime
<1>8. CadenceOK(n, r)
  BY <1>1, <1>5 DEF CadenceOK, NoTime
<1> QED BY <1>1, <1>2, <1>4, <1>5, <1>6, <1>7, <1>8 DEF Core, HealthWarning

LEMMA ReassertCore ==
    ASSUME ~DiagnosticWarnings, NEW n \in Nodes, NEW s, Core(n, s), NEW at \in Nat,
           s.advancedAt = at, s.generation > 0
    PROVE  LET r == Reassert(n, s, at)
           IN  /\ Core(n, r) /\ r.aliases = s.aliases
               /\ r.status \in {"asserted", "degraded"}
<1> DEFINE q == CadenceTouched(s, at)
           status == IF CountDegraded(s) THEN "degraded" ELSE "asserted"
           frontier == AuthorityAfterFlap(n, s, at)
           r == [q EXCEPT !.status = status, !.clearStartedAt = NoTime,
                          !.clearDeadline = NoTime, !.clearEmitted = FALSE,
                          !.traversalUntil = frontier]
<1>1. /\ Core(n, q)
      /\ q.aliases = s.aliases /\ q.status = s.status /\ q.generation = s.generation
      /\ q.degradationReason = s.degradationReason /\ q.startedAt = s.startedAt
      /\ q.traversalUntil = s.traversalUntil
  BY CadenceTouchedCore DEF CadenceTouched, Core, EpisodeType
<1> HIDE DEF q
<1>2. Reassert(n, s, at) = r
  BY <1>1 DEF Reassert, q, Core, EpisodeType
<1>3. /\ status \in Statuses
      /\ frontier \in {NoTime, q.traversalUntil}
      /\ status = "degraded" => frontier = NoTime /\ HealthWarning(q)
      /\ status = "asserted" => ~HealthWarning(q)
  BY <1>1, TypeFacts
     DEF AuthorityAfterFlap, CountDegraded, HealthWarning, Core, EpisodeType, HealthReasons
<1>4. status \in {"asserted", "degraded"} /\ frontier \in OptTime
  BY <1>1, <1>3, TypeFacts DEF Core, EpisodeType
<1> HIDE DEF status, frontier
<1>5. r \in EpisodeType(n)
  BY <1>1, <1>3, <1>4, TypeFacts DEF Core, EpisodeType
<1>6. /\ r.aliases = q.aliases /\ r.status = status /\ r.generation = q.generation
      /\ r.degradationReason = q.degradationReason
  BY <1>1 DEF Core, EpisodeType
<1>7. /\ FrontiersOK(r) /\ IdentityOK(n, r) /\ HealthOK(r) /\ CadenceOK(n, r)
  BY <1>1 DEF Core, EpisodeType, FrontiersOK, IdentityOK, HealthOK, CadenceOK, HealthWarning
<1>8. TraversalOK(n, r)
  BY <1>1, <1>3, <1>4 DEF Core, EpisodeType, TraversalOK
<1>9. StatusOK(n, r)
  BY <1>1, <1>3, <1>4 DEF Core, EpisodeType, StatusOK, HealthWarning
<1> QED BY <1>1, <1>2, <1>4, <1>5, <1>6, <1>7, <1>8, <1>9 DEF Core

LEMMA ReleaseCore ==
    ASSUME ~DiagnosticWarnings, NEW n \in Nodes, NEW s, Core(n, s), NEW at \in Nat,
           s.advancedAt = at, s.status \in {"asserted", "degraded"}
    PROVE  LET r == ReleaseLevel(n, s, at)
           IN  /\ Core(n, r) /\ r.aliases = s.aliases
               /\ r.status \in {"clearing", "unavailable"}
<1> DEFINE q == CadenceTouched(s, at)
           clear == at + Profile[n].clear
           r1 == [q EXCEPT !.status = "clearing", !.clearStartedAt = at, !.clearDeadline = clear]
           r2 == [q EXCEPT !.status = "unavailable", !.clearStartedAt = NoTime,
                           !.clearDeadline = NoTime, !.traversalUntil = NoTime]
<1>1. Core(n, q) /\ q.aliases = s.aliases /\ q.status = s.status
  BY CadenceTouchedCore
<1> HIDE DEF q
<1>2. ReleaseLevel(n, s, at) \in {r1, r2}
  BY DEF ReleaseLevel, q
<1>3. clear \in OptTime /\ at \in OptTime /\ ~q.clearEmitted
  BY <1>1, ProfileFacts, TypeFacts DEF Core, StatusOK
<1>4. Core(n, r1) /\ r1.aliases = s.aliases /\ r1.status = "clearing"
  <2>1. r1 \in EpisodeType(n)
    <3> HIDE DEF clear
    <3> QED BY <1>1, <1>3, TypeFacts DEF Core, EpisodeType
  <2>2. /\ r1.aliases = q.aliases /\ r1.status = "clearing"
        /\ r1.degradationReason = q.degradationReason
    BY <1>1 DEF Core, EpisodeType
  <2>3. /\ FrontiersOK(r1) /\ IdentityOK(n, r1) /\ HealthOK(r1) /\ TraversalOK(n, r1)
        /\ CadenceOK(n, r1)
    BY <1>1 DEF Core, EpisodeType, FrontiersOK, IdentityOK, HealthOK, TraversalOK, CadenceOK, HealthWarning
  <2>4. StatusOK(n, r1)
    BY <1>1, <1>3 DEF Core, EpisodeType, StatusOK, NoTime
  <2> QED BY <1>1, <2>1, <2>2, <2>3, <2>4 DEF Core
<1>5. Core(n, r2) /\ r2.aliases = s.aliases /\ r2.status = "unavailable"
  <2>1. r2 \in EpisodeType(n)
    BY <1>1, TypeFacts DEF Core, EpisodeType
  <2>2. /\ r2.aliases = q.aliases /\ r2.status = "unavailable"
        /\ r2.degradationReason = q.degradationReason
    BY <1>1 DEF Core, EpisodeType
  <2>3. /\ FrontiersOK(r2) /\ IdentityOK(n, r2) /\ HealthOK(r2) /\ TraversalOK(n, r2)
        /\ CadenceOK(n, r2)
    BY <1>1 DEF Core, EpisodeType, FrontiersOK, IdentityOK, HealthOK, TraversalOK, CadenceOK, HealthWarning
  <2>4. StatusOK(n, r2)
    BY <1>1, <1>3 DEF Core, EpisodeType, StatusOK
  <2> QED BY <1>1, <2>1, <2>2, <2>3, <2>4 DEF Core
<1> QED BY <1>2, <1>4, <1>5

LEMMA LoseLevelCore ==
    ASSUME ~DiagnosticWarnings, NEW n \in Nodes, NEW before, NEW s, Core(n, s),
           NEW lost \in BOOLEAN,
           s.status \in {"asserted", "degraded"} <=> KnownOn(before),
           KnownOn(s) => KnownOn(before), lost => ~KnownOn(s)
    PROVE  LET r == LoseLevel(n, before, s, lost)
           IN  /\ Core(n, r) /\ r.aliases = s.aliases
               /\ r.status \in {"asserted", "degraded"} <=> KnownOn(s)
               /\ r.status \in {s.status, "unavailable"} \/ KnownOn(s)
<1> DEFINE q == CadenceReset(s)
           ended == EndedByOutage(n, before, s, lost)
           status == IF ended THEN "unavailable"
                     ELSE IF HealthWarning(s) /\ KnownOn(s) THEN "asserted" ELSE s.status
           start == IF ended THEN NoTime ELSE s.clearStartedAt
           deadline == IF ended THEN NoTime ELSE s.clearDeadline
           emitted == IF ended THEN FALSE ELSE s.clearEmitted
           r == [q EXCEPT !.status = status, !.clearStartedAt = start,
                          !.clearDeadline = deadline, !.clearEmitted = emitted,
                          !.traversalUntil = NoTime, !.degradedAt = NoTime,
                          !.degradationReason = "none"]
<1>1. /\ Core(n, q)
      /\ q.aliases = s.aliases /\ q.status = s.status /\ q.generation = s.generation
      /\ q.clearStartedAt = s.clearStartedAt /\ q.clearDeadline = s.clearDeadline
      /\ q.clearEmitted = s.clearEmitted
  BY CadenceResetCore
<1> HIDE DEF q
<1>2. LoseLevel(n, before, s, lost) = r
  BY <1>1 DEF LoseLevel, q, Core, EpisodeType
<1>3. ended => ~KnownOn(s)
  BY TypeFacts DEF EndedByOutage, KnownOn, AllNeutral
<1>4. ~ended => (KnownOn(before) <=> KnownOn(s))
  BY DEF EndedByOutage
<1>5. /\ status \in Statuses /\ start \in OptTime /\ deadline \in OptTime /\ emitted \in BOOLEAN
      /\ status \in {"asserted", "degraded"} <=> KnownOn(s)
      /\ status \in {s.status, "unavailable"} \/ KnownOn(s)
      /\ status # "degraded"
      /\ status = "asserted" => s.status \in {"asserted", "degraded"}
      /\ status = s.status \/ status \in {"unavailable", "asserted"}
      /\ ended => status = "unavailable" /\ ~emitted
      /\ ~ended => start = s.clearStartedAt /\ deadline = s.clearDeadline /\ emitted = s.clearEmitted
      /\ ~ended /\ status # s.status => s.status = "degraded"
  <2> HIDE DEF ended
  <2> QED BY <1>3, <1>4, TypeFacts DEF Core, EpisodeType, StatusOK
<1> HIDE DEF status, start, deadline, emitted, ended
<1>6. r \in EpisodeType(n)
  BY <1>1, <1>5, TypeFacts DEF Core, EpisodeType
<1>7. /\ r.aliases = s.aliases /\ r.status = status /\ r.degradationReason = "none"
      /\ r.generation = s.generation /\ r.degradedAt = NoTime
      /\ r.clearStartedAt = start /\ r.clearDeadline = deadline /\ r.clearEmitted = emitted
      /\ r.traversalUntil = NoTime
  BY <1>1 DEF Core, EpisodeType
<1>8. FrontiersOK(r) /\ IdentityOK(n, r) /\ CadenceOK(n, r)
  BY <1>1 DEF Core, EpisodeType, FrontiersOK, IdentityOK, CadenceOK
<1> HIDE DEF r
<1>9. HealthOK(r) /\ TraversalOK(n, r)
  BY <1>7 DEF HealthOK, TraversalOK, HealthWarning
<1>10. StatusOK(n, r)
  BY <1>5, <1>7 DEF StatusOK, HealthWarning, Core
<1> QED BY <1>2, <1>5, <1>6, <1>7, <1>8, <1>9, <1>10 DEF Core

LEMMA StartupBaselineCore ==
    ASSUME NEW n \in Nodes, NEW s, Core(n, s)
    PROVE  LET r == StartupBaseline(s)
           IN  Core(n, r) /\ r.aliases = s.aliases /\ r.status \in {"baseline", "unavailable"}
<1> DEFINE q == CadenceReset(s)
           status == IF AllOff(s) THEN "baseline" ELSE "unavailable"
           r == [q EXCEPT !.status = status, !.clearStartedAt = NoTime,
                          !.clearDeadline = NoTime, !.clearEmitted = FALSE,
                          !.traversalUntil = NoTime, !.degradedAt = NoTime,
                          !.degradationReason = "none"]
<1>1. Core(n, q) /\ q.aliases = s.aliases
  BY CadenceResetCore
<1> HIDE DEF q
<1>2. StartupBaseline(s) = r
  BY DEF StartupBaseline, q
<1>3. status \in {"baseline", "unavailable"}
  OBVIOUS
<1> HIDE DEF status
<1>4. r \in EpisodeType(n)
  BY <1>1, <1>3, TypeFacts DEF Core, EpisodeType
<1>5. /\ r.aliases = s.aliases /\ r.status = status /\ r.degradationReason = "none"
      /\ r.degradedAt = NoTime /\ ~r.clearEmitted /\ r.traversalUntil = NoTime
  BY <1>1 DEF Core, EpisodeType
<1>6. FrontiersOK(r) /\ IdentityOK(n, r) /\ CadenceOK(n, r)
  BY <1>1 DEF Core, EpisodeType, FrontiersOK, IdentityOK, CadenceOK
<1> HIDE DEF r
<1>7. HealthOK(r) /\ TraversalOK(n, r) /\ StatusOK(n, r)
  BY <1>3, <1>5 DEF HealthOK, TraversalOK, StatusOK, HealthWarning
<1> QED BY <1>2, <1>3, <1>4, <1>5, <1>6, <1>7 DEF Core

LEMMA ApplySound ==
    ASSUME NEW n \in Nodes, NEW s, Sound(n, s), NEW at \in Nat, ~IsStale(s, at),
           at > s.startedAt, KnownOn(s), s.generation > 0
    PROVE  Sound(n, [s EXCEPT !.status = "degraded", !.advancedAt = at,
                              !.traversalUntil = NoTime, !.degradedAt = at,
                              !.degradationReason = "count_conflict"])
<1> DEFINE r == [s EXCEPT !.status = "degraded", !.advancedAt = at,
                          !.traversalUntil = NoTime, !.degradedAt = at,
                          !.degradationReason = "count_conflict"]
<1>1. s.advancedAt <= at /\ s.lastEventAt <= at
  BY TypeFacts DEF IsStale, Sound, Core, EpisodeType
<1>2. r \in EpisodeType(n)
  BY TypeFacts DEF Sound, Core, EpisodeType, HealthReasons
<1>3. r.aliases = s.aliases /\ r.status = "degraded" /\ r.degradationReason = "count_conflict"
  BY DEF Sound, Core, EpisodeType
<1>4. FrontiersOK(r) /\ CadenceOK(n, r) /\ HealthOK(r)
  BY <1>1, TypeFacts
     DEF Sound, Core, EpisodeType, FrontiersOK, CadenceOK, HealthOK, HealthWarning, NoTime
<1>5. IdentityOK(n, r) /\ TraversalOK(n, r)
  BY DEF Sound, Core, EpisodeType, IdentityOK, TraversalOK
<1>6. s.status \in {"asserted", "degraded"} /\ n \notin InteractionNodes
  BY TypeFacts DEF Sound, LevelOK, InteractionOK, AllNeutral, KnownOn
<1>7. StatusOK(n, r)
  BY <1>6 DEF Sound, Core, EpisodeType, StatusOK, HealthWarning
<1>8. LevelOK(r) /\ InteractionOK(n, r)
  BY <1>3, <1>6 DEF LevelOK, KnownOn, InteractionOK
<1> QED BY <1>2, <1>3, <1>4, <1>5, <1>7, <1>8 DEF Sound, Core

LEMMA RecoverSound ==
    ASSUME NEW n \in Nodes, NEW s, Sound(n, s), NEW at \in Nat, ~IsStale(s, at),
           s.status = "degraded"
    PROVE  Sound(n, [s EXCEPT !.status = "asserted", !.advancedAt = at,
                              !.degradedAt = NoTime, !.degradationReason = "none"])
<1> DEFINE r == [s EXCEPT !.status = "asserted", !.advancedAt = at,
                          !.degradedAt = NoTime, !.degradationReason = "none"]
<1>1. s.advancedAt <= at /\ s.lastEventAt <= at
  BY TypeFacts DEF IsStale, Sound, Core, EpisodeType
<1>2. r \in EpisodeType(n)
  BY TypeFacts DEF Sound, Core, EpisodeType
<1>3. r.aliases = s.aliases /\ r.status = "asserted" /\ r.degradationReason = "none"
  BY DEF Sound, Core, EpisodeType
<1>4. FrontiersOK(r) /\ CadenceOK(n, r) /\ HealthOK(r)
  BY <1>1, TypeFacts
     DEF Sound, Core, EpisodeType, FrontiersOK, CadenceOK, HealthOK, HealthWarning, NoTime
<1>5. IdentityOK(n, r) /\ TraversalOK(n, r) /\ StatusOK(n, r)
  BY DEF Sound, Core, EpisodeType, IdentityOK, TraversalOK, StatusOK, HealthWarning
<1>6. KnownOn(s) /\ n \notin InteractionNodes
  BY DEF Sound, LevelOK, InteractionOK
<1>7. LevelOK(r) /\ InteractionOK(n, r)
  BY <1>3, <1>6 DEF LevelOK, KnownOn, InteractionOK
<1> QED BY <1>2, <1>3, <1>4, <1>5, <1>7 DEF Sound, Core

-----------------------------------------------------------------------------
(* The facts a call returns are typed. *)

LEMMA FactTyped ==
    ASSUME NEW s, s.generation \in Nat, NEW kind \in EffectKinds, NEW at \in OptTime,
           NEW reason \in HealthReasons \cup CadenceReasons
    PROVE  Fact(s, kind, at, reason) \in FactType
BY DEF Fact, FactType

LEMMA RecoveryFactsTyped ==
    ASSUME NEW n, NEW s, s \in EpisodeType(n), NEW at \in OptTime
    PROVE  CadenceCleared(s, at) \subseteq FactType /\ HealthRecovered(s, at) \subseteq FactType
<1>1. "cadence_warning_cleared" \in EffectKinds /\ "health_recovered" \in EffectKinds
  BY DEF EffectKinds
<1>2. /\ s.generation \in Nat
      /\ s.cadenceReason \in HealthReasons \cup CadenceReasons
      /\ s.degradationReason \in HealthReasons \cup CadenceReasons
  BY DEF EpisodeType
<1>3. Fact(s, "cadence_warning_cleared", at, s.cadenceReason) \in FactType
  BY <1>1, <1>2, FactTyped
<1>4. Fact(s, "health_recovered", at, s.degradationReason) \in FactType
  BY <1>1, <1>2, FactTyped
<1> QED BY <1>3, <1>4 DEF CadenceCleared, HealthRecovered

LEMMA AdvanceFactsTyped ==
    ASSUME ~DiagnosticWarnings, NEW n \in Nodes, NEW s, Core(n, s), NEW t \in Nat
    PROVE  AdvanceFacts(n, s, t) \subseteq FactType
<1>1. s \in EpisodeType(n) /\ s.generation \in Nat /\ s.clearDeadline \in OptTime
  BY DEF Core, EpisodeType
<1>2. ~SustainedDue(n, s, t) /\ ~TimeoutDue(n, s, t)
  BY DEF SustainedDue, TimeoutDue
<1>3. CASE QuietDue(n, s, t)
  <2>1. QuietAt(n, s) \in OptTime
    BY <1>3, ProfileFacts, TypeFacts DEF QuietDue, QuietAt, Core, EpisodeType
  <2>2. CadenceCleared(SustainedWarned(n, s, t), QuietAt(n, s)) \subseteq FactType
    BY <1>1, <1>2, <2>1, RecoveryFactsTyped DEF SustainedWarned
  <2>3. Fact(s, "stable_clear", s.clearDeadline, "none") \in FactType
    BY <1>1, FactTyped, TypeFacts DEF EffectKinds
  <2>4. /\ CadenceCleared(s, s.clearDeadline) \subseteq FactType
        /\ HealthRecovered(s, s.clearDeadline) \subseteq FactType
    BY <1>1, RecoveryFactsTyped
  <2> QED BY <1>2, <2>2, <2>3, <2>4 DEF AdvanceFacts
<1>4. CASE ~QuietDue(n, s, t)
  <2>1. Fact(s, "stable_clear", s.clearDeadline, "none") \in FactType
    BY <1>1, FactTyped, TypeFacts DEF EffectKinds
  <2>2. /\ CadenceCleared(s, s.clearDeadline) \subseteq FactType
        /\ HealthRecovered(s, s.clearDeadline) \subseteq FactType
    BY <1>1, RecoveryFactsTyped
  <2> QED BY <1>2, <1>4, <2>1, <2>2 DEF AdvanceFacts
<1> QED BY <1>3, <1>4

LEMMA StartFactsTyped ==
    ASSUME NEW n \in Nodes, NEW s, Core(n, s), NEW at \in Nat, s.advancedAt = at,
           NEW correlated
    PROVE  StartFacts(n, s, at, correlated) \subseteq FactType
<1> DEFINE g == NewGeneration(n, s, at)
<1>1. g.generation \in Nat
  BY NewGenerationFields DEF EpisodeType
<1> HIDE DEF g
<1>2. at \in OptTime
  BY TypeFacts
<1>3. \A h \in HealthRecovered(s, at) : h.kind \in EffectKinds /\ h.reason \in HealthReasons
  BY DEF HealthRecovered, Fact, EffectKinds, Core, EpisodeType
<1>4. {Fact(g, h.kind, at, h.reason) : h \in HealthRecovered(s, at)} \subseteq FactType
  BY <1>1, <1>2, <1>3, FactTyped
<1>5. CadenceCleared(s, at) \subseteq FactType
  BY <1>2, RecoveryFactsTyped DEF Core
<1>6. Fact(g, "correlated_positive", at, "none") \in FactType /\ Fact(g, "positive", at, "none") \in FactType
  BY <1>1, <1>2, FactTyped, TypeFacts DEF EffectKinds
<1> QED BY <1>4, <1>5, <1>6 DEF StartFacts, g

-----------------------------------------------------------------------------
(* Steps. *)

\* What an observation hands to the branch that handles it.
LEMMA ObservedCore ==
    ASSUME ~DiagnosticWarnings, NEW n \in Nodes, Sound(n, ep[n]), NEW a \in Aliases[n],
           NEW level \in Levels, NEW at \in Nat, ~IsStale(ep[n], at)
    PROVE  LET q == Observed(n, a, level, at)
           IN  /\ Core(n, q)
               /\ q.aliases = [ep[n].aliases EXCEPT ![a] = level]
               /\ q.advancedAt = at
               /\ q.status = ep[n].status \/ (ep[n].status = "clearing" /\ q.status = "clear")
               /\ q.status \in {"asserted", "degraded"} <=> KnownOn(ep[n])
<1> DEFINE s == Advanced(n, ep[n], at)
           al == [ep[n].aliases EXCEPT ![a] = level]
           q == ReadLevels(s, al, at)
<1>1. /\ Core(n, s) /\ s.aliases = ep[n].aliases /\ s.advancedAt = at
      /\ s.status = ep[n].status \/ (ep[n].status = "clearing" /\ s.status = "clear")
  BY AdvancedSound DEF Sound
<1> HIDE DEF s
<1>2. al \in [Aliases[n] -> Levels]
  BY DEF Sound, Core, EpisodeType
<1>3. Observed(n, a, level, at) = q
  BY <1>1 DEF Observed, s, Core, EpisodeType, ReadLevels
<1> HIDE DEF al
<1>4. Core(n, q) /\ q.aliases = al /\ q.status = s.status /\ q.advancedAt = at
  <2>1. at \in OptTime /\ at <= s.advancedAt
    BY <1>1, TypeFacts
  <2>2. Core(n, s)
    BY <1>1
  <2>3. Core(n, q) /\ q.aliases = al /\ q.status = s.status /\ q.advancedAt = s.advancedAt
    BY <2>1, <2>2, <1>2, ReadCore
  <2> QED BY <2>3, <1>1
<1>5. ep[n].status \in {"asserted", "degraded"} <=> KnownOn(ep[n])
  BY DEF Sound, LevelOK
<1> QED BY <1>1, <1>3, <1>4, <1>5 DEF al

\* A call about one node that leaves its record sound keeps the invariant.
LEMMA UpdateSound ==
    ASSUME TypeOK, \A m \in Nodes : Sound(m, ep[m]),
           NEW n \in Nodes, NEW s, Sound(n, s), NEW facts, facts \subseteq FactType,
           Update(n, s, facts)
    PROVE  TypeOK' /\ \A m \in Nodes : Sound(m, ep'[m])
<1>1. /\ DOMAIN ep' = Nodes
      /\ \A m \in Nodes : ep'[m] = IF m = n THEN s ELSE ep[m]
  BY DEF Update, TypeOK
<1>2. \A m \in Nodes : Sound(m, ep'[m])
  BY <1>1
<1>3. effects' \in [Nodes -> SUBSET FactType]
  BY DEF Update
<1>4. \A m \in Nodes : ep'[m] \in EpisodeType(m)
  BY <1>2 DEF Sound, Core
<1> QED BY <1>1, <1>2, <1>3, <1>4 DEF TypeOK

LEMMA PressStep ==
    ASSUME ~DiagnosticWarnings, TypeOK, \A m \in Nodes : Sound(m, ep[m]),
           NEW n \in Nodes, NEW at \in Times, Press(n, at)
    PROVE  TypeOK' /\ \A m \in Nodes : Sound(m, ep'[m])
<1> DEFINE s == Advanced(n, ep[n], at)
           p == Pulse(n, s, at)
           r == [p EXCEPT !.lastEventAt = at]
           facts == AdvanceFacts(n, ep[n], at)
                    \cup {Fact(NewGeneration(n, s, at), "interaction", at, "none")}
<1>1. n \in InteractionNodes /\ ~IsStale(ep[n], at) /\ Update(n, r, facts)
  BY DEF Press
<1>2. at \in Nat /\ at \in OptTime
  BY TypeFacts
<1>3. Core(n, s) /\ s.aliases = ep[n].aliases /\ s.advancedAt = at
  BY <1>1, <1>2, AdvancedSound DEF Sound
<1>4. NewGeneration(n, s, at).generation \in Nat
  BY <1>2, <1>3, NewGenerationFields DEF EpisodeType
<1> HIDE DEF s
<1>5. Core(n, p) /\ p.aliases = ep[n].aliases /\ p.status = "clearing" /\ p.advancedAt = at
  BY <1>2, <1>3, PulseCore
<1>6. Fact(NewGeneration(n, s, at), "interaction", at, "none") \in FactType
  BY <1>2, <1>4, FactTyped, TypeFacts DEF EffectKinds
<1>7. facts \subseteq FactType
  BY <1>2, <1>6, AdvanceFactsTyped DEF Sound
<1> HIDE DEF p, facts
<1>8. r = ReadLevels(p, p.aliases, at)
  BY <1>5 DEF Core, EpisodeType, ReadLevels
<1>9. p.aliases \in [Aliases[n] -> Levels] /\ at <= p.advancedAt
  BY <1>2, <1>5 DEF Core, EpisodeType
<1>10. Core(n, r) /\ r.aliases = ep[n].aliases /\ r.status = "clearing"
  BY <1>2, <1>5, <1>8, <1>9, ReadCore
<1>11. AllNeutral(ep[n]) /\ ~KnownOn(ep[n])
  BY <1>1, TypeFacts DEF Sound, InteractionOK, AllNeutral, KnownOn
<1>12. Sound(n, r)
  BY <1>10, <1>11 DEF Sound, LevelOK, InteractionOK, KnownOn, AllNeutral
<1> QED BY <1>1, <1>7, <1>12, UpdateSound

LEMMA UnavailableStep ==
    ASSUME ~DiagnosticWarnings, TypeOK, \A m \in Nodes : Sound(m, ep[m]),
           NEW n \in Nodes, NEW at \in Times, NEW a \in Aliases[n], NEW level \in Neutral,
           ObserveUnavailable(n, a, level, at)
    PROVE  TypeOK' /\ \A m \in Nodes : Sound(m, ep'[m])
<1> DEFINE q == Observed(n, a, level, at)
           lost == InteractionLost(n, level)
           r == LoseLevel(n, ep[n], q, lost)
           facts == AdvanceFacts(n, ep[n], at) \cup CadenceCleared(q, at) \cup HealthRecovered(q, at)
<1>1. ~IsStale(ep[n], at) /\ Update(n, r, facts)
  BY DEF ObserveUnavailable, Accepts
<1>2. at \in Nat /\ at \in OptTime /\ level \in Levels /\ level # "on"
  BY TypeFacts DEF Levels
<1>3. /\ Core(n, q) /\ q.aliases = [ep[n].aliases EXCEPT ![a] = level]
      /\ q.status = ep[n].status \/ (ep[n].status = "clearing" /\ q.status = "clear")
      /\ q.status \in {"asserted", "degraded"} <=> KnownOn(ep[n])
  BY <1>1, <1>2, ObservedCore
<1> HIDE DEF q
<1>4. KnownOn(q) => KnownOn(ep[n])
  BY <1>2, <1>3 DEF KnownOn, Sound, Core, EpisodeType
<1>5. n \in InteractionNodes => AllNeutral(q) /\ ~KnownOn(q)
  BY <1>3, TypeFacts DEF Sound, Core, EpisodeType, InteractionOK, AllNeutral, KnownOn
<1>6. lost \in BOOLEAN /\ (lost => ~KnownOn(q))
  BY <1>5 DEF InteractionLost
<1>7. facts \subseteq FactType
  BY <1>2, <1>3, AdvanceFactsTyped, RecoveryFactsTyped DEF Sound, Core
<1> HIDE DEF facts, lost
<1>8. /\ Core(n, r) /\ r.aliases = q.aliases
      /\ r.status \in {"asserted", "degraded"} <=> KnownOn(q)
      /\ r.status \in {q.status, "unavailable"} \/ KnownOn(q)
  BY <1>3, <1>4, <1>6, LoseLevelCore
<1> HIDE DEF r
<1>9. LevelOK(r)
  BY <1>8 DEF LevelOK, KnownOn
<1>10. InteractionOK(n, r)
  BY <1>3, <1>5, <1>8 DEF Sound, InteractionOK, AllNeutral
<1> QED BY <1>1, <1>7, <1>8, <1>9, <1>10, UpdateSound DEF Sound

\* The sensor edges; AcceptsLevel excludes interaction nodes.
LEMMA EdgeStep ==
    ASSUME ~DiagnosticWarnings, TypeOK, \A m \in Nodes : Sound(m, ep[m]),
           NEW n \in Nodes, NEW at \in Times, NEW a \in Aliases[n],
           \/ \E level \in {"on", "off"} : AliasEdge(n, a, level, at)
           \/ FlapOn(n, a, at) \/ StartOn(n, a, at)
           \/ ClearEdge(n, a, at) \/ BaselineOff(n, a, at)
    PROVE  TypeOK' /\ \A m \in Nodes : Sound(m, ep'[m])
<1> DEFINE facts == AdvanceFacts(n, ep[n], at)
           q(level) == Observed(n, a, level, at)
<1>1. n \notin InteractionNodes /\ ~IsStale(ep[n], at)
  BY DEF AliasEdge, FlapOn, StartOn, ClearEdge, BaselineOff, AcceptsLevel, Accepts
<1>2. at \in Nat /\ at \in OptTime
  BY TypeFacts
<1>3. ASSUME NEW level \in {"on", "off"}
      PROVE  /\ Core(n, q(level)) /\ q(level).aliases = [ep[n].aliases EXCEPT ![a] = level]
             /\ q(level).advancedAt = at
             /\ q(level).status = ep[n].status
                   \/ (ep[n].status = "clearing" /\ q(level).status = "clear")
             /\ q(level).status \in {"asserted", "degraded"} <=> KnownOn(ep[n])
  <2>1. level \in Levels
    BY DEF Levels
  <2> QED BY <2>1, <1>1, <1>2, ObservedCore
<1>4. facts \subseteq FactType
  BY <1>2, AdvanceFactsTyped DEF Sound
<1>5. KnownOn(q("on"))
  BY <1>3 DEF KnownOn, Sound, Core, EpisodeType
<1>6. ~KnownOn(ep[n]) => ~KnownOn(q("off"))
  BY <1>3 DEF KnownOn, Sound, Core, EpisodeType
<1> HIDE DEF facts, q
<1>7. ASSUME NEW level \in {"on", "off"}, AliasEdge(n, a, level, at)
      PROVE  TypeOK' /\ \A m \in Nodes : Sound(m, ep'[m])
  <2>1. KnownOn(ep[n]) /\ KnownOn(q(level)) /\ Update(n, q(level), facts)
    BY <1>7 DEF AliasEdge, q, facts
  <2>2. Sound(n, q(level))
    BY <1>1, <1>3, <2>1 DEF Sound, LevelOK, InteractionOK
  <2> QED BY <1>4, <2>1, <2>2, UpdateSound
<1>8. CASE FlapOn(n, a, at)
  <2> DEFINE r == Reassert(n, q("on"), at)
             flap == ReassertFacts(q("on"), at)
  <2>1. ContinuesFlap(n, q("on"), at) /\ Update(n, r, facts \cup flap)
    BY <1>8 DEF FlapOn, q, facts
  <2>2. q("on").generation > 0
    BY <2>1 DEF ContinuesFlap
  <2>3. Core(n, r) /\ r.aliases = q("on").aliases /\ r.status \in {"asserted", "degraded"}
    BY <1>2, <1>3, <2>2, ReassertCore
  <2>4. flap \subseteq FactType
    <3>1. q("on").generation \in Nat
      BY <1>3 DEF Core, EpisodeType
    <3>2. Fact(q("on"), "correlated_flap_ignored", at, "none") \in FactType
      BY <1>2, <3>1, FactTyped, TypeFacts DEF EffectKinds
    <3> QED BY <3>2 DEF ReassertFacts
  <2> HIDE DEF r, flap
  <2>5. Sound(n, r)
    BY <1>1, <1>5, <2>3 DEF Sound, LevelOK, InteractionOK, KnownOn
  <2> QED BY <1>4, <2>1, <2>4, <2>5, UpdateSound
<1>9. CASE StartOn(n, a, at)
  <2> DEFINE c == LinksCycle(n, q("on"), at)
             r == StartEpisode(n, q("on"), at, c)
             start == StartFacts(n, q("on"), at, c)
  <2>1. Update(n, r, facts \cup start)
    BY <1>9 DEF StartOn, q, facts
  <2>2. c \in BOOLEAN
    BY DEF LinksCycle
  <2>3. Core(n, r) /\ r.aliases = q("on").aliases /\ r.status = "asserted"
    BY <1>2, <1>3, <2>2, StartEpisodeCore
  <2>4. start \subseteq FactType
    BY <1>2, <1>3, StartFactsTyped
  <2> HIDE DEF r, start, c
  <2>5. Sound(n, r)
    BY <1>1, <1>5, <2>3 DEF Sound, LevelOK, InteractionOK, KnownOn
  <2> QED BY <1>4, <2>1, <2>4, <2>5, UpdateSound
<1>10. CASE ClearEdge(n, a, at)
  <2> DEFINE r == ReleaseLevel(n, q("off"), at)
  <2>1. KnownOn(ep[n]) /\ ~KnownOn(q("off")) /\ Update(n, r, facts)
    BY <1>10 DEF ClearEdge, q, facts
  <2>2. Core(n, r) /\ r.aliases = q("off").aliases /\ r.status \in {"clearing", "unavailable"}
    BY <1>2, <1>3, <2>1, ReleaseCore
  <2> HIDE DEF r
  <2>3. Sound(n, r)
    BY <1>1, <2>1, <2>2 DEF Sound, LevelOK, InteractionOK, KnownOn
  <2> QED BY <1>4, <2>1, <2>3, UpdateSound
<1>11. CASE BaselineOff(n, a, at)
  <2> DEFINE s == q("off")
             status == IF s.status = "unavailable" THEN "baseline" ELSE s.status
             r == [s EXCEPT !.status = status]
  <2>1. ~KnownOn(ep[n]) /\ Update(n, r, facts)
    BY <1>11, <1>3 DEF BaselineOff, q, facts, Core, EpisodeType
  <2>2. /\ Core(n, s) /\ ~KnownOn(s) /\ s.status \notin {"asserted", "degraded"}
    BY <1>3, <1>6, <2>1
  <2> HIDE DEF s
  <2>3. status \in Statuses /\ status \notin {"asserted", "degraded"}
        /\ (status = s.status \/ (s.status = "unavailable" /\ status = "baseline"))
    BY <2>2, TypeFacts DEF Core, EpisodeType
  <2> HIDE DEF status
  <2>4. r \in EpisodeType(n)
    BY <2>2, <2>3 DEF Core, EpisodeType
  <2>5. r.aliases = s.aliases /\ r.status = status /\ r.degradationReason = s.degradationReason
    BY <2>2 DEF Core, EpisodeType
  <2>6. /\ FrontiersOK(r) /\ IdentityOK(n, r) /\ HealthOK(r) /\ CadenceOK(n, r)
        /\ TraversalOK(n, r)
    BY <2>2, <2>3 DEF Core, EpisodeType, FrontiersOK, IdentityOK, HealthOK, CadenceOK, TraversalOK,
                   HealthWarning
  <2>7. StatusOK(n, r)
    BY <2>2, <2>3 DEF Core, EpisodeType, StatusOK
  <2> HIDE DEF r
  <2>8. Sound(n, r)
    BY <1>1, <2>2, <2>3, <2>4, <2>5, <2>6, <2>7 DEF Sound, Core, LevelOK, InteractionOK, KnownOn
  <2> QED BY <1>4, <2>1, <2>8, UpdateSound
<1> QED BY <1>7, <1>8, <1>9, <1>10, <1>11

LEMMA AdvancedKeepsSound ==
    ASSUME ~DiagnosticWarnings, NEW n \in Nodes, NEW s, Sound(n, s), NEW t \in Nat, ~IsStale(s, t)
    PROVE  Sound(n, Advanced(n, s, t))
<1> DEFINE r == Advanced(n, s, t)
<1>1. /\ Core(n, r) /\ r.aliases = s.aliases
      /\ r.status = s.status \/ (s.status = "clearing" /\ r.status = "clear")
  BY AdvancedSound DEF Sound
<1> HIDE DEF r
<1>2. LevelOK(r) /\ InteractionOK(n, r)
  BY <1>1 DEF Sound, LevelOK, InteractionOK, KnownOn, AllNeutral
<1> QED BY <1>1, <1>2 DEF Sound, r

\* A call that gives every node a new record.
LEMMA AllNodesSound ==
    ASSUME DOMAIN ep' = Nodes, \A m \in Nodes : Sound(m, ep'[m]),
           DOMAIN effects' = Nodes, \A m \in Nodes : effects'[m] \subseteq FactType,
           effects' = [m \in Nodes |-> effects'[m]]
    PROVE  TypeOK'
BY DEF TypeOK, Sound, Core

LEMMA AdvanceStep ==
    ASSUME ~DiagnosticWarnings, TypeOK, \A m \in Nodes : Sound(m, ep[m]),
           NEW at \in Times, Advance(at)
    PROVE  TypeOK' /\ \A m \in Nodes : Sound(m, ep'[m])
<1>1. at \in Nat
  BY TypeFacts
<1>2. /\ DOMAIN ep' = Nodes /\ DOMAIN effects' = Nodes
      /\ effects' = [m \in Nodes |-> effects'[m]]
      /\ \A m \in Nodes : ep'[m] = IF Advances(m, at) THEN Advanced(m, ep[m], at) ELSE ep[m]
      /\ \A m \in Nodes : effects'[m] = IF Advances(m, at) THEN AdvanceFacts(m, ep[m], at) ELSE {}
  BY DEF Advance
<1>3. \A m \in Nodes : Sound(m, ep'[m])
  BY <1>1, <1>2, AdvancedKeepsSound DEF Advances
<1>4. \A m \in Nodes : effects'[m] \subseteq FactType
  BY <1>1, <1>2, AdvanceFactsTyped DEF Sound
<1> QED BY <1>2, <1>3, <1>4, AllNodesSound

LEMMA CountZeroStep ==
    ASSUME ~DiagnosticWarnings, TypeOK, \A m \in Nodes : Sound(m, ep[m]),
           NEW at \in Times, CountZero(at)
    PROVE  TypeOK' /\ \A m \in Nodes : Sound(m, ep'[m])
<1>1. at \in Nat /\ at \in OptTime /\ \A m \in Nodes : ~IsStale(ep[m], at)
  BY TypeFacts DEF CountZero
<1>2. /\ DOMAIN ep' = Nodes /\ DOMAIN effects' = Nodes
      /\ effects' = [m \in Nodes |-> effects'[m]]
      /\ \A m \in Nodes : ep'[m] = CadenceReset(Advanced(m, ep[m], at))
      /\ \A m \in Nodes : effects'[m] = AdvanceFacts(m, ep[m], at)
                                        \cup CadenceCleared(Advanced(m, ep[m], at), at)
  BY DEF CountZero
<1>3. ASSUME NEW m \in Nodes PROVE Sound(m, ep'[m])
  <2> DEFINE s == Advanced(m, ep[m], at)
             r == CadenceReset(s)
  <2>1. Sound(m, s)
    BY <1>1, AdvancedKeepsSound
  <2> HIDE DEF s
  <2>2. Core(m, r) /\ r.aliases = s.aliases /\ r.status = s.status
    BY <2>1, CadenceResetCore DEF Sound
  <2> HIDE DEF r
  <2>3. LevelOK(r) /\ InteractionOK(m, r)
    BY <2>1, <2>2 DEF Sound, LevelOK, InteractionOK, KnownOn, AllNeutral
  <2> QED BY <1>2, <2>2, <2>3 DEF Sound, r, s
<1>4. ASSUME NEW m \in Nodes PROVE effects'[m] \subseteq FactType
  <2>1. Advanced(m, ep[m], at) \in EpisodeType(m)
    BY <1>1, AdvancedKeepsSound DEF Sound, Core
  <2>2. CadenceCleared(Advanced(m, ep[m], at), at) \subseteq FactType
    BY <1>1, <2>1, RecoveryFactsTyped
  <2>3. AdvanceFacts(m, ep[m], at) \subseteq FactType
    BY <1>1, AdvanceFactsTyped DEF Sound
  <2> QED BY <1>2, <2>2, <2>3
<1> QED BY <1>2, <1>3, <1>4, AllNodesSound

LEMMA StartupReadCore ==
    ASSUME ~DiagnosticWarnings, NEW n \in Nodes, NEW s, Sound(n, s), NEW at \in Nat,
           ~IsStale(s, at), NEW al \in StartupLevels(n)
    PROVE  LET q == StartupRead(n, s, al, at)
           IN  /\ Core(n, q) /\ q.aliases = al /\ q.advancedAt = at
               /\ q.status = Advanced(n, s, at).status
<1> DEFINE r == Advanced(n, s, at)
           le == IF al # s.aliases THEN at ELSE r.lastEventAt
<1>1. /\ Core(n, r) /\ r.advancedAt = at /\ r.lastEventAt = s.lastEventAt
  BY AdvancedSound DEF Sound
<1>2. StartupRead(n, s, al, at) = ReadLevels(r, al, le)
  BY <1>1 DEF StartupRead, ReadLevels, Core, EpisodeType
<1> HIDE DEF r
<1>3. al \in [Aliases[n] -> Levels]
  BY DEF StartupLevels, Levels
<1>4. le \in OptTime /\ le <= r.advancedAt
  BY <1>1, TypeFacts DEF Core, EpisodeType, FrontiersOK
<1> HIDE DEF le
<1> QED BY <1>1, <1>2, <1>3, <1>4, ReadCore DEF r

LEMMA ReconciledSound ==
    ASSUME ~DiagnosticWarnings, NEW n \in Nodes, NEW s, Sound(n, s), NEW at \in Nat,
           ~IsStale(s, at), NEW al \in StartupLevels(n)
    PROVE  /\ Sound(n, Reconciled(n, s, al, at))
           /\ ReconciledFacts(n, s, al, at) \subseteq FactType
<1> DEFINE q == StartupRead(n, s, al, at)
           r == Advanced(n, s, at)
           continues == StartupContinues(r, al)
<1>1. Core(n, q) /\ q.aliases = al /\ q.advancedAt = at /\ q.status = r.status
  BY StartupReadCore
<1>2. Sound(n, r) /\ r.aliases = s.aliases
  BY AdvancedSound, AdvancedKeepsSound DEF Sound
<1>3. AdvanceFacts(n, s, at) \subseteq FactType
  BY AdvanceFactsTyped DEF Sound
<1>4. n \in InteractionNodes => ~KnownOn(q) /\ AllNeutral(q)
  BY <1>1, TypeFacts DEF StartupLevels, KnownOn, AllNeutral
<1>5. [r EXCEPT !.aliases = al].aliases = al
  BY <1>2 DEF Sound, Core, EpisodeType
<1> HIDE DEF q, r
<1>6. CASE continues
  <2>1. KnownOn(q) <=> KnownOn(r)
    <3>1. \E a \in Aliases[n] : TRUE
      BY NodesAssumption
    <3>2. DOMAIN al = Aliases[n] /\ DOMAIN r.aliases = Aliases[n]
      BY <1>2 DEF StartupLevels, Sound, Core, EpisodeType
    <3> QED BY <1>1, <1>2, <1>5, <1>6, <3>1, <3>2 DEF StartupContinues, KnownOn, AllOff
  <2>2. LevelOK(q) /\ InteractionOK(n, q)
    BY <1>1, <1>2, <1>4, <2>1 DEF Sound, LevelOK, InteractionOK
  <2>3. /\ Reconciled(n, s, al, at) = q
        /\ ReconciledFacts(n, s, al, at) = AdvanceFacts(n, s, at)
    BY <1>6 DEF Reconciled, ReconciledFacts, q, r
  <2> QED BY <1>1, <1>3, <2>2, <2>3 DEF Sound
<1>7. CASE ~continues /\ KnownOn(q)
  <2> DEFINE e == StartEpisode(n, q, at, FALSE)
             start == StartFacts(n, q, at, FALSE)
  <2>1. Core(n, e) /\ e.aliases = q.aliases /\ e.status = "asserted"
    BY <1>1, StartEpisodeCore
  <2>2. start \subseteq FactType
    BY <1>1, StartFactsTyped
  <2> HIDE DEF e, start
  <2>3. LevelOK(e) /\ InteractionOK(n, e)
    BY <1>4, <1>7, <2>1 DEF LevelOK, InteractionOK, KnownOn
  <2>4. /\ Reconciled(n, s, al, at) = e
        /\ ReconciledFacts(n, s, al, at) = AdvanceFacts(n, s, at) \cup start
    BY <1>7 DEF Reconciled, ReconciledFacts, q, r, e, start
  <2> QED BY <1>3, <2>1, <2>2, <2>3, <2>4 DEF Sound
<1>8. CASE ~continues /\ ~KnownOn(q)
  <2> DEFINE b == StartupBaseline(q)
  <2>1. Core(n, b) /\ b.aliases = q.aliases /\ b.status \in {"baseline", "unavailable"}
    BY <1>1, StartupBaselineCore
  <2> HIDE DEF b
  <2>2. LevelOK(b) /\ InteractionOK(n, b)
    BY <1>4, <1>8, <2>1 DEF LevelOK, InteractionOK, KnownOn, AllNeutral
  <2>3. /\ Reconciled(n, s, al, at) = b
        /\ ReconciledFacts(n, s, al, at) = AdvanceFacts(n, s, at)
    BY <1>8 DEF Reconciled, ReconciledFacts, q, r, b
  <2> QED BY <1>3, <2>1, <2>2, <2>3 DEF Sound
<1> QED BY <1>6, <1>7, <1>8

LEMMA StartupStep ==
    ASSUME ~DiagnosticWarnings, TypeOK, \A m \in Nodes : Sound(m, ep[m]),
           NEW at \in Times, Startup(at)
    PROVE  TypeOK' /\ \A m \in Nodes : Sound(m, ep'[m])
<1>1. PICK levels : /\ \A m \in Nodes : levels[m] \in StartupLevels(m)
                    /\ ReconcileStartup(at, levels)
  BY DEF Startup
<1>2. at \in Nat /\ \A m \in Nodes : ~IsStale(ep[m], at)
  BY <1>1, TypeFacts DEF ReconcileStartup
<1>3. /\ DOMAIN ep' = Nodes /\ DOMAIN effects' = Nodes
      /\ effects' = [m \in Nodes |-> effects'[m]]
      /\ \A m \in Nodes : ep'[m] = Reconciled(m, ep[m], levels[m], at)
      /\ \A m \in Nodes : effects'[m] = ReconciledFacts(m, ep[m], levels[m], at)
  BY <1>1 DEF ReconcileStartup
<1>4. \A m \in Nodes : Sound(m, ep'[m]) /\ effects'[m] \subseteq FactType
  BY <1>1, <1>2, <1>3, ReconciledSound
<1> QED BY <1>3, <1>4, AllNodesSound

LEMMA ConflictStep ==
    ASSUME ~DiagnosticWarnings, TypeOK, \A m \in Nodes : Sound(m, ep[m]),
           NEW n \in Nodes, NEW at \in Times,
           ApplyCountConflict(n, at) \/ RecoverCountConflict(n, at)
    PROVE  TypeOK' /\ \A m \in Nodes : Sound(m, ep'[m])
<1>1. /\ at \in Nat /\ at \in OptTime /\ ep[n].generation \in Nat
      /\ "count_conflict" \in HealthReasons
  BY TypeFacts DEF Sound, Core, EpisodeType, HealthReasons
<1>2. CASE ApplyCountConflict(n, at)
  <2> DEFINE facts == {Fact(ep[n], "health_degraded", at, "count_conflict")}
  <2>1. facts \subseteq FactType
    BY <1>1, FactTyped DEF EffectKinds
  <2> HIDE DEF facts
  <2>2. /\ ~IsStale(ep[n], at) /\ at > ep[n].startedAt /\ KnownOn(ep[n])
        /\ ep[n].generation > 0
        /\ Update(n, [ep[n] EXCEPT !.status = "degraded", !.advancedAt = at,
                               !.traversalUntil = NoTime, !.degradedAt = at,
                               !.degradationReason = "count_conflict"], facts)
    BY <1>2 DEF ApplyCountConflict, facts
  <2>3. Sound(n, [ep[n] EXCEPT !.status = "degraded", !.advancedAt = at,
                               !.traversalUntil = NoTime, !.degradedAt = at,
                               !.degradationReason = "count_conflict"])
    BY <1>1, <2>2, ApplySound
  <2> QED BY <2>1, <2>2, <2>3, UpdateSound
<1>3. CASE RecoverCountConflict(n, at)
  <2> DEFINE facts == {Fact(ep[n], "health_recovered", at, "count_conflict")}
  <2>1. facts \subseteq FactType
    BY <1>1, FactTyped DEF EffectKinds
  <2> HIDE DEF facts
  <2>2. /\ ~IsStale(ep[n], at) /\ ep[n].status = "degraded"
        /\ Update(n, [ep[n] EXCEPT !.status = "asserted", !.advancedAt = at,
                               !.degradedAt = NoTime, !.degradationReason = "none"], facts)
    BY <1>3 DEF RecoverCountConflict, facts
  <2>3. Sound(n, [ep[n] EXCEPT !.status = "asserted", !.advancedAt = at,
                               !.degradedAt = NoTime, !.degradationReason = "none"])
    BY <1>1, <2>2, RecoverSound
  <2> QED BY <2>1, <2>2, <2>3, UpdateSound
<1> QED BY <1>2, <1>3

-----------------------------------------------------------------------------
(* The theorems. *)

IInv == TypeOK /\ \A n \in Nodes : Sound(n, ep[n])

LEMMA InitIInv == Init => IInv
<1> SUFFICES ASSUME Init PROVE IInv
  OBVIOUS
<1>1. \A n \in Nodes : Sound(n, ep[n])
  BY FreshSound DEF Init
<1>2. DOMAIN ep = Nodes /\ effects \in [Nodes -> SUBSET FactType]
  BY DEF Init
<1> QED BY <1>1, <1>2 DEF IInv, TypeOK, Sound, Core

LEMMA StepIInv == ASSUME ~DiagnosticWarnings PROVE IInv /\ [Next]_vars => IInv'
<1> SUFFICES ASSUME IInv, [Next]_vars PROVE IInv'
  OBVIOUS
<1>1. TypeOK /\ \A m \in Nodes : Sound(m, ep[m])
  BY DEF IInv
<1>2. CASE UNCHANGED vars
  BY <1>1, <1>2 DEF vars, IInv, TypeOK
<1>3. ASSUME NEW at \in Times, Advance(at) PROVE IInv'
  BY <1>1, <1>3, AdvanceStep DEF IInv
<1>4. ASSUME NEW at \in Times, CountZero(at) PROVE IInv'
  BY <1>1, <1>4, CountZeroStep DEF IInv
<1>5. ASSUME NEW at \in Times, Startup(at) PROVE IInv'
  BY <1>1, <1>5, StartupStep DEF IInv
<1>6. ASSUME NEW at \in Times, NEW n \in Nodes, NodeCall(n, at) PROVE IInv'
  <2>1. CASE Press(n, at)
    BY <1>1, <2>1, PressStep DEF IInv
  <2>2. CASE AliasCall(n, at)
    <3>1. PICK a \in Aliases[n] :
             \/ \E level \in Neutral : ObserveUnavailable(n, a, level, at)
             \/ \E level \in {"on", "off"} : AliasEdge(n, a, level, at)
             \/ FlapOn(n, a, at) \/ StartOn(n, a, at)
             \/ ClearEdge(n, a, at) \/ BaselineOff(n, a, at)
      BY <2>2 DEF AliasCall
    <3>2. CASE \E level \in Neutral : ObserveUnavailable(n, a, level, at)
      BY <1>1, <3>2, UnavailableStep DEF IInv
    <3>3. CASE ~\E level \in Neutral : ObserveUnavailable(n, a, level, at)
      BY <1>1, <3>1, <3>3, EdgeStep DEF IInv
    <3> QED BY <3>2, <3>3
  <2>3. CASE ApplyCountConflict(n, at) \/ RecoverCountConflict(n, at)
    BY <1>1, <2>3, ConflictStep DEF IInv
  <2> QED BY <1>6, <2>1, <2>2, <2>3 DEF NodeCall
<1> QED BY <1>2, <1>3, <1>4, <1>5, <1>6 DEF Next

\* Every record keeps its type, for any nodes, aliases, profiles and bounds, in
\* the mode in which engine.py constructs PhysicalEpisodes.
THEOREM TypeCorrect == ASSUME ~DiagnosticWarnings PROVE Spec => []TypeOK
<1>1. IInv => TypeOK
  BY DEF IInv
<1> QED BY <1>1, InitIInv, StepIInv, PTL DEF Spec

\* Every reachable episode state is one that restore_snapshot accepts.  Restorable
\* is not inductive by itself: an episode degraded by a timeout would reassert as
\* healthy; Core excludes that reason when diagnostic warnings are off.
THEOREM AlwaysRestorable == ASSUME ~DiagnosticWarnings PROVE Spec => []Restorable
<1>1. IInv => Restorable
  BY DEF IInv, Sound, Core, Restorable
<1> QED BY <1>1, InitIInv, StepIInv, PTL DEF Spec
=============================================================================
