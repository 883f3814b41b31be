----------------------- MODULE EpisodeContractProofs -----------------------
(***************************************************************************)
(* PhysicalEpisodes implements EpisodeContract, for any nodes, aliases,    *)
(* profiles, bounds and modes, and its cadence follows the aggregate       *)
(* edges.  After says what a call has made of a record once its due        *)
(* deadlines are applied; Loose is what such a record satisfies whatever   *)
(* alias level was replaced in it; Kept adds the agreement of status and   *)
(* levels, and is the inductive invariant.  Relates is what one call does  *)
(* to one node.                                                            *)
(***************************************************************************)
EXTENDS PhysicalEpisodesProofs, MCEpisodeCadence, FiniteSetTheorems

Open(s) == s.status \in {"asserted", "degraded", "clearing"}

Loose(n, s) ==
    /\ s \in EpisodeType(n)
    /\ s.lastEventAt <= s.advancedAt /\ s.startedAt <= s.advancedAt
    /\ s.generation > 0 => s.holdUntil = s.startedAt + Profile[n].hold
    /\ s.clearEmitted <=> s.status = "clear"
    /\ Open(s) => s.generation > 0
    /\ s.status = "clearing" =>
          /\ s.clearStartedAt # NoTime /\ s.clearDeadline = s.clearStartedAt + Profile[n].clear
          /\ s.advancedAt < s.clearDeadline
    /\ s.clearStartedAt # NoTime => s.status = "clearing"
    /\ s.cadenceRunAt = NoTime <=> s.cadenceLastAt = NoTime
    /\ ~Profile[n].presence => s.cadenceRunAt = NoTime

Kept(n, s) == Loose(n, s) /\ LevelOK(s) /\ (n \in InteractionNodes => AllNeutral(s))

\* No cadence run is left open past its quiet window.
InQuiet(n, s) == s.cadenceLastAt # NoTime => s.advancedAt < QuietAt(n, s)

After(n, s, at, q) ==
    /\ q \in EpisodeType(n) /\ q.advancedAt = at /\ q.lastEventAt <= at
    /\ q.generation = s.generation /\ q.startedAt = s.startedAt /\ q.holdUntil = s.holdUntil
    /\ q.traversalUntil \in {s.traversalUntil, NoTime}
    /\ q.status = IF ClearDue(n, s, at) THEN "clear"
                  ELSE IF TimeoutDue(n, s, at) THEN "degraded" ELSE s.status
    /\ q.clearEmitted = (ClearDue(n, s, at) \/ s.clearEmitted)
    /\ q.clearStartedAt = (IF ClearDue(n, s, at) THEN NoTime ELSE s.clearStartedAt)
    /\ q.clearDeadline = (IF ClearDue(n, s, at) THEN NoTime ELSE s.clearDeadline)
    /\ q.cadenceRunAt = (IF QuietDue(n, s, at) THEN NoTime ELSE s.cadenceRunAt)
    /\ q.cadenceLastAt = (IF QuietDue(n, s, at) THEN NoTime ELSE s.cadenceLastAt)

-----------------------------------------------------------------------------
(* Deadlines. *)

LEMMA AdvancedFields ==
    ASSUME NEW n \in Nodes, NEW s \in EpisodeType(n), NEW at \in Nat, ~IsStale(s, at)
    PROVE  After(n, s, at, Advanced(n, s, at)) /\ Advanced(n, s, at).aliases = s.aliases
           /\ Advanced(n, s, at).lastEventAt = s.lastEventAt
<1> DEFINE c == AdvanceCadence(n, s, at)
           d == AdvanceStatus(n, c, at)
           r == [d EXCEPT !.advancedAt = at]
<1>1. /\ c \in EpisodeType(n)
      /\ c.aliases = s.aliases /\ c.generation = s.generation /\ c.status = s.status
      /\ c.startedAt = s.startedAt /\ c.lastEventAt = s.lastEventAt
      /\ c.clearStartedAt = s.clearStartedAt /\ c.clearDeadline = s.clearDeadline
      /\ c.clearEmitted = s.clearEmitted /\ c.holdUntil = s.holdUntil /\ c.trustUntil = s.trustUntil
      /\ c.traversalUntil = s.traversalUntil /\ c.degradationReason = s.degradationReason
      /\ c.cadenceRunAt = (IF QuietDue(n, s, at) THEN NoTime ELSE s.cadenceRunAt)
      /\ c.cadenceLastAt = (IF QuietDue(n, s, at) THEN NoTime ELSE s.cadenceLastAt)
  <2>1. CASE QuietDue(n, s, at)
    <3> DEFINE x == [s EXCEPT !.cadenceRunAt = NoTime, !.cadenceLastAt = NoTime,
                              !.cadenceCycles = 0, !.cadenceReason = "none"]
    <3>1. c = x
      BY <2>1 DEF AdvanceCadence
    <3>2. x \in EpisodeType(n)
      BY TypeFacts DEF EpisodeType
    <3> QED BY <2>1, <3>1, <3>2 DEF EpisodeType
  <2>2. CASE ~QuietDue(n, s, at)
    <3> DEFINE x == [s EXCEPT !.cadenceReason = "sustained_flapping"]
    <3>1. c = s \/ c = x
      BY <2>2 DEF AdvanceCadence, SustainedWarned
    <3>2. x \in EpisodeType(n)
      BY DEF EpisodeType, CadenceReasons
    <3> QED BY <2>2, <3>1, <3>2 DEF EpisodeType
  <2> QED BY <2>1, <2>2
<1>2. (ClearDue(n, c, at) <=> ClearDue(n, s, at)) /\ (TimeoutDue(n, c, at) <=> TimeoutDue(n, s, at))
  BY <1>1 DEF ClearDue, TimeoutDue, HealthWarning
<1> HIDE DEF c
<1>3. /\ d \in EpisodeType(n)
      /\ d.aliases = c.aliases /\ d.generation = c.generation /\ d.startedAt = c.startedAt
      /\ d.lastEventAt = c.lastEventAt /\ d.holdUntil = c.holdUntil
      /\ d.cadenceRunAt = c.cadenceRunAt /\ d.cadenceLastAt = c.cadenceLastAt
      /\ d.traversalUntil \in {c.traversalUntil, NoTime}
      /\ d.status = IF ClearDue(n, c, at) THEN "clear"
                    ELSE IF TimeoutDue(n, c, at) THEN "degraded" ELSE c.status
      /\ d.clearEmitted = (ClearDue(n, c, at) \/ c.clearEmitted)
      /\ d.clearStartedAt = (IF ClearDue(n, c, at) THEN NoTime ELSE c.clearStartedAt)
      /\ d.clearDeadline = (IF ClearDue(n, c, at) THEN NoTime ELSE c.clearDeadline)
  <2>1. CASE ClearDue(n, c, at)
    <3> DEFINE reason == IF Profile[n].cycle > 0 THEN c.cadenceReason ELSE "none"
               x == [c EXCEPT !.status = "clear", !.clearEmitted = TRUE,
                              !.clearStartedAt = NoTime, !.clearDeadline = NoTime,
                              !.traversalUntil = NoTime, !.degradedAt = NoTime,
                              !.degradationReason = "none", !.cadenceReason = reason]
    <3>1. d = x
      BY <2>1 DEF AdvanceStatus
    <3>2. reason \in CadenceReasons
      BY <1>1, TypeFacts DEF EpisodeType
    <3> HIDE DEF reason
    <3>3. x \in EpisodeType(n)
      BY <1>1, <3>2, TypeFacts, ZenonT(40) DEF EpisodeType
    <3>4. /\ x.aliases = c.aliases /\ x.generation = c.generation /\ x.startedAt = c.startedAt
          /\ x.lastEventAt = c.lastEventAt /\ x.holdUntil = c.holdUntil
          /\ x.cadenceRunAt = c.cadenceRunAt /\ x.cadenceLastAt = c.cadenceLastAt
          /\ x.traversalUntil = NoTime /\ x.status = "clear" /\ x.clearEmitted = TRUE
          /\ x.clearStartedAt = NoTime /\ x.clearDeadline = NoTime
      BY <1>1 DEF EpisodeType
    <3> HIDE DEF x, d
    <3> QED BY <2>1, <3>1, <3>3, <3>4
  <2>2. CASE ~ClearDue(n, c, at) /\ TimeoutDue(n, c, at)
    <3> DEFINE x == [c EXCEPT !.status = "degraded", !.traversalUntil = NoTime,
                              !.degradedAt = c.trustUntil, !.degradationReason = "assertion_timeout"]
    <3>1. d = x
      BY <2>2 DEF AdvanceStatus
    <3>2. x \in EpisodeType(n)
      BY <1>1, TypeFacts DEF EpisodeType, HealthReasons
    <3> QED BY <1>1, <2>2, <3>1, <3>2 DEF EpisodeType
  <2>3. CASE ~ClearDue(n, c, at) /\ ~TimeoutDue(n, c, at)
    <3>1. d = c
      BY <2>3 DEF AdvanceStatus
    <3>2. c.clearEmitted \in BOOLEAN
      BY <1>1 DEF EpisodeType
    <3> HIDE DEF d
    <3> QED BY <1>1, <2>3, <3>1, <3>2
  <2> QED BY <2>1, <2>2, <2>3
<1> HIDE DEF d
<1>4. r \in EpisodeType(n)
  BY <1>3, TypeFacts DEF EpisodeType
<1>5. /\ r.aliases = d.aliases /\ r.generation = d.generation /\ r.startedAt = d.startedAt
      /\ r.lastEventAt = d.lastEventAt /\ r.holdUntil = d.holdUntil /\ r.advancedAt = at
      /\ r.cadenceRunAt = d.cadenceRunAt /\ r.cadenceLastAt = d.cadenceLastAt
      /\ r.traversalUntil = d.traversalUntil /\ r.status = d.status
      /\ r.clearEmitted = d.clearEmitted /\ r.clearStartedAt = d.clearStartedAt
      /\ r.clearDeadline = d.clearDeadline
  BY <1>3 DEF EpisodeType
<1>6. Advanced(n, s, at) = r
  BY DEF Advanced, c, d
<1>7. s.lastEventAt <= at
  BY TypeFacts DEF IsStale, EpisodeType
<1> HIDE DEF r
<1> QED BY <1>1, <1>2, <1>3, <1>4, <1>5, <1>6, <1>7 DEF After

\* Replacing levels after the deadlines.
LEMMA AfterRead ==
    ASSUME NEW n \in Nodes, NEW s \in EpisodeType(n), NEW at \in Nat, NEW q, After(n, s, at, q),
           NEW al \in [Aliases[n] -> Levels], NEW le \in OptTime, le <= at
    PROVE  After(n, s, at, ReadLevels(q, al, le)) /\ ReadLevels(q, al, le).aliases = al
<1> DEFINE r == [q EXCEPT !.aliases = al, !.lastEventAt = le]
<1>1. r \in EpisodeType(n)
  BY DEF After, EpisodeType
<1>2. r.aliases = al /\ r.lastEventAt = le
      /\ r.generation = q.generation /\ r.startedAt = q.startedAt /\ r.holdUntil = q.holdUntil
      /\ r.traversalUntil = q.traversalUntil /\ r.status = q.status /\ r.advancedAt = q.advancedAt
      /\ r.clearEmitted = q.clearEmitted /\ r.clearStartedAt = q.clearStartedAt
      /\ r.clearDeadline = q.clearDeadline
      /\ r.cadenceRunAt = q.cadenceRunAt /\ r.cadenceLastAt = q.cadenceLastAt
  BY DEF After, EpisodeType
<1>3. ReadLevels(q, al, le) = r
  BY DEF ReadLevels
<1> HIDE DEF r
<1> QED BY <1>1, <1>2, <1>3 DEF After

\* What is left after the deadlines is not overdue.
LEMMA AfterLoose ==
    ASSUME NEW n \in Nodes, NEW s, Kept(n, s), NEW at \in Nat, ~IsStale(s, at),
           NEW q, After(n, s, at, q)
    PROVE  /\ Loose(n, q) /\ InQuiet(n, q)
           /\ q.status \in {"asserted", "degraded"} <=> s.status \in {"asserted", "degraded"}
           /\ q.status = "clearing" => s.status = "clearing" /\ ~ClearDue(n, s, at)
           /\ q.status = "clear" => ClearDue(n, s, at) \/ s.status = "clear"
           /\ ClearDue(n, s, at) => s.status = "clearing" /\ s.clearDeadline <= at
           /\ s.advancedAt <= at
<1>1. /\ s \in EpisodeType(n) /\ q \in EpisodeType(n)
      /\ s.advancedAt \in Int /\ s.startedAt \in Int /\ s.clearDeadline \in OptTime
      /\ s.cadenceLastAt \in OptTime /\ s.clearStartedAt \in OptTime
      /\ s.advancedAt <= at /\ s.generation \in Nat
  BY TypeFacts DEF Kept, Loose, After, EpisodeType, IsStale
<1>2. Profile[n].clear \in Nat /\ Profile[n].cycle \in Nat
      /\ (Profile[n].cycle > 0 <=> Profile[n].presence)
  BY ProfileFacts
<1>3. ClearDue(n, s, at) => s.status = "clearing" /\ s.clearDeadline <= at
  BY DEF ClearDue
<1>4. TimeoutDue(n, s, at) => s.status = "asserted" /\ s.generation > 0
  BY DEF TimeoutDue
<1>5. s.status = "clearing" /\ ~ClearDue(n, s, at) => at < s.clearDeadline
  BY <1>1, <1>2, TypeFacts DEF Kept, Loose, ClearDue, Open, NoTime
<1>6. InQuiet(n, q)
  <2> SUFFICES ASSUME q.cadenceLastAt # NoTime PROVE q.advancedAt < QuietAt(n, q)
    BY DEF InQuiet
  <2>1. ~QuietDue(n, s, at) /\ q.cadenceLastAt = s.cadenceLastAt /\ q.advancedAt = at
    BY DEF After
  <2>2. Profile[n].presence /\ Profile[n].cycle > 0
    BY <1>2, <2>1 DEF Kept, Loose
  <2>3. s.cadenceLastAt \in Int
    BY <1>1, TypeFacts
  <2> QED BY <1>2, <2>1, <2>2, <2>3 DEF QuietDue, QuietAt
<1>7. Loose(n, q)
  <2>1. q.lastEventAt <= q.advancedAt /\ q.startedAt <= q.advancedAt
    BY <1>1 DEF After, Kept, Loose
  <2>2. q.generation > 0 => q.holdUntil = q.startedAt + Profile[n].hold
    BY DEF After, Kept, Loose
  <2>3. q.clearEmitted <=> q.status = "clear"
    BY <1>1, <1>3, <1>4 DEF After, Kept, Loose, EpisodeType
  <2>4. Open(q) => q.generation > 0
    BY <1>3, <1>4 DEF After, Kept, Loose, Open
  <2>5. q.status = "clearing" =>
          /\ q.clearStartedAt # NoTime /\ q.clearDeadline = q.clearStartedAt + Profile[n].clear
          /\ q.advancedAt < q.clearDeadline
    BY <1>5 DEF After, Kept, Loose
  <2>6. q.clearStartedAt # NoTime => q.status = "clearing"
    BY <1>4 DEF After, Kept, Loose
  <2>7. (q.cadenceRunAt = NoTime <=> q.cadenceLastAt = NoTime)
        /\ (~Profile[n].presence => q.cadenceRunAt = NoTime)
    BY DEF After, Kept, Loose
  <2> QED BY <1>1, <2>1, <2>2, <2>3, <2>4, <2>5, <2>6, <2>7 DEF Loose
<1> QED BY <1>1, <1>3, <1>4, <1>6, <1>7 DEF After

-----------------------------------------------------------------------------
(* One call, one node. *)

\* The run, the clear edge and the stable clear of an open cadence run, against
\* the time e of the last change of the aggregate level.
Tracks(n, s, e) ==
    s.cadenceRunAt # NoTime =>
        /\ s.cadenceLastAt = e
        /\ s.status = "clearing" => s.clearStartedAt = e
        /\ s.status = "clear" => e + Profile[n].clear <= s.advancedAt

Follows(n, s, r, at) ==
    \A e \in OptTime :
        Tracks(n, s, e) => /\ (KnownOn(r) <=> KnownOn(s)) => Tracks(n, r, e)
                           /\ ~(KnownOn(r) <=> KnownOn(s)) => Tracks(n, r, at)

\* What a call at time at makes of node n; begun: it starts an episode.
Relates(n, s, r, at, begun) ==
    /\ Kept(n, r) /\ r.advancedAt = at /\ s.advancedAt <= at
    /\ ClearDue(n, s, at) => Open(s) /\ s.advancedAt < s.clearDeadline /\ s.clearDeadline <= at
    /\ begun => r.generation = s.generation + 1 /\ Open(r) /\ r.startedAt = at
    /\ ~begun =>
          /\ r.generation = s.generation /\ r.startedAt = s.startedAt
          /\ s.traversalUntil = NoTime => r.traversalUntil = NoTime
          /\ Open(r) /\ (~Open(s) \/ ClearDue(n, s, at)) =>
                s.generation > 0 /\ at < s.startedAt + Profile[n].hold
    /\ Follows(n, s, r, at)

\* The fields the status and the cadence of a record do not touch, and the rest.
SameEpisode(s, r) ==
    /\ r.aliases = s.aliases /\ r.generation = s.generation /\ r.startedAt = s.startedAt
    /\ r.lastEventAt = s.lastEventAt /\ r.advancedAt = s.advancedAt /\ r.holdUntil = s.holdUntil
SameClear(s, r) ==
    /\ r.clearStartedAt = s.clearStartedAt /\ r.clearDeadline = s.clearDeadline
    /\ r.clearEmitted = s.clearEmitted
SameCadence(s, r) == r.cadenceRunAt = s.cadenceRunAt /\ r.cadenceLastAt = s.cadenceLastAt

LEMMA ResetFields ==
    ASSUME NEW n \in Nodes, NEW s \in EpisodeType(n)
    PROVE  LET r == CadenceReset(s)
           IN  /\ r \in EpisodeType(n) /\ SameEpisode(s, r) /\ SameClear(s, r)
               /\ r.status = s.status /\ r.traversalUntil = s.traversalUntil
               /\ r.degradationReason = s.degradationReason
               /\ r.cadenceRunAt = NoTime /\ r.cadenceLastAt = NoTime
<1> DEFINE r == [s EXCEPT !.cadenceRunAt = NoTime, !.cadenceLastAt = NoTime,
                          !.cadenceCycles = 0, !.cadenceCorrelated = FALSE, !.cadenceReason = "none"]
<1>1. r \in EpisodeType(n)
  BY TypeFacts DEF EpisodeType
<1> QED BY <1>1 DEF EpisodeType, CadenceReset, SameEpisode, SameClear

LEMMA TouchedFields ==
    ASSUME NEW n \in Nodes, NEW s \in EpisodeType(n), NEW at \in Nat
    PROVE  LET r == CadenceTouched(s, at)
           IN  /\ r \in EpisodeType(n) /\ SameEpisode(s, r) /\ SameClear(s, r)
               /\ r.status = s.status /\ r.traversalUntil = s.traversalUntil
               /\ r.cadenceReason = s.cadenceReason
               /\ r.cadenceRunAt = s.cadenceRunAt
               /\ r.cadenceLastAt = (IF s.cadenceRunAt # NoTime THEN at ELSE NoTime)
<1> DEFINE last == IF s.cadenceRunAt # NoTime THEN at ELSE NoTime
           r == [s EXCEPT !.cadenceLastAt = last]
<1>1. last \in OptTime
  BY TypeFacts
<1>2. CadenceTouched(s, at) = r
  BY DEF CadenceTouched
<1> HIDE DEF last
<1>3. r \in EpisodeType(n)
  BY <1>1 DEF EpisodeType
<1> QED BY <1>2, <1>3 DEF EpisodeType, SameEpisode, SameClear, last

LEMMA BegunFields ==
    ASSUME NEW n \in Nodes, NEW s \in EpisodeType(n), NEW at \in Nat
    PROVE  LET g == NewGeneration(n, s, at)
           IN  /\ g \in EpisodeType(n) /\ g.aliases = s.aliases /\ g.generation = s.generation + 1
               /\ g.startedAt = at /\ g.lastEventAt = s.lastEventAt /\ g.advancedAt = s.advancedAt
               /\ g.holdUntil = at + Profile[n].hold /\ g.clearEmitted = FALSE
               /\ g.cadenceReason = s.cadenceReason /\ SameCadence(s, g)
<1> DEFINE hold == at + Profile[n].hold
           trust == at + Profile[n].trust
           frontier == TraversalFrontier(n, at)
           next == s.generation + 1
           g == [s EXCEPT !.generation = next, !.startedAt = at,
                          !.holdUntil = hold, !.trustUntil = trust,
                          !.traversalUntil = frontier, !.clearEmitted = FALSE,
                          !.degradedAt = NoTime, !.degradationReason = "none"]
<1>1. NewGeneration(n, s, at) = g
  BY DEF NewGeneration, EpisodeType
<1>2. /\ hold \in OptTime /\ trust \in OptTime /\ frontier \in OptTime /\ at \in OptTime
      /\ next \in Nat
  BY ProfileFacts, FrontierType, TypeFacts DEF EpisodeType
<1> HIDE DEF hold, trust, frontier, next
<1>3. g \in EpisodeType(n)
  BY <1>2, TypeFacts DEF EpisodeType
<1>4. /\ g.aliases = s.aliases /\ g.generation = next /\ g.startedAt = at
      /\ g.lastEventAt = s.lastEventAt /\ g.advancedAt = s.advancedAt
      /\ g.holdUntil = hold /\ g.clearEmitted = FALSE /\ g.cadenceReason = s.cadenceReason
      /\ g.cadenceRunAt = s.cadenceRunAt /\ g.cadenceLastAt = s.cadenceLastAt
  BY DEF EpisodeType
<1> HIDE DEF g
<1> QED BY <1>1, <1>3, <1>4 DEF hold, next, SameCadence

\* A call that only applies deadlines and replaces levels.
LEMMA FollowRelates ==
    ASSUME NEW n \in Nodes, NEW s, Kept(n, s), NEW at \in Nat, ~IsStale(s, at),
           NEW q, After(n, s, at, q), KnownOn(q) <=> KnownOn(s),
           n \in InteractionNodes => AllNeutral(q)
    PROVE  Relates(n, s, q, at, FALSE) /\ InQuiet(n, q)
<1>1. /\ Loose(n, q) /\ InQuiet(n, q)
      /\ q.status \in {"asserted", "degraded"} <=> s.status \in {"asserted", "degraded"}
      /\ q.status = "clearing" => s.status = "clearing" /\ ~ClearDue(n, s, at)
      /\ q.status = "clear" => ClearDue(n, s, at) \/ s.status = "clear"
      /\ ClearDue(n, s, at) => s.status = "clearing" /\ s.clearDeadline <= at
      /\ s.advancedAt <= at
  BY AfterLoose
<1>2. Kept(n, q)
  BY <1>1 DEF Kept, LevelOK
<1>3. Open(q) => Open(s) /\ ~ClearDue(n, s, at)
  BY <1>1 DEF Open
<1>4. ASSUME NEW e \in OptTime, Tracks(n, s, e) PROVE Tracks(n, q, e)
  <2> SUFFICES ASSUME q.cadenceRunAt # NoTime
               PROVE  /\ q.cadenceLastAt = e
                      /\ q.status = "clearing" => q.clearStartedAt = e
                      /\ q.status = "clear" => e + Profile[n].clear <= q.advancedAt
    BY DEF Tracks
  <2>1. /\ q.cadenceRunAt = s.cadenceRunAt /\ q.cadenceLastAt = s.cadenceLastAt
        /\ s.cadenceRunAt # NoTime /\ q.advancedAt = at
    BY DEF After
  <2>2. q.status = "clearing" => q.clearStartedAt = s.clearStartedAt /\ s.status = "clearing"
    BY <1>1 DEF After
  <2>3. s.status = "clear" => e + Profile[n].clear <= at
    BY <1>1, <1>4, <2>1, ProfileFacts, TypeFacts DEF Tracks, Kept, Loose, EpisodeType
  <2>4. ClearDue(n, s, at) => e + Profile[n].clear <= at
    BY <1>1, <1>4, <2>1 DEF Tracks, Kept, Loose
  <2> QED BY <1>1, <1>4, <2>1, <2>2, <2>3, <2>4 DEF Tracks
<1>5. Follows(n, s, q, at)
  BY <1>4 DEF Follows
<1>6. s.traversalUntil = NoTime => q.traversalUntil = NoTime
  BY DEF After
<1>7. ClearDue(n, s, at) => Open(s) /\ s.advancedAt < s.clearDeadline /\ s.clearDeadline <= at
  BY <1>1 DEF Open, Kept, Loose
<1> QED BY <1>1, <1>2, <1>3, <1>5, <1>6, <1>7 DEF Relates, After

\* What a branch that keeps the episode has to leave behind.
LEMMA ChangedRelates ==
    ASSUME NEW n \in Nodes, NEW s, Kept(n, s), NEW at \in Nat, ~IsStale(s, at),
           NEW q, After(n, s, at, q), NEW r \in EpisodeType(n),
           r.generation = q.generation, r.startedAt = q.startedAt, r.holdUntil = q.holdUntil,
           r.lastEventAt <= at, r.advancedAt = at, r.traversalUntil \in {q.traversalUntil, NoTime},
           r.clearEmitted <=> r.status = "clear",
           r.status = "clearing" => /\ r.clearStartedAt # NoTime
                                    /\ r.clearDeadline = r.clearStartedAt + Profile[n].clear
                                    /\ at < r.clearDeadline,
           r.clearStartedAt # NoTime => r.status = "clearing",
           r.cadenceRunAt = NoTime <=> r.cadenceLastAt = NoTime,
           ~Profile[n].presence => r.cadenceRunAt = NoTime,
           InQuiet(n, r), LevelOK(r), n \in InteractionNodes => AllNeutral(r),
           Open(r) => s.generation > 0,
           Open(r) /\ (~Open(s) \/ ClearDue(n, s, at)) => at < s.startedAt + Profile[n].hold,
           Follows(n, s, r, at)
    PROVE  Relates(n, s, r, at, FALSE)
<1>1. /\ Loose(n, q) /\ s.advancedAt <= at
      /\ ClearDue(n, s, at) => s.status = "clearing" /\ s.clearDeadline <= at
      /\ q.startedAt <= at /\ q.generation = s.generation /\ q.startedAt = s.startedAt
      /\ s.traversalUntil = NoTime => q.traversalUntil = NoTime
      /\ q.generation > 0 => q.holdUntil = q.startedAt + Profile[n].hold
  BY AfterLoose DEF After, Loose
<1>2. Kept(n, r)
  BY <1>1 DEF Kept, Loose
<1>3. ClearDue(n, s, at) => Open(s) /\ s.advancedAt < s.clearDeadline /\ s.clearDeadline <= at
  BY <1>1 DEF Open, Kept, Loose
<1> QED BY <1>1, <1>2, <1>3 DEF Relates

\* A cadence that is reset, or follows an edge at the time of the call.
LEMMA TracksReset == ASSUME NEW n, NEW s, NEW at, NEW r, r.cadenceRunAt = NoTime PROVE Follows(n, s, r, at)
BY DEF Follows, Tracks

LEMMA TracksEdge ==
    ASSUME NEW n, NEW s, NEW at, NEW r, ~(KnownOn(r) <=> KnownOn(s)),
           r.cadenceRunAt # NoTime => r.cadenceLastAt = at,
           r.status = "clearing" => r.clearStartedAt = at, r.status # "clear"
    PROVE  Follows(n, s, r, at)
BY DEF Follows, Tracks

\* CountZero.
LEMMA ZeroRelates ==
    ASSUME NEW n \in Nodes, NEW s, Kept(n, s), NEW at \in Nat, ~IsStale(s, at),
           NEW q, After(n, s, at, q), q.aliases = s.aliases
    PROVE  Relates(n, s, CadenceReset(q), at, FALSE) /\ InQuiet(n, CadenceReset(q))
<1> DEFINE r == CadenceReset(q)
<1>1. /\ Loose(n, q)
      /\ q.status \in {"asserted", "degraded"} <=> s.status \in {"asserted", "degraded"}
      /\ q.status = "clearing" => s.status = "clearing" /\ ~ClearDue(n, s, at)
      /\ ClearDue(n, s, at) => s.status = "clearing"
  BY AfterLoose
<1>2. /\ r \in EpisodeType(n) /\ SameEpisode(q, r) /\ SameClear(q, r)
      /\ r.status = q.status /\ r.traversalUntil = q.traversalUntil
      /\ r.cadenceRunAt = NoTime /\ r.cadenceLastAt = NoTime
  BY ResetFields DEF After
<1> HIDE DEF r
<1>3. LevelOK(r) /\ (n \in InteractionNodes => AllNeutral(r))
  BY <1>1, <1>2 DEF Kept, LevelOK, KnownOn, AllNeutral, SameEpisode
<1>4. Open(r) => Open(s) /\ ~ClearDue(n, s, at) /\ s.generation > 0
  BY <1>1, <1>2 DEF Open, Kept, Loose
<1>5. Follows(n, s, r, at) /\ InQuiet(n, r)
  BY <1>2, TracksReset DEF InQuiet
<1>6. r.lastEventAt <= at /\ r.advancedAt = at
  BY <1>2 DEF After, SameEpisode
<1> QED BY <1>1, <1>2, <1>3, <1>4, <1>5, <1>6, ChangedRelates DEF Loose, SameEpisode, SameClear, After, r

\* observe_level: an off that was no edge.
LEMMA BaselineRelates ==
    ASSUME NEW n \in Nodes, NEW s, Kept(n, s), NEW at \in Nat, ~IsStale(s, at),
           NEW q, After(n, s, at, q), ~KnownOn(s), ~KnownOn(q), n \notin InteractionNodes
    PROVE  LET r == [q EXCEPT !.status = IF @ = "unavailable" THEN "baseline" ELSE @]
           IN  Relates(n, s, r, at, FALSE) /\ InQuiet(n, r)
<1> DEFINE status == IF q.status = "unavailable" THEN "baseline" ELSE q.status
           r == [q EXCEPT !.status = status]
<1>1. /\ Loose(n, q) /\ InQuiet(n, q)
      /\ q.status \in {"asserted", "degraded"} <=> s.status \in {"asserted", "degraded"}
      /\ q.status = "clearing" => s.status = "clearing" /\ ~ClearDue(n, s, at)
      /\ q.status = "clear" => ClearDue(n, s, at) \/ s.status = "clear"
      /\ ClearDue(n, s, at) => s.status = "clearing" /\ s.clearDeadline <= at
  BY AfterLoose
<1>2. q.status \notin {"asserted", "degraded"} /\ status \in Statuses
  BY <1>1, TypeFacts DEF Kept, LevelOK, After, EpisodeType
<1>3. CASE q.status # "unavailable"
  <2>1. [q EXCEPT !.status = q.status] = q
    BY DEF After, EpisodeType
  <2>2. r = q
    BY <1>3, <2>1
  <2> HIDE DEF r
  <2> QED BY <2>2, FollowRelates DEF r
<1>4. CASE q.status = "unavailable"
  <2>1. /\ r \in EpisodeType(n) /\ SameEpisode(q, r) /\ SameClear(q, r) /\ SameCadence(q, r)
        /\ r.status = "baseline" /\ r.traversalUntil = q.traversalUntil
    BY <1>2, <1>4 DEF After, EpisodeType, SameEpisode, SameClear, SameCadence
  <2> HIDE DEF r
  <2>2. LevelOK(r) /\ ~KnownOn(r) /\ ~Open(r)
    BY <2>1 DEF LevelOK, KnownOn, SameEpisode, Open
  <2>3. Follows(n, s, q, at)
    BY FollowRelates DEF Relates
  <2>4. Follows(n, s, r, at)
    BY <2>1, <2>2, <2>3 DEF Follows, Tracks, SameCadence, SameEpisode
  <2>5. InQuiet(n, r)
    BY <1>1, <2>1 DEF InQuiet, QuietAt, SameCadence, SameEpisode
  <2>6. r.lastEventAt <= at /\ r.advancedAt = at
    BY <2>1 DEF After, SameEpisode
  <2>7. Relates(n, s, r, at, FALSE)
    BY <1>1, <1>4, <2>1, <2>2, <2>4, <2>5, <2>6, ChangedRelates
    DEF Loose, SameEpisode, SameClear, SameCadence, After
  <2> QED BY <2>5, <2>7 DEF r
<1> QED BY <1>3, <1>4

\* An outage.
LEMMA LoseRelates ==
    ASSUME NEW n \in Nodes, NEW s, Kept(n, s), NEW at \in Nat, ~IsStale(s, at),
           NEW q, After(n, s, at, q), KnownOn(q) => KnownOn(s), NEW lost \in BOOLEAN,
           lost => ~KnownOn(q), n \in InteractionNodes => AllNeutral(q)
    PROVE  LET r == LoseLevel(n, s, q, lost)
           IN  Relates(n, s, r, at, FALSE) /\ InQuiet(n, r)
<1> DEFINE c == CadenceReset(q)
           ended == EndedByOutage(n, s, q, lost)
           status == IF ended THEN "unavailable"
                     ELSE IF HealthWarning(q) /\ KnownOn(q) THEN "asserted" ELSE q.status
           start == IF ended THEN NoTime ELSE q.clearStartedAt
           deadline == IF ended THEN NoTime ELSE q.clearDeadline
           emitted == IF ended THEN FALSE ELSE q.clearEmitted
           r == [c EXCEPT !.status = status, !.clearStartedAt = start, !.clearDeadline = deadline,
                          !.clearEmitted = emitted, !.traversalUntil = NoTime, !.degradedAt = NoTime,
                          !.degradationReason = "none"]
<1>1. /\ Loose(n, q) /\ q \in EpisodeType(n)
      /\ q.status \in {"asserted", "degraded"} <=> s.status \in {"asserted", "degraded"}
      /\ q.status = "clearing" => s.status = "clearing" /\ ~ClearDue(n, s, at)
      /\ ClearDue(n, s, at) => s.status = "clearing"
  BY AfterLoose DEF After
<1>2. /\ c \in EpisodeType(n) /\ SameEpisode(q, c) /\ SameClear(q, c) /\ c.status = q.status
      /\ c.cadenceRunAt = NoTime /\ c.cadenceLastAt = NoTime
  BY <1>1, ResetFields
<1>3. LoseLevel(n, s, q, lost) = r
  BY <1>2 DEF LoseLevel, EpisodeType, SameClear
<1> HIDE DEF c
<1>4. ended => ~KnownOn(q)
  BY TypeFacts DEF EndedByOutage, KnownOn, AllNeutral
<1>5. ~ended => (KnownOn(s) <=> KnownOn(q))
  BY DEF EndedByOutage
<1>6. KnownOn(s) <=> q.status \in {"asserted", "degraded"}
  BY <1>1 DEF Kept, LevelOK
<1>7. /\ status \in Statuses /\ start \in OptTime /\ deadline \in OptTime /\ emitted \in BOOLEAN
      /\ status \in {"asserted", "degraded"} <=> KnownOn(q)
      /\ status = q.status \/ status \in {"unavailable", "asserted"}
      /\ ended => status = "unavailable" /\ ~emitted /\ start = NoTime
      /\ ~ended => start = q.clearStartedAt /\ deadline = q.clearDeadline /\ emitted = q.clearEmitted
      /\ ~ended /\ status # q.status => q.status \in {"asserted", "degraded"} /\ status = "asserted"
  <2> HIDE DEF ended
  <2> QED BY <1>1, <1>4, <1>5, <1>6, TypeFacts DEF EpisodeType
<1> HIDE DEF status, start, deadline, emitted
<1>8. r \in EpisodeType(n)
  BY <1>2, <1>7, TypeFacts, ZenonT(40) DEF EpisodeType
<1>9. /\ SameEpisode(c, r) /\ r.status = status /\ r.clearStartedAt = start
      /\ r.clearDeadline = deadline /\ r.clearEmitted = emitted /\ r.traversalUntil = NoTime
      /\ r.cadenceRunAt = NoTime /\ r.cadenceLastAt = NoTime
  BY <1>2 DEF EpisodeType, SameEpisode
<1> HIDE DEF r, ended
<1>10. r.clearEmitted <=> r.status = "clear"
  BY <1>1, <1>7, <1>9 DEF Loose
<1>11. r.status = "clearing" => /\ r.clearStartedAt # NoTime
                                /\ r.clearDeadline = r.clearStartedAt + Profile[n].clear
                                /\ at < r.clearDeadline
  BY <1>1, <1>7, <1>9 DEF Loose, After
<1>12. r.clearStartedAt # NoTime => r.status = "clearing"
  BY <1>1, <1>7, <1>9 DEF Loose
<1>13. LevelOK(r) /\ (n \in InteractionNodes => AllNeutral(r))
  BY <1>2, <1>7, <1>9 DEF LevelOK, KnownOn, AllNeutral, SameEpisode
<1>14. Open(r) => Open(s) /\ ~ClearDue(n, s, at) /\ s.generation > 0
  BY <1>1, <1>6, <1>7, <1>9 DEF Open, Kept, Loose
<1>15. Follows(n, s, r, at) /\ InQuiet(n, r)
  BY <1>9, TracksReset DEF InQuiet
<1>16. r.lastEventAt <= at /\ r.advancedAt = at /\ r.generation = q.generation
       /\ r.startedAt = q.startedAt /\ r.holdUntil = q.holdUntil
  BY <1>2, <1>9 DEF After, SameEpisode
<1>17. Relates(n, s, r, at, FALSE)
  BY <1>8, <1>9, <1>10, <1>11, <1>12, <1>13, <1>14, <1>15, <1>16, ChangedRelates
<1> QED BY <1>3, <1>15, <1>17

\* An assertion the hardware had not re-armed for.
LEMMA FlapRelates ==
    ASSUME NEW n \in Nodes, NEW s, Kept(n, s), NEW at \in Nat, ~IsStale(s, at),
           NEW q, After(n, s, at, q), ~KnownOn(s), KnownOn(q), n \notin InteractionNodes,
           ContinuesFlap(n, q, at)
    PROVE  LET r == Reassert(n, q, at)
           IN  Relates(n, s, r, at, FALSE) /\ InQuiet(n, r)
<1> DEFINE c == CadenceTouched(q, at)
           status == IF CountDegraded(q) THEN "degraded" ELSE "asserted"
           until == AuthorityAfterFlap(n, q, at)
           reason == IF Impossible(q, at) /\ DiagnosticWarnings THEN "impossible_cadence"
                     ELSE q.cadenceReason
           r == [c EXCEPT !.status = status, !.clearStartedAt = NoTime, !.clearDeadline = NoTime,
                          !.clearEmitted = FALSE, !.traversalUntil = until,
                          !.cadenceReason = reason]
<1>1. /\ Loose(n, q) /\ q \in EpisodeType(n)
      /\ q.status = "clearing" => s.status = "clearing" /\ ~ClearDue(n, s, at)
  BY AfterLoose DEF After
<1>2. /\ c \in EpisodeType(n) /\ SameEpisode(q, c) /\ c.cadenceReason = q.cadenceReason
      /\ c.cadenceRunAt = q.cadenceRunAt
      /\ c.cadenceLastAt = (IF q.cadenceRunAt # NoTime THEN at ELSE NoTime)
  BY <1>1, TouchedFields
<1>3. Reassert(n, q, at) = r
  BY <1>2 DEF Reassert, EpisodeType
<1>4. /\ status \in Statuses /\ status \in {"asserted", "degraded"}
      /\ until \in OptTime /\ until \in {q.traversalUntil, NoTime} /\ reason \in CadenceReasons
  BY <1>1, TypeFacts DEF AuthorityAfterFlap, EpisodeType, CadenceReasons
<1> HIDE DEF c, status, until, reason
<1>5. r \in EpisodeType(n)
  BY <1>2, <1>4, TypeFacts DEF EpisodeType
<1>6. /\ SameEpisode(c, r) /\ r.status = status /\ r.clearStartedAt = NoTime
      /\ r.clearEmitted = FALSE /\ r.traversalUntil = until /\ SameCadence(c, r)
  BY <1>2 DEF EpisodeType, SameEpisode, SameCadence
<1> HIDE DEF r
<1>7. KnownOn(r) /\ LevelOK(r)
  BY <1>2, <1>4, <1>6 DEF LevelOK, KnownOn, SameEpisode
<1>8. /\ r.cadenceRunAt = NoTime <=> r.cadenceLastAt = NoTime
      /\ ~Profile[n].presence => r.cadenceRunAt = NoTime
      /\ r.cadenceRunAt # NoTime => r.cadenceLastAt = at
  BY <1>1, <1>2, <1>6 DEF Loose, SameCadence, NoTime
<1>9. InQuiet(n, r)
  BY <1>2, <1>6, <1>8, ProfileFacts DEF InQuiet, QuietAt, SameEpisode, After
<1>10. Follows(n, s, r, at)
  BY <1>4, <1>6, <1>7, <1>8, TracksEdge
<1>11. s.generation > 0 /\ q.holdUntil = s.startedAt + Profile[n].hold
  BY <1>1 DEF ContinuesFlap, After, Loose
<1>12. ~Open(s) \/ ClearDue(n, s, at) => at < s.startedAt + Profile[n].hold
  BY <1>1, <1>11 DEF ContinuesFlap, Loose, Open
<1>13. /\ r.lastEventAt <= at /\ r.advancedAt = at /\ r.generation = q.generation
       /\ r.startedAt = q.startedAt /\ r.holdUntil = q.holdUntil
  BY <1>2, <1>6 DEF After, SameEpisode
<1>14. r.status \in {"asserted", "degraded"}
  BY <1>4, <1>6
<1>15. Relates(n, s, r, at, FALSE)
  BY <1>4, <1>5, <1>6, <1>7, <1>8, <1>9, <1>10, <1>11, <1>12, <1>13, <1>14, ChangedRelates
<1> QED BY <1>3, <1>9, <1>15

\* A clear edge, or the loss of the last known assertion to an unknown level.
LEMMA ReleaseRelates ==
    ASSUME NEW n \in Nodes, NEW s, Kept(n, s), NEW at \in Nat, ~IsStale(s, at),
           NEW q, After(n, s, at, q), KnownOn(s), ~KnownOn(q), n \notin InteractionNodes
    PROVE  LET r == ReleaseLevel(n, q, at)
           IN  Relates(n, s, r, at, FALSE) /\ InQuiet(n, r)
<1> DEFINE c == CadenceTouched(q, at)
           clear == KnownClear(n, q)
           deadline == at + Profile[n].clear
           r1 == [c EXCEPT !.status = "clearing", !.clearStartedAt = at,
                           !.clearDeadline = deadline]
           r2 == [c EXCEPT !.status = "unavailable", !.clearStartedAt = NoTime,
                           !.clearDeadline = NoTime, !.traversalUntil = NoTime]
           r == ReleaseLevel(n, q, at)
<1>1. /\ Loose(n, q) /\ q \in EpisodeType(n)
      /\ q.status \in {"asserted", "degraded"} <=> s.status \in {"asserted", "degraded"}
      /\ ClearDue(n, s, at) => s.status = "clearing"
  BY AfterLoose DEF After
<1>2. /\ c \in EpisodeType(n) /\ SameEpisode(q, c) /\ SameClear(q, c)
      /\ c.status = q.status /\ c.traversalUntil = q.traversalUntil
      /\ c.cadenceRunAt = q.cadenceRunAt
      /\ c.cadenceLastAt = (IF q.cadenceRunAt # NoTime THEN at ELSE NoTime)
  BY <1>1, TouchedFields
<1>3. r = IF clear THEN r1 ELSE r2
  BY DEF ReleaseLevel
<1>4. deadline \in OptTime /\ at \in OptTime /\ at # NoTime /\ at < deadline
  BY ProfileFacts, TypeFacts DEF NoTime
<1> HIDE DEF c, clear
<1>5. r1 \in EpisodeType(n) /\ r2 \in EpisodeType(n)
  <2> HIDE DEF deadline
  <2> QED BY <1>2, <1>4, TypeFacts DEF EpisodeType
<1>6. /\ SameEpisode(c, r1) /\ r1.status = "clearing" /\ r1.clearStartedAt = at
      /\ r1.clearDeadline = deadline /\ r1.clearEmitted = c.clearEmitted
      /\ r1.traversalUntil = c.traversalUntil /\ SameCadence(c, r1)
  BY <1>2 DEF EpisodeType, SameEpisode, SameCadence
<1>7. /\ SameEpisode(c, r2) /\ r2.status = "unavailable" /\ r2.clearStartedAt = NoTime
      /\ r2.clearEmitted = c.clearEmitted
      /\ r2.traversalUntil = NoTime /\ SameCadence(c, r2)
  BY <1>2 DEF EpisodeType, SameEpisode, SameCadence
<1> HIDE DEF r1, r2, r
<1>8. /\ r \in EpisodeType(n) /\ SameEpisode(c, r) /\ r.status \in {"clearing", "unavailable"}
      /\ r.status = "clearing" => r.clearStartedAt = at /\ r.clearDeadline = deadline
      /\ r.clearStartedAt # NoTime => r.status = "clearing"
      /\ r.clearEmitted = q.clearEmitted /\ r.traversalUntil \in {q.traversalUntil, NoTime}
      /\ SameCadence(c, r)
  BY <1>2, <1>3, <1>5, <1>6, <1>7 DEF SameClear
<1>9. s.status \in {"asserted", "degraded"} /\ s.generation > 0 /\ Open(s) /\ ~ClearDue(n, s, at)
  BY <1>1 DEF Kept, LevelOK, Loose, Open
<1>10. r.clearEmitted <=> r.status = "clear"
  BY <1>1, <1>8, <1>9 DEF Loose
<1>11. ~KnownOn(r) /\ LevelOK(r)
  BY <1>2, <1>8 DEF LevelOK, KnownOn, SameEpisode
<1>12. /\ r.cadenceRunAt = NoTime <=> r.cadenceLastAt = NoTime
       /\ ~Profile[n].presence => r.cadenceRunAt = NoTime
       /\ r.cadenceRunAt # NoTime => r.cadenceLastAt = at
  BY <1>1, <1>2, <1>8 DEF Loose, SameCadence, NoTime
<1>13. InQuiet(n, r)
  BY <1>2, <1>8, <1>12, ProfileFacts DEF InQuiet, QuietAt, SameEpisode, After
<1>14. Follows(n, s, r, at)
  BY <1>8, <1>11, <1>12, TracksEdge
<1>15. /\ r.lastEventAt <= at /\ r.advancedAt = at /\ r.generation = q.generation
       /\ r.startedAt = q.startedAt /\ r.holdUntil = q.holdUntil
  BY <1>2, <1>8 DEF After, SameEpisode
<1>16. r.status = "clearing" => /\ r.clearStartedAt # NoTime
                                /\ r.clearDeadline = r.clearStartedAt + Profile[n].clear
                                /\ at < r.clearDeadline
  BY <1>4, <1>8
<1>17. Relates(n, s, r, at, FALSE)
  BY <1>8, <1>9, <1>10, <1>11, <1>12, <1>13, <1>14, <1>15, <1>16, ChangedRelates
<1> QED BY <1>13, <1>17 DEF r

\* Startup: a node that is off or unknown and does not continue.
LEMMA StartupBaselineRelates ==
    ASSUME NEW n \in Nodes, NEW s, Kept(n, s), NEW at \in Nat, ~IsStale(s, at),
           NEW q, After(n, s, at, q), ~KnownOn(q), n \in InteractionNodes => AllNeutral(q)
    PROVE  LET r == StartupBaseline(q)
           IN  Relates(n, s, r, at, FALSE) /\ InQuiet(n, r)
<1> DEFINE c == CadenceReset(q)
           status == IF AllOff(q) THEN "baseline" ELSE "unavailable"
           r == [c EXCEPT !.status = status, !.clearStartedAt = NoTime, !.clearDeadline = NoTime,
                          !.clearEmitted = FALSE, !.traversalUntil = NoTime,
                          !.degradedAt = NoTime, !.degradationReason = "none"]
<1>1. /\ c \in EpisodeType(n) /\ SameEpisode(q, c)
      /\ c.cadenceRunAt = NoTime /\ c.cadenceLastAt = NoTime
  BY ResetFields DEF After
<1>2. status \in {"baseline", "unavailable"} /\ status \in Statuses
  BY TypeFacts
<1>3. StartupBaseline(q) = r
  BY DEF StartupBaseline
<1> HIDE DEF c, status
<1>4. r \in EpisodeType(n)
  BY <1>1, <1>2, TypeFacts DEF EpisodeType
<1>5. /\ SameEpisode(c, r) /\ r.status = status /\ r.clearStartedAt = NoTime
      /\ r.clearEmitted = FALSE /\ r.traversalUntil = NoTime
      /\ r.cadenceRunAt = NoTime /\ r.cadenceLastAt = NoTime
  BY <1>1 DEF EpisodeType, SameEpisode
<1> HIDE DEF r
<1>6. LevelOK(r) /\ (n \in InteractionNodes => AllNeutral(r)) /\ ~Open(r)
  BY <1>1, <1>2, <1>5 DEF LevelOK, KnownOn, AllNeutral, SameEpisode, Open
<1>7. Follows(n, s, r, at) /\ InQuiet(n, r)
  BY <1>5, TracksReset DEF InQuiet
<1>8. /\ r.lastEventAt <= at /\ r.advancedAt = at /\ r.generation = q.generation
      /\ r.startedAt = q.startedAt /\ r.holdUntil = q.holdUntil
  BY <1>1, <1>5 DEF After, SameEpisode
<1>9. Relates(n, s, r, at, FALSE)
  BY <1>2, <1>4, <1>5, <1>6, <1>7, <1>8, ChangedRelates
<1> QED BY <1>3, <1>7, <1>9

\* What a branch that begins an episode has to leave behind.
LEMMA BegunRelates ==
    ASSUME NEW n \in Nodes, NEW s, Kept(n, s), NEW at \in Nat, ~IsStale(s, at),
           NEW q, After(n, s, at, q), NEW r \in EpisodeType(n),
           r.generation = q.generation + 1, r.startedAt = at,
           r.holdUntil = at + Profile[n].hold, r.lastEventAt <= at, r.advancedAt = at,
           ~r.clearEmitted, Open(r),
           r.status = "clearing" => /\ r.clearStartedAt # NoTime
                                    /\ r.clearDeadline = r.clearStartedAt + Profile[n].clear
                                    /\ at < r.clearDeadline,
           r.clearStartedAt # NoTime => r.status = "clearing",
           r.cadenceRunAt = NoTime <=> r.cadenceLastAt = NoTime,
           ~Profile[n].presence => r.cadenceRunAt = NoTime,
           LevelOK(r), n \in InteractionNodes => AllNeutral(r),
           Follows(n, s, r, at)
    PROVE  Relates(n, s, r, at, TRUE)
<1>1. /\ s.advancedAt <= at /\ q.generation = s.generation /\ s.generation \in Nat
      /\ ClearDue(n, s, at) => s.status = "clearing" /\ s.clearDeadline <= at
  BY AfterLoose DEF After, Kept, Loose, EpisodeType
<1>2. r.status # "clear" /\ r.generation > 0
  BY <1>1 DEF Open
<1>3. Kept(n, r)
  BY <1>2 DEF Kept, Loose
<1>4. ClearDue(n, s, at) => Open(s) /\ s.advancedAt < s.clearDeadline /\ s.clearDeadline <= at
  BY <1>1 DEF Open, Kept, Loose
<1> QED BY <1>1, <1>3, <1>4 DEF Relates

\* A positive that is evidence of its own.
LEMMA StartRelates ==
    ASSUME NEW n \in Nodes, NEW s, Kept(n, s), NEW at \in Nat, ~IsStale(s, at),
           NEW q, After(n, s, at, q), ~KnownOn(s), KnownOn(q), n \notin InteractionNodes,
           NEW correlated \in BOOLEAN
    PROVE  LET r == StartEpisode(n, q, at, correlated)
           IN  Relates(n, s, r, at, TRUE) /\ InQuiet(n, r)
<1> DEFINE linked == Profile[n].cycle > 0
           g == NewGeneration(n, q, at)
           run == IF linked /\ q.cadenceRunAt = NoTime THEN at ELSE q.cadenceRunAt
           last == IF linked THEN at ELSE NoTime
           cycles == NextCycles(n, q, correlated)
           reason == IF linked THEN q.cadenceReason ELSE "none"
           r == [g EXCEPT !.status = "asserted", !.clearStartedAt = NoTime,
                          !.clearDeadline = NoTime,
                          !.cadenceRunAt = run, !.cadenceLastAt = last,
                          !.cadenceCycles = cycles,
                          !.cadenceCorrelated = correlated, !.cadenceReason = reason]
<1>1. Loose(n, q) /\ q \in EpisodeType(n) /\ q.advancedAt = at /\ q.lastEventAt <= at
  BY AfterLoose DEF After
<1>2. /\ g \in EpisodeType(n) /\ g.aliases = q.aliases /\ g.generation = q.generation + 1
      /\ g.startedAt = at /\ g.lastEventAt = q.lastEventAt /\ g.advancedAt = q.advancedAt
      /\ g.holdUntil = at + Profile[n].hold /\ g.clearEmitted = FALSE
      /\ g.cadenceReason = q.cadenceReason /\ SameCadence(q, g)
  <2> HIDE DEF linked, r, run, last, cycles, reason, g
  <2>1. /\ g.generation = q.generation + 1 /\ g.startedAt = at
        /\ g.holdUntil = at + Profile[n].hold /\ g.advancedAt = q.advancedAt
    BY <1>1, BegunFields, ZenonT(40) DEF g
  <2>2. /\ g \in EpisodeType(n) /\ g.aliases = q.aliases /\ g.lastEventAt = q.lastEventAt
        /\ g.cadenceReason = q.cadenceReason /\ SameCadence(q, g)
    BY <1>1, BegunFields, ZenonT(40) DEF g
  <2>3. g.clearEmitted = FALSE
    BY <1>1, BegunFields DEF g
  <2> QED BY <2>1, <2>2, <2>3
<1> HIDE DEF g
<1>3. StartEpisode(n, q, at, correlated) = r
  BY <1>2 DEF StartEpisode, g, EpisodeType, SameCadence
<1>4. cycles \in 0 .. CycleLimit
  BY <1>1, BoundsAssumption DEF NextCycles, EpisodeType
<1>5. run \in OptTime /\ last \in OptTime /\ reason \in CadenceReasons
  BY <1>1, TypeFacts DEF EpisodeType
<1>6. /\ run = NoTime <=> last = NoTime
      /\ ~Profile[n].presence => run = NoTime
      /\ last # NoTime => last = at /\ Profile[n].cycle > 0
  BY <1>1, ProfileFacts DEF Loose, NoTime
<1> HIDE DEF run, last, cycles, reason
<1>7. r \in EpisodeType(n)
  BY <1>2, <1>4, <1>5, TypeFacts, ZenonT(40) DEF EpisodeType
<1>8. /\ r.aliases = g.aliases /\ r.generation = g.generation /\ r.startedAt = g.startedAt
      /\ r.lastEventAt = g.lastEventAt /\ r.advancedAt = g.advancedAt
      /\ r.holdUntil = g.holdUntil /\ r.clearEmitted = g.clearEmitted
      /\ r.status = "asserted" /\ r.clearStartedAt = NoTime
      /\ r.cadenceRunAt = run /\ r.cadenceLastAt = last
  BY <1>2 DEF EpisodeType
<1> HIDE DEF r
<1>9. KnownOn(r) /\ LevelOK(r) /\ Open(r)
  BY <1>2, <1>8 DEF LevelOK, KnownOn, Open
<1>10. InQuiet(n, r)
  BY <1>1, <1>2, <1>6, <1>8, ProfileFacts DEF InQuiet, QuietAt
<1>11. Follows(n, s, r, at)
  BY <1>6, <1>8, <1>9, TracksEdge
<1>12. Relates(n, s, r, at, TRUE)
  BY <1>1, <1>2, <1>6, <1>7, <1>8, <1>9, <1>11, BegunRelates
<1> QED BY <1>3, <1>10, <1>12

\* A pressed interaction entity.
LEMMA PressRelates ==
    ASSUME NEW n \in Nodes, NEW s, Kept(n, s), NEW at \in Nat, ~IsStale(s, at),
           NEW q, After(n, s, at, q), q.aliases = s.aliases, n \in InteractionNodes
    PROVE  LET r == [Pulse(n, q, at) EXCEPT !.lastEventAt = at]
           IN  Relates(n, s, r, at, TRUE) /\ InQuiet(n, r)
<1> DEFINE g == NewGeneration(n, q, at)
           c == CadenceReset(g)
           deadline == at + Profile[n].clear
           p == [c EXCEPT !.status = "clearing", !.clearStartedAt = at, !.clearDeadline = deadline]
           r == [p EXCEPT !.lastEventAt = at]
<1>1. Loose(n, q) /\ q \in EpisodeType(n) /\ q.advancedAt = at
  BY AfterLoose DEF After
<1>2. /\ g \in EpisodeType(n) /\ g.aliases = q.aliases /\ g.generation = q.generation + 1
      /\ g.startedAt = at /\ g.advancedAt = q.advancedAt
      /\ g.holdUntil = at + Profile[n].hold /\ g.clearEmitted = FALSE
  BY <1>1, BegunFields
<1> HIDE DEF g
<1>3. /\ c \in EpisodeType(n) /\ SameEpisode(g, c) /\ SameClear(g, c)
      /\ c.cadenceRunAt = NoTime /\ c.cadenceLastAt = NoTime
  BY <1>2, ResetFields
<1> HIDE DEF c
<1>4. Pulse(n, q, at) = p
  BY DEF Pulse, c, g
<1>5. deadline \in OptTime /\ at \in OptTime /\ at # NoTime /\ at < deadline
  BY ProfileFacts, TypeFacts DEF NoTime
<1>6. /\ p \in EpisodeType(n) /\ SameEpisode(c, p) /\ p.status = "clearing"
      /\ p.clearStartedAt = at /\ p.clearDeadline = deadline /\ p.clearEmitted = c.clearEmitted
      /\ SameCadence(c, p)
  <2> HIDE DEF deadline
  <2> QED BY <1>3, <1>5, TypeFacts DEF EpisodeType, SameEpisode, SameCadence
<1> HIDE DEF p
<1>7. /\ r \in EpisodeType(n) /\ r.aliases = p.aliases /\ r.generation = p.generation
      /\ r.startedAt = p.startedAt /\ r.advancedAt = p.advancedAt /\ r.holdUntil = p.holdUntil
      /\ r.lastEventAt = at /\ r.status = p.status /\ SameClear(p, r) /\ SameCadence(p, r)
  BY <1>5, <1>6 DEF EpisodeType, SameClear, SameCadence
<1> HIDE DEF r
<1>8. /\ r.aliases = s.aliases /\ r.status = "clearing" /\ r.clearStartedAt = at
      /\ r.clearDeadline = deadline /\ ~r.clearEmitted
      /\ r.cadenceRunAt = NoTime /\ r.cadenceLastAt = NoTime
      /\ r.generation = q.generation + 1 /\ r.startedAt = at /\ r.advancedAt = at
      /\ r.holdUntil = at + Profile[n].hold
  BY <1>1, <1>2, <1>3, <1>6, <1>7 DEF SameEpisode, SameClear, SameCadence
<1>9. AllNeutral(r) /\ ~KnownOn(r) /\ LevelOK(r) /\ Open(r)
  BY <1>8, TypeFacts DEF Kept, LevelOK, KnownOn, AllNeutral, Open
<1>10. Follows(n, s, r, at) /\ InQuiet(n, r)
  BY <1>8, TracksReset DEF InQuiet
<1>11. /\ r.clearDeadline = r.clearStartedAt + Profile[n].clear /\ at < r.clearDeadline
       /\ r.clearStartedAt # NoTime /\ r.lastEventAt <= at /\ r \in EpisodeType(n)
  BY <1>5, <1>7, <1>8
<1>12. Relates(n, s, r, at, TRUE)
  <2> HIDE DEF deadline
  <2> QED BY <1>8, <1>9, <1>10, <1>11, BegunRelates, Zenon
<1> QED BY <1>4, <1>10, <1>12 DEF r, deadline

\* A count conflict, applied or recovered: the frontier moves, no deadline is due.
LEMMA ConflictRelates ==
    ASSUME NEW n \in Nodes, NEW s, Kept(n, s), NEW at \in Nat, ~IsStale(s, at),
           s.status \in {"asserted", "degraded"}, NEW status \in {"asserted", "degraded"},
           NEW until \in {s.traversalUntil, NoTime}, NEW since \in OptTime,
           NEW reason \in HealthReasons
    PROVE  Relates(n, s, [s EXCEPT !.status = status, !.advancedAt = at, !.traversalUntil = until,
                                   !.degradedAt = since, !.degradationReason = reason], at, FALSE)
<1> DEFINE r == [s EXCEPT !.status = status, !.advancedAt = at, !.traversalUntil = until,
                          !.degradedAt = since, !.degradationReason = reason]
<1>1. /\ s \in EpisodeType(n) /\ at \in OptTime /\ status \in Statuses /\ until \in OptTime
      /\ s.advancedAt <= at /\ s.lastEventAt <= at /\ s.startedAt <= at
  BY TypeFacts DEF Kept, Loose, EpisodeType, IsStale
<1>2. r \in EpisodeType(n)
  BY <1>1 DEF EpisodeType
<1>3. /\ r.aliases = s.aliases /\ r.generation = s.generation /\ r.startedAt = s.startedAt
      /\ r.lastEventAt = s.lastEventAt /\ r.holdUntil = s.holdUntil /\ r.advancedAt = at
      /\ r.status = status /\ r.traversalUntil = until /\ SameClear(s, r) /\ SameCadence(s, r)
  BY <1>1 DEF EpisodeType, SameClear, SameCadence
<1> HIDE DEF r
<1>4. KnownOn(r) <=> KnownOn(s)
  BY <1>3 DEF KnownOn
<1>5. Open(s) /\ Open(r) /\ ~ClearDue(n, s, at)
  BY <1>3 DEF Open, ClearDue
<1>6. Kept(n, r)
  BY <1>1, <1>2, <1>3, <1>4, <1>5
  DEF Kept, Loose, LevelOK, AllNeutral, SameClear, SameCadence
<1>7. Follows(n, s, r, at)
  BY <1>3, <1>4 DEF Follows, Tracks, SameCadence
<1> QED BY <1>1, <1>3, <1>5, <1>6, <1>7 DEF Relates, r

\* Startup: an alias map read at the time of the call.
LEMMA StartupAfter ==
    ASSUME NEW n \in Nodes, NEW s, Kept(n, s), NEW at \in Nat, ~IsStale(s, at),
           NEW al \in StartupLevels(n)
    PROVE  LET q == StartupRead(n, s, al, at)
           IN  After(n, s, at, q) /\ q.aliases = al
<1> DEFINE d == Advanced(n, s, at)
           le == IF al # s.aliases THEN at ELSE d.lastEventAt
<1>1. After(n, s, at, d) /\ s \in EpisodeType(n)
  BY AdvancedFields DEF Kept, Loose
<1>2. StartupRead(n, s, al, at) = ReadLevels(d, al, le)
  BY <1>1 DEF StartupRead, ReadLevels, After, EpisodeType
<1>3. al \in [Aliases[n] -> Levels]
  BY DEF StartupLevels, Levels
<1>4. le \in OptTime /\ le <= at
  BY <1>1, TypeFacts DEF After, EpisodeType
<1> HIDE DEF d, le
<1> QED BY <1>1, <1>2, <1>3, <1>4, AfterRead

LEMMA ReconciledRelates ==
    ASSUME NEW n \in Nodes, NEW s, Kept(n, s), NEW at \in Nat, ~IsStale(s, at),
           NEW al \in StartupLevels(n)
    PROVE  LET q == StartupRead(n, s, al, at)
               r == Reconciled(n, s, al, at)
           IN  /\ ~StartupContinues(Advanced(n, s, at), al) /\ KnownOn(q)
                  => Relates(n, s, r, at, TRUE)
               /\ StartupContinues(Advanced(n, s, at), al) \/ ~KnownOn(q)
                  => Relates(n, s, r, at, FALSE)
               /\ InQuiet(n, r)
<1> DEFINE d == Advanced(n, s, at)
           q == StartupRead(n, s, al, at)
           r == Reconciled(n, s, al, at)
           continues == StartupContinues(d, al)
<1>1. After(n, s, at, d) /\ d.aliases = s.aliases /\ s \in EpisodeType(n)
  BY AdvancedFields DEF Kept, Loose
<1>2. /\ continues => r = q
      /\ ~continues /\ KnownOn(q) => r = StartEpisode(n, q, at, FALSE)
      /\ ~continues /\ ~KnownOn(q) => r = StartupBaseline(q)
  BY DEF Reconciled
<1> HIDE DEF d, q, r
<1>3. After(n, s, at, q) /\ q.aliases = al
  BY StartupAfter DEF q
<1>4. n \in InteractionNodes => ~KnownOn(q) /\ AllNeutral(q)
  BY <1>3, TypeFacts DEF StartupLevels, KnownOn, AllNeutral
<1>5. [d EXCEPT !.aliases = al].aliases = al
  BY <1>1 DEF After, EpisodeType
<1>6. KnownOn(q) /\ KnownOn(s) => continues
  BY <1>1, <1>3, <1>5 DEF StartupContinues, KnownOn
<1>7. continues => (KnownOn(q) <=> KnownOn(s))
  <2>1. \E a \in Aliases[n] : TRUE
    BY NodesAssumption
  <2>2. DOMAIN al = Aliases[n] /\ DOMAIN s.aliases = Aliases[n]
    BY <1>1 DEF StartupLevels, EpisodeType
  <2> QED BY <1>1, <1>3, <1>5, <2>1, <2>2 DEF StartupContinues, KnownOn, AllOff
<1>8. CASE continues
  BY <1>2, <1>3, <1>4, <1>7, <1>8, FollowRelates DEF d, q, r
<1>9. CASE ~continues /\ KnownOn(q)
  <2>1. Relates(n, s, StartEpisode(n, q, at, FALSE), at, TRUE)
        /\ InQuiet(n, StartEpisode(n, q, at, FALSE))
    <3>1. \A c \in BOOLEAN : Relates(n, s, StartEpisode(n, q, at, c), at, TRUE)
                             /\ InQuiet(n, StartEpisode(n, q, at, c))
      BY <1>3, <1>4, <1>6, <1>9, StartRelates
    <3> QED BY <3>1
  <2> QED BY <1>2, <1>9, <2>1 DEF d, q, r
<1>10. CASE ~continues /\ ~KnownOn(q)
  <2>1. Relates(n, s, StartupBaseline(q), at, FALSE) /\ InQuiet(n, StartupBaseline(q))
    BY <1>3, <1>4, <1>10, StartupBaselineRelates
  <2> QED BY <1>2, <1>10, <2>1 DEF d, q, r
<1> QED BY <1>8, <1>9, <1>10

-----------------------------------------------------------------------------
(* Facts. *)

BeginKinds == {"positive", "correlated_positive", "interaction"}
SilentKinds == EffectKinds \ EvidenceKinds
ClearFact(s) == Fact(s, "stable_clear", s.clearDeadline, "none")

\* The positive closes a cycle: after the stable clear, inside the quiet window.
Linked(n, s, at) ==
    (s.status = "clear" \/ ClearDue(n, s, at)) /\ s.cadenceRunAt # NoTime /\ ~QuietDue(n, s, at)

\* What a call returns about node n.
Reports(n, s, at, facts, begun) ==
    /\ \A f \in facts : f.kind = "stable_clear" => f = ClearFact(s) /\ ClearDue(n, s, at)
    /\ begun => \E b \in facts : /\ b.kind \in BeginKinds /\ b.generation = s.generation + 1
                                 /\ b.at = at
                                 /\ b.kind = "correlated_positive" => Linked(n, s, at)
                                 /\ \A f \in facts : f.kind \in BeginKinds => f = b
    /\ ~begun => \A f \in facts : f.kind \notin BeginKinds

LEMMA SilentFacts ==
    ASSUME NEW s, NEW at
    PROVE  \A f \in CadenceCleared(s, at) \cup HealthRecovered(s, at) \cup ReassertFacts(s, at) :
              f.kind \in SilentKinds
BY DEF CadenceCleared, HealthRecovered, ReassertFacts, Fact, SilentKinds, EffectKinds, EvidenceKinds

LEMMA DeadlineFacts ==
    ASSUME NEW n, NEW s, NEW at
    PROVE  \A f \in AdvanceFacts(n, s, at) :
              f.kind \in SilentKinds \/ (f = ClearFact(s) /\ ClearDue(n, s, at))
<1>1. \A f \in CadenceCleared(SustainedWarned(n, s, at), QuietAt(n, s))
               \cup CadenceCleared(s, s.clearDeadline) \cup HealthRecovered(s, s.clearDeadline) :
         f.kind \in SilentKinds
  BY SilentFacts
<1>2. /\ Fact(s, "sustained_flapping", SustainedAt(n, s), "sustained_flapping").kind \in SilentKinds
      /\ Fact(s, "health_degraded", s.trustUntil, "assertion_timeout").kind \in SilentKinds
  BY DEF Fact, SilentKinds, EffectKinds, EvidenceKinds
<1>3. SUFFICES ASSUME NEW f \in AdvanceFacts(n, s, at)
               PROVE  f.kind \in SilentKinds \/ (f = ClearFact(s) /\ ClearDue(n, s, at))
  OBVIOUS
<1>4. \/ f = Fact(s, "sustained_flapping", SustainedAt(n, s), "sustained_flapping")
      \/ f = Fact(s, "health_degraded", s.trustUntil, "assertion_timeout")
      \/ f = ClearFact(s) /\ ClearDue(n, s, at)
      \/ f \in CadenceCleared(SustainedWarned(n, s, at), QuietAt(n, s))
      \/ f \in CadenceCleared(s, s.clearDeadline)
      \/ f \in HealthRecovered(s, s.clearDeadline)
  BY Zenon DEF AdvanceFacts, ClearFact
<1> QED BY <1>1, <1>2, <1>4

LEMMA Kinds ==
    /\ \A k \in SilentKinds : k # "stable_clear" /\ k \notin BeginKinds
    /\ \A k \in BeginKinds : k # "stable_clear"
    /\ \A s : ClearFact(s).kind = "stable_clear"
    /\ EvidenceKinds = BeginKinds \cup {"stable_clear"}
BY DEF SilentKinds, EvidenceKinds, BeginKinds, ClearFact, Fact

LEMMA QuietReports ==
    ASSUME NEW n, NEW s, NEW at, NEW more, \A f \in more : f.kind \in SilentKinds
    PROVE  /\ Reports(n, s, at, AdvanceFacts(n, s, at) \cup more, FALSE)
           /\ Reports(n, s, at, more, FALSE)
BY DeadlineFacts, Kinds DEF Reports

LEMMA BeginReports ==
    ASSUME NEW n, NEW s, NEW at, NEW more, \A f \in more : f.kind \in SilentKinds,
           NEW b, b.kind \in BeginKinds, b.generation = s.generation + 1, b.at = at,
           b.kind = "correlated_positive" => Linked(n, s, at)
    PROVE  Reports(n, s, at, AdvanceFacts(n, s, at) \cup more \cup {b}, TRUE)
BY DeadlineFacts, Kinds DEF Reports

\* The begin fact of an assertion; q is the record once the deadlines are applied.
LEMMA StartReports ==
    ASSUME NEW n \in Nodes, NEW s, NEW at \in Nat, NEW q \in EpisodeType(n),
           q.generation = s.generation,
           NEW correlated \in BOOLEAN, correlated => Linked(n, s, at)
    PROVE  Reports(n, s, at, AdvanceFacts(n, s, at) \cup StartFacts(n, q, at, correlated), TRUE)
<1> DEFINE g == NewGeneration(n, q, at)
           b == Fact(g, IF correlated THEN "correlated_positive" ELSE "positive", at, "none")
           more == {Fact(g, h.kind, at, h.reason) : h \in HealthRecovered(q, at)}
                   \cup (IF Profile[n].cycle = 0 THEN CadenceCleared(q, at) ELSE {})
<1>1. g.generation = s.generation + 1
  <2> HIDE DEF g, b, more
  <2>1. g.generation = q.generation + 1
    BY BegunFields DEF g
  <2> QED BY <2>1
<1>2. StartFacts(n, q, at, correlated) = more \cup {b}
  BY Zenon DEF StartFacts
<1> HIDE DEF g
<1>3. \A f \in more : f.kind \in SilentKinds
  <2>1. \A h \in HealthRecovered(q, at) \cup CadenceCleared(q, at) : h.kind \in SilentKinds
    BY SilentFacts
  <2> QED BY <2>1 DEF Fact
<1>4. /\ b.kind \in BeginKinds /\ b.generation = s.generation + 1 /\ b.at = at
      /\ b.kind = "correlated_positive" => Linked(n, s, at)
  BY <1>1 DEF Fact, BeginKinds
<1> HIDE DEF more, b
<1>5. AdvanceFacts(n, s, at) \cup StartFacts(n, q, at, correlated)
         = AdvanceFacts(n, s, at) \cup more \cup {b}
  BY <1>2
<1> QED BY <1>3, <1>4, <1>5, BeginReports

-----------------------------------------------------------------------------
(* Steps. *)

AllKept == DOMAIN ep = Nodes /\ \A n \in Nodes : Kept(n, ep[n])

\* The count conflicts move the frontier past a cadence deadline.
MayOverrun(n) == CountPressure /\ Profile[n].stay /\ Profile[n].presence

\* What a step at time at makes of node n.
Moved(n, at) ==
    \/ ep'[n] = ep[n] /\ effects'[n] = {}
    \/ \E begun \in BOOLEAN :
          /\ Relates(n, ep[n], ep'[n], at, begun)
          /\ Reports(n, ep[n], at, effects'[n], begun)
          /\ InQuiet(n, ep'[n]) \/ MayOverrun(n)

AllMoved(at) == DOMAIN ep' = Nodes /\ \A n \in Nodes : Moved(n, at)

LEMMA UpdateMoves ==
    ASSUME AllKept, NEW n \in Nodes, NEW at \in Nat, NEW r, NEW facts, NEW begun \in BOOLEAN,
           Update(n, r, facts), Relates(n, ep[n], r, at, begun),
           Reports(n, ep[n], at, facts, begun), InQuiet(n, r) \/ MayOverrun(n)
    PROVE  AllMoved(at)
<1>1. /\ DOMAIN ep' = Nodes
      /\ \A m \in Nodes : ep'[m] = IF m = n THEN r ELSE ep[m]
      /\ \A m \in Nodes : effects'[m] = IF m = n THEN facts ELSE {}
  BY DEF Update, AllKept
<1>2. ASSUME NEW m \in Nodes PROVE Moved(m, at)
  <2>1. CASE m = n
    <3>1. ep'[n] = r /\ effects'[n] = facts
      BY <1>1
    <3> QED BY <2>1, <3>1 DEF Moved
  <2>2. CASE m # n
    BY <1>1, <2>2 DEF Moved
  <2> QED BY <2>1, <2>2
<1> QED BY <1>1, <1>2 DEF AllMoved

LEMMA ObservedAfter ==
    ASSUME NEW n \in Nodes, Kept(n, ep[n]), NEW a \in Aliases[n], NEW level \in Levels,
           NEW at \in Nat, ~IsStale(ep[n], at)
    PROVE  LET q == Observed(n, a, level, at)
           IN  After(n, ep[n], at, q) /\ q.aliases = [ep[n].aliases EXCEPT ![a] = level]
<1> DEFINE s == Advanced(n, ep[n], at)
           al == [ep[n].aliases EXCEPT ![a] = level]
           q == ReadLevels(s, al, at)
<1>1. After(n, ep[n], at, s) /\ s.aliases = ep[n].aliases
  BY AdvancedFields DEF Kept, Loose
<1> HIDE DEF s
<1>2. al \in [Aliases[n] -> Levels]
  BY DEF Kept, Loose, EpisodeType
<1>3. Observed(n, a, level, at) = q
  BY <1>1 DEF Observed, s, After, EpisodeType, ReadLevels
<1> HIDE DEF al
<1>4. at \in OptTime /\ at <= at /\ ep[n] \in EpisodeType(n)
  BY TypeFacts DEF Kept, Loose
<1>5. After(n, ep[n], at, q) /\ q.aliases = al
  BY <1>1, <1>2, <1>4, AfterRead
<1> QED BY <1>3, <1>5 DEF al

LEMMA PressMoves ==
    ASSUME AllKept, NEW n \in Nodes, NEW at \in Nat, Press(n, at)
    PROVE  AllMoved(at)
<1> DEFINE q == Advanced(n, ep[n], at)
           g == NewGeneration(n, q, at)
           b == Fact(g, "interaction", at, "none")
           r == [Pulse(n, q, at) EXCEPT !.lastEventAt = at]
           facts == AdvanceFacts(n, ep[n], at) \cup {b}
<1>1. /\ Kept(n, ep[n]) /\ ep[n] \in EpisodeType(n) /\ n \in InteractionNodes
      /\ ~IsStale(ep[n], at) /\ Update(n, r, facts)
  BY DEF AllKept, Kept, Loose, Press
<1>2. After(n, ep[n], at, q) /\ q.aliases = ep[n].aliases
  BY <1>1, AdvancedFields
<1> HIDE DEF q
<1>3. Relates(n, ep[n], r, at, TRUE) /\ InQuiet(n, r)
  BY <1>1, <1>2, PressRelates
<1>4. g.generation = ep[n].generation + 1
  <2> HIDE DEF g, b, r, facts
  <2>1. g.generation = q.generation + 1
    BY <1>2, BegunFields DEF After, g
  <2> QED BY <1>2, <2>1 DEF After
<1> HIDE DEF g
<1>5. b.kind = "interaction" /\ b.generation = ep[n].generation + 1 /\ b.at = at
  BY <1>4 DEF Fact
<1> HIDE DEF b, r
<1>6. Reports(n, ep[n], at, AdvanceFacts(n, ep[n], at) \cup {} \cup {b}, TRUE)
  <2>1. b.kind \in BeginKinds /\ b.kind # "correlated_positive"
    BY <1>5 DEF BeginKinds
  <2> QED BY <1>5, <2>1, BeginReports
<1>7. AdvanceFacts(n, ep[n], at) \cup {} \cup {b} = facts
  OBVIOUS
<1> HIDE DEF facts
<1> QED BY <1>1, <1>3, <1>6, <1>7, UpdateMoves

LEMMA UnavailableMoves ==
    ASSUME AllKept, NEW n \in Nodes, NEW at \in Nat, NEW a \in Aliases[n], NEW level \in Neutral,
           ObserveUnavailable(n, a, level, at)
    PROVE  AllMoved(at)
<1> DEFINE q == Observed(n, a, level, at)
           lost == InteractionLost(n, level)
           r == LoseLevel(n, ep[n], q, lost)
           more == CadenceCleared(q, at) \cup HealthRecovered(q, at)
           facts == AdvanceFacts(n, ep[n], at) \cup CadenceCleared(q, at) \cup HealthRecovered(q, at)
<1>1. /\ Kept(n, ep[n]) /\ ep[n] \in EpisodeType(n)
      /\ ~IsStale(ep[n], at) /\ Update(n, r, facts)
  BY DEF AllKept, Kept, Loose, ObserveUnavailable, Accepts
<1>2. level \in Levels /\ level # "on"
  BY TypeFacts DEF Levels
<1>3. After(n, ep[n], at, q) /\ q.aliases = [ep[n].aliases EXCEPT ![a] = level]
  BY <1>1, <1>2, ObservedAfter
<1> HIDE DEF q
<1>4. KnownOn(q) => KnownOn(ep[n])
  BY <1>1, <1>2, <1>3 DEF KnownOn, EpisodeType
<1>5. n \in InteractionNodes => AllNeutral(q) /\ ~KnownOn(q)
  BY <1>1, <1>3, TypeFacts DEF Kept, EpisodeType, AllNeutral, KnownOn
<1>6. lost \in BOOLEAN /\ (lost => ~KnownOn(q))
  BY <1>5 DEF InteractionLost
<1> HIDE DEF lost
<1>7. Relates(n, ep[n], r, at, FALSE) /\ InQuiet(n, r)
  BY <1>1, <1>3, <1>4, <1>5, <1>6, LoseRelates
<1>8. \A f \in more : f.kind \in SilentKinds
  BY SilentFacts
<1>9. AdvanceFacts(n, ep[n], at) \cup more = facts
  OBVIOUS
<1> HIDE DEF more, facts, r
<1>10. Reports(n, ep[n], at, facts, FALSE)
  BY <1>8, <1>9, QuietReports
<1> QED BY <1>1, <1>7, <1>10, UpdateMoves

\* The sensor edges; AcceptsLevel excludes interaction nodes.
LEMMA EdgeMoves ==
    ASSUME AllKept, NEW n \in Nodes, NEW at \in Nat, NEW a \in Aliases[n],
           \/ \E level \in {"on", "off"} : AliasEdge(n, a, level, at)
           \/ FlapOn(n, a, at) \/ StartOn(n, a, at)
           \/ ClearEdge(n, a, at) \/ BaselineOff(n, a, at)
    PROVE  AllMoved(at)
<1> DEFINE facts == AdvanceFacts(n, ep[n], at)
           q(level) == Observed(n, a, level, at)
<1>1. /\ n \notin InteractionNodes /\ ~IsStale(ep[n], at)
      /\ Kept(n, ep[n]) /\ ep[n] \in EpisodeType(n)
  BY DEF AllKept, Kept, Loose, AliasEdge, FlapOn, StartOn, ClearEdge, BaselineOff, AcceptsLevel, Accepts
<1>2. ASSUME NEW level \in {"on", "off"}
      PROVE  After(n, ep[n], at, q(level)) /\ q(level).aliases = [ep[n].aliases EXCEPT ![a] = level]
  <2>1. level \in Levels
    BY DEF Levels
  <2> QED BY <2>1, <1>1, ObservedAfter
<1>3. KnownOn(q("on"))
  BY <1>1, <1>2 DEF KnownOn, EpisodeType
<1>4. ~KnownOn(ep[n]) => ~KnownOn(q("off"))
  BY <1>1, <1>2 DEF KnownOn, EpisodeType
<1>5. Reports(n, ep[n], at, facts, FALSE)
  <2>1. Reports(n, ep[n], at, facts \cup {}, FALSE)
    BY QuietReports
  <2>2. facts \cup {} = facts
    OBVIOUS
  <2> QED BY <2>1, <2>2
<1> HIDE DEF q
<1>6. ASSUME NEW level \in {"on", "off"}, AliasEdge(n, a, level, at)
      PROVE  AllMoved(at)
  <2>1. KnownOn(ep[n]) /\ KnownOn(q(level)) /\ Update(n, q(level), facts)
    BY <1>6 DEF AliasEdge, q
  <2>2. Relates(n, ep[n], q(level), at, FALSE) /\ InQuiet(n, q(level))
    BY <1>1, <1>2, <2>1, FollowRelates
  <2> HIDE DEF facts
  <2> QED BY <1>5, <2>1, <2>2, UpdateMoves
<1>7. CASE FlapOn(n, a, at)
  <2> DEFINE r == Reassert(n, q("on"), at)
             flap == ReassertFacts(q("on"), at)
  <2>1. ~KnownOn(ep[n]) /\ ContinuesFlap(n, q("on"), at) /\ Update(n, r, facts \cup flap)
    BY <1>7 DEF FlapOn, q
  <2>2. Relates(n, ep[n], r, at, FALSE) /\ InQuiet(n, r)
    BY <1>1, <1>2, <1>3, <2>1, FlapRelates
  <2>3. Reports(n, ep[n], at, facts \cup flap, FALSE)
    <3>1. \A f \in flap : f.kind \in SilentKinds
      BY SilentFacts
    <3> HIDE DEF flap
    <3> QED BY <3>1, QuietReports
  <2> HIDE DEF r, flap, facts
  <2> QED BY <2>1, <2>2, <2>3, UpdateMoves
<1>8. CASE StartOn(n, a, at)
  <2> DEFINE c == LinksCycle(n, q("on"), at)
             r == StartEpisode(n, q("on"), at, c)
             start == StartFacts(n, q("on"), at, c)
  <2>1. ~KnownOn(ep[n]) /\ Update(n, r, facts \cup start)
    BY <1>8 DEF StartOn, q
  <2>2. c \in BOOLEAN /\ (c => Linked(n, ep[n], at))
    BY <1>2 DEF LinksCycle, Linked, After
  <2>3. q("on") \in EpisodeType(n) /\ q("on").generation = ep[n].generation
    BY <1>2 DEF After
  <2> HIDE DEF c
  <2>4. Relates(n, ep[n], r, at, TRUE) /\ InQuiet(n, r)
    BY <1>1, <1>2, <1>3, <2>1, <2>2, StartRelates
  <2>5. Reports(n, ep[n], at, facts \cup start, TRUE)
    BY <2>2, <2>3, StartReports
  <2> HIDE DEF r, start, facts
  <2> QED BY <2>1, <2>4, <2>5, UpdateMoves
<1>9. CASE ClearEdge(n, a, at)
  <2> DEFINE r == ReleaseLevel(n, q("off"), at)
  <2>1. KnownOn(ep[n]) /\ ~KnownOn(q("off")) /\ Update(n, r, facts)
    BY <1>9 DEF ClearEdge, q
  <2>2. Relates(n, ep[n], r, at, FALSE) /\ InQuiet(n, r)
    BY <1>1, <1>2, <2>1, ReleaseRelates
  <2> HIDE DEF r, facts
  <2> QED BY <1>5, <2>1, <2>2, UpdateMoves
<1>10. CASE BaselineOff(n, a, at)
  <2> DEFINE s == q("off")
             r == [s EXCEPT !.status = IF @ = "unavailable" THEN "baseline" ELSE @]
  <2>1. ~KnownOn(ep[n]) /\ Update(n, r, facts)
    BY <1>10 DEF BaselineOff, q
  <2>2. Relates(n, ep[n], r, at, FALSE) /\ InQuiet(n, r)
    BY <1>1, <1>2, <1>4, <2>1, BaselineRelates
  <2> HIDE DEF r, facts
  <2> QED BY <1>5, <2>1, <2>2, UpdateMoves
<1> QED BY <1>6, <1>7, <1>8, <1>9, <1>10

LEMMA ConflictMoves ==
    ASSUME AllKept, NEW n \in Nodes, NEW at \in Nat,
           ApplyCountConflict(n, at) \/ RecoverCountConflict(n, at)
    PROVE  AllMoved(at)
<1>1. /\ Kept(n, ep[n]) /\ ep[n] \in EpisodeType(n) /\ ~IsStale(ep[n], at)
      /\ ep[n].status \in {"asserted", "degraded"} /\ CountPressure /\ Profile[n].stay
  BY DEF AllKept, Kept, Loose, ApplyCountConflict, RecoverCountConflict
<1>2. /\ at \in OptTime /\ NoTime \in OptTime /\ {"none", "count_conflict"} \subseteq HealthReasons
      /\ ep[n].traversalUntil \in {ep[n].traversalUntil, NoTime}
  BY TypeFacts DEF HealthReasons
<1>3. ASSUME NEW r, Relates(n, ep[n], r, at, FALSE),
             NEW kind \in {"health_degraded", "health_recovered"},
             Update(n, r, {Fact(ep[n], kind, at, "count_conflict")})
      PROVE  AllMoved(at)
  <2> DEFINE facts == {Fact(ep[n], kind, at, "count_conflict")}
  <2>1. \A f \in facts : f.kind \in SilentKinds
    BY DEF Fact, SilentKinds, EffectKinds, EvidenceKinds
  <2> HIDE DEF facts
  <2>2. Reports(n, ep[n], at, facts, FALSE)
    BY <2>1, QuietReports
  <2>3. InQuiet(n, r) \/ MayOverrun(n)
    BY <1>1, <1>3 DEF MayOverrun, Relates, Kept, Loose, InQuiet
  <2>4. Update(n, r, facts)
    BY <1>3 DEF facts
  <2> QED BY <1>3, <2>2, <2>3, <2>4, UpdateMoves
<1>4. CASE ApplyCountConflict(n, at)
  <2> DEFINE r == [ep[n] EXCEPT !.status = "degraded", !.advancedAt = at,
                                !.traversalUntil = NoTime, !.degradedAt = at,
                                !.degradationReason = "count_conflict"]
  <2>1. Update(n, r, {Fact(ep[n], "health_degraded", at, "count_conflict")})
    BY <1>4 DEF ApplyCountConflict
  <2>2. Relates(n, ep[n], r, at, FALSE)
    BY <1>1, <1>2, ConflictRelates
  <2> HIDE DEF r
  <2> QED BY <1>3, <2>1, <2>2
<1>5. CASE RecoverCountConflict(n, at)
  <2> DEFINE u == ep[n].traversalUntil
             r == [ep[n] EXCEPT !.status = "asserted", !.advancedAt = at, !.traversalUntil = u,
                                !.degradedAt = NoTime, !.degradationReason = "none"]
  <2>1. [ep[n] EXCEPT !.status = "asserted", !.advancedAt = at,
                      !.degradedAt = NoTime, !.degradationReason = "none"] = r
    BY <1>1 DEF EpisodeType
  <2>2. Update(n, r, {Fact(ep[n], "health_recovered", at, "count_conflict")})
    BY <1>5, <2>1 DEF RecoverCountConflict
  <2>3. Relates(n, ep[n], r, at, FALSE)
    BY <1>1, <1>2, ConflictRelates
  <2> HIDE DEF r
  <2> QED BY <1>3, <2>2, <2>3
<1> QED BY <1>4, <1>5

\* A call that touches every node.
LEMMA NodeMoves ==
    ASSUME NEW n \in Nodes, NEW at \in Nat, NEW begun \in BOOLEAN,
           Relates(n, ep[n], ep'[n], at, begun), Reports(n, ep[n], at, effects'[n], begun),
           InQuiet(n, ep'[n])
    PROVE  Moved(n, at)
BY DEF Moved

LEMMA AdvanceMoves ==
    ASSUME AllKept, NEW at \in Nat, Advance(at)
    PROVE  AllMoved(at)
<1>1. /\ DOMAIN ep' = Nodes
      /\ \A n \in Nodes : ep'[n] = IF Advances(n, at) THEN Advanced(n, ep[n], at) ELSE ep[n]
      /\ \A n \in Nodes : effects'[n] = IF Advances(n, at) THEN AdvanceFacts(n, ep[n], at) ELSE {}
  BY DEF Advance
<1>2. ASSUME NEW n \in Nodes PROVE Moved(n, at)
  <2>1. CASE ~Advances(n, at)
    BY <1>1, <2>1 DEF Moved
  <2>2. CASE Advances(n, at)
    <3> DEFINE q == Advanced(n, ep[n], at)
    <3>1. ep'[n] = q /\ effects'[n] = AdvanceFacts(n, ep[n], at)
      BY <1>1, <2>2
    <3>2. Kept(n, ep[n]) /\ ep[n] \in EpisodeType(n) /\ ~IsStale(ep[n], at)
      BY <2>2 DEF AllKept, Kept, Loose, Advances
    <3>3. After(n, ep[n], at, q) /\ q.aliases = ep[n].aliases
      BY <3>2, AdvancedFields
    <3> HIDE DEF q
    <3>4. Relates(n, ep[n], q, at, FALSE) /\ InQuiet(n, q)
      BY <3>2, <3>3, FollowRelates DEF Kept, KnownOn, AllNeutral
    <3>5. Reports(n, ep[n], at, AdvanceFacts(n, ep[n], at) \cup {}, FALSE)
      BY QuietReports
    <3>6. AdvanceFacts(n, ep[n], at) \cup {} = effects'[n]
      BY <3>1
    <3> QED BY <3>1, <3>4, <3>5, <3>6, NodeMoves
  <2> QED BY <2>1, <2>2
<1> QED BY <1>1, <1>2 DEF AllMoved

LEMMA ZeroMoves ==
    ASSUME AllKept, NEW at \in Nat, CountZero(at)
    PROVE  AllMoved(at)
<1>1. /\ DOMAIN ep' = Nodes /\ \A n \in Nodes : ~IsStale(ep[n], at)
      /\ \A n \in Nodes : ep'[n] = CadenceReset(Advanced(n, ep[n], at))
      /\ \A n \in Nodes : effects'[n] = AdvanceFacts(n, ep[n], at)
                                        \cup CadenceCleared(Advanced(n, ep[n], at), at)
  BY DEF CountZero
<1>2. ASSUME NEW n \in Nodes PROVE Moved(n, at)
  <2> DEFINE q == Advanced(n, ep[n], at)
             more == CadenceCleared(q, at)
  <2>1. ep'[n] = CadenceReset(q) /\ effects'[n] = AdvanceFacts(n, ep[n], at) \cup more
    BY <1>1
  <2>2. Kept(n, ep[n]) /\ ep[n] \in EpisodeType(n) /\ ~IsStale(ep[n], at)
    BY <1>1 DEF AllKept, Kept, Loose
  <2>3. After(n, ep[n], at, q) /\ q.aliases = ep[n].aliases
    BY <2>2, AdvancedFields
  <2>4. \A f \in more : f.kind \in SilentKinds
    BY SilentFacts
  <2> HIDE DEF q, more
  <2>5. Relates(n, ep[n], CadenceReset(q), at, FALSE) /\ InQuiet(n, CadenceReset(q))
    BY <2>2, <2>3, ZeroRelates
  <2>6. Reports(n, ep[n], at, effects'[n], FALSE)
    BY <2>1, <2>4, QuietReports
  <2> QED BY <2>1, <2>5, <2>6, NodeMoves
<1> QED BY <1>1, <1>2 DEF AllMoved

LEMMA StartupMoves ==
    ASSUME AllKept, NEW at \in Nat, Startup(at)
    PROVE  AllMoved(at)
<1>1. PICK levels : /\ \A n \in Nodes : levels[n] \in StartupLevels(n)
                    /\ ReconcileStartup(at, levels)
  BY DEF Startup
<1>2. /\ DOMAIN ep' = Nodes /\ \A n \in Nodes : ~IsStale(ep[n], at)
      /\ \A n \in Nodes : ep'[n] = Reconciled(n, ep[n], levels[n], at)
      /\ \A n \in Nodes : effects'[n] = ReconciledFacts(n, ep[n], levels[n], at)
  BY <1>1 DEF ReconcileStartup
<1>3. ASSUME NEW n \in Nodes PROVE Moved(n, at)
  <2> DEFINE s == ep[n]
             al == levels[n]
             q == StartupRead(n, s, al, at)
             continues == StartupContinues(Advanced(n, s, at), al)
             start == StartFacts(n, q, at, FALSE)
  <2>1. Kept(n, s) /\ s \in EpisodeType(n) /\ ~IsStale(s, at) /\ al \in StartupLevels(n)
    BY <1>1, <1>2 DEF AllKept, Kept, Loose
  <2>2. /\ ~continues /\ KnownOn(q) => Relates(n, s, ep'[n], at, TRUE)
        /\ continues \/ ~KnownOn(q) => Relates(n, s, ep'[n], at, FALSE)
        /\ InQuiet(n, ep'[n])
    BY <1>2, <2>1, ReconciledRelates
  <2>3. /\ ~continues /\ KnownOn(q) => effects'[n] = AdvanceFacts(n, s, at) \cup start
        /\ continues \/ ~KnownOn(q) => effects'[n] = AdvanceFacts(n, s, at) \cup {}
    BY <1>2 DEF ReconciledFacts
  <2>4. q \in EpisodeType(n) /\ q.generation = s.generation
    BY <2>1, StartupAfter DEF After
  <2> HIDE DEF s, al, q, continues
  <2>5. Reports(n, s, at, AdvanceFacts(n, s, at) \cup {}, FALSE)
    BY QuietReports
  <2>6. Reports(n, s, at, AdvanceFacts(n, s, at) \cup start, TRUE)
    <3>1. \A c \in BOOLEAN : (c => Linked(n, s, at)) =>
             Reports(n, s, at, AdvanceFacts(n, s, at) \cup StartFacts(n, q, at, c), TRUE)
      BY <2>4, StartReports
    <3> QED BY <3>1
  <2>7. CASE ~continues /\ KnownOn(q)
    <3>1. Relates(n, s, ep'[n], at, TRUE) /\ Reports(n, s, at, effects'[n], TRUE)
      BY <2>2, <2>3, <2>6, <2>7
    <3> QED BY <2>2, <3>1, NodeMoves DEF s
  <2>8. CASE continues \/ ~KnownOn(q)
    <3>1. Relates(n, s, ep'[n], at, FALSE) /\ Reports(n, s, at, effects'[n], FALSE)
      BY <2>2, <2>3, <2>5, <2>8
    <3> QED BY <2>2, <3>1, NodeMoves DEF s
  <2> QED BY <2>7, <2>8
<1> QED BY <1>2, <1>3 DEF AllMoved

LEMMA StepMoves == ASSUME AllKept, Next PROVE \E at \in Nat : AllMoved(at)
<1>1. PICK at \in Times : \/ Advance(at)
                          \/ CountZero(at)
                          \/ Startup(at)
                          \/ \E n \in Nodes : NodeCall(n, at) /\ WithinBound
  BY DEF Next
<1>2. at \in Nat
  BY TypeFacts
<1>3. CASE Advance(at) \/ CountZero(at) \/ Startup(at)
  BY <1>2, <1>3, AdvanceMoves, ZeroMoves, StartupMoves
<1>4. ASSUME NEW n \in Nodes, NodeCall(n, at) PROVE AllMoved(at)
  <2>1. CASE Press(n, at)
    BY <1>2, <2>1, PressMoves
  <2>2. CASE AliasCall(n, at)
    <3>1. PICK a \in Aliases[n] :
             \/ \E level \in Neutral : ObserveUnavailable(n, a, level, at)
             \/ \E level \in {"on", "off"} : AliasEdge(n, a, level, at)
             \/ FlapOn(n, a, at) \/ StartOn(n, a, at)
             \/ ClearEdge(n, a, at) \/ BaselineOff(n, a, at)
      BY <2>2 DEF AliasCall
    <3>2. CASE \E level \in Neutral : ObserveUnavailable(n, a, level, at)
      BY <1>2, <3>2, UnavailableMoves
    <3>3. CASE ~\E level \in Neutral : ObserveUnavailable(n, a, level, at)
      BY <1>2, <3>1, <3>3, EdgeMoves
    <3> QED BY <3>2, <3>3
  <2>3. CASE ApplyCountConflict(n, at) \/ RecoverCountConflict(n, at)
    BY <1>2, <2>3, ConflictMoves
  <2> QED BY <1>4, <2>1, <2>2, <2>3 DEF NodeCall
<1> QED BY <1>1, <1>2, <1>3, <1>4

LEMMA InitKept == ASSUME Init PROVE AllKept /\ \A n \in Nodes : InQuiet(n, ep[n])
<1>1. ASSUME NEW n \in Nodes PROVE Kept(n, FreshEpisode(n)) /\ InQuiet(n, FreshEpisode(n))
  <2>1. FreshEpisode(n) \in EpisodeType(n) /\ LevelOK(FreshEpisode(n))
    BY FreshSound DEF Sound, Core
  <2>2. n \in InteractionNodes => AllNeutral(FreshEpisode(n))
    BY BoundsAssumption DEF FreshEpisode, AllNeutral
  <2>3. InQuiet(n, FreshEpisode(n))
    BY DEF FreshEpisode, InQuiet
  <2>4. Loose(n, FreshEpisode(n))
    BY <2>1 DEF Loose, FreshEpisode, Open, NoTime
  <2> QED BY <2>1, <2>2, <2>3, <2>4 DEF Kept
<1> QED BY <1>1 DEF Init, AllKept

LEMMA MovedKept ==
    ASSUME AllKept, NEW at \in Nat, AllMoved(at) PROVE AllKept'
BY DEF AllKept, AllMoved, Moved, Relates

LEMMA StepKept == AllKept /\ [Next]_vars => AllKept'
<1> SUFFICES ASSUME AllKept, [Next]_vars PROVE AllKept'
  OBVIOUS
<1>1. CASE Next
  BY <1>1, StepMoves, MovedKept
<1>2. CASE UNCHANGED vars
  BY <1>2 DEF vars, AllKept
<1> QED BY <1>1, <1>2

-----------------------------------------------------------------------------
(* The theorems. *)

\* Whatever calls were made, no deadline that is due at the time of the last call
\* is left behind, unless the legacy count conflict is applied to a node that
\* links cycles: that call moves the frontier without looking at the deadlines.
THEOREM NothingOverdue ==
    ASSUME \A n \in Nodes : ~MayOverrun(n)
    PROVE  Spec => []NoOverdueDeadline
<1> DEFINE Inv == AllKept /\ \A n \in Nodes : InQuiet(n, ep[n])
<1>1. Init => Inv
  BY InitKept
<1>2. Inv /\ [Next]_vars => Inv'
  <2> SUFFICES ASSUME Inv, [Next]_vars PROVE Inv'
    OBVIOUS
  <2>1. CASE Next
    <3>1. PICK at \in Nat : AllMoved(at)
      BY <2>1, StepMoves
    <3>2. \A n \in Nodes : InQuiet(n, ep'[n])
      BY <3>1 DEF AllMoved, Moved
    <3> QED BY <3>1, <3>2, MovedKept
  <2>2. CASE UNCHANGED vars
    BY <2>2 DEF vars, AllKept
  <2> QED BY <2>1, <2>2
<1>3. Inv => NoOverdueDeadline
  BY DEF AllKept, Kept, Loose, InQuiet, NoOverdueDeadline
<1> HIDE DEF Inv
<1> QED BY <1>1, <1>2, <1>3, PTL DEF Spec

\* Traversal authority that an episode lost is never given back within it, for
\* any nodes, profiles and modes.
THEOREM AuthorityLost == Spec => AuthorityNotRevived
<1>1. AllKept /\ [Next]_vars =>
         [\A n \in Nodes : /\ ep[n].generation > 0 /\ ep'[n].generation = ep[n].generation
                           /\ ep[n].traversalUntil = NoTime
                           => ep'[n].traversalUntil = NoTime]_vars
  <2> SUFFICES ASSUME AllKept, Next, NEW n \in Nodes,
                      ep'[n].generation = ep[n].generation, ep[n].traversalUntil = NoTime
               PROVE  ep'[n].traversalUntil = NoTime
    OBVIOUS
  <2>1. PICK at \in Nat : Moved(n, at)
    BY StepMoves DEF AllMoved
  <2>2. ep[n].generation \in Nat
    BY DEF AllKept, Kept, Loose, EpisodeType
  <2>3. CASE ep'[n] = ep[n]
    BY <2>3
  <2>4. CASE Relates(n, ep[n], ep'[n], at, TRUE)
    <3>1. ep'[n].generation = ep[n].generation + 1
      BY <2>4 DEF Relates
    <3> QED BY <2>2, <3>1
  <2>5. CASE Relates(n, ep[n], ep'[n], at, FALSE)
    BY <2>5 DEF Relates
  <2> QED BY <2>1, <2>3, <2>4, <2>5 DEF Moved
<1>2. Init => AllKept
  BY InitKept
<1> QED BY <1>1, <1>2, StepKept, PTL DEF Spec, AuthorityNotRevived

Begun(n) == {f \in effects'[n] : f.kind \in BeginKinds}
Cleared(n) == {f \in effects'[n] : f.kind = "stable_clear"}

LEMMA ContractCardinality == \A S : Contract!Cardinality(S) = Cardinality(S)
BY DEF Contract!Cardinality, Cardinality, Contract!IsFiniteSet, IsFiniteSet

LEMMA ContractFacts ==
    ASSUME NEW n \in Nodes
    PROVE  Contract!BeginFacts(n) = Begun(n) /\ Contract!ClearFacts(n) = Cleared(n)
BY Kinds DEF Contract!BeginFacts, Contract!ClearFacts, Contract!Begins, BeginKinds, Begun, Cleared

\* The parts of a contract step, in the terms of the episode records.
LEMMA ContractParts ==
    ASSUME NEW n \in Nodes
    PROVE  /\ Contract!ReportClear(n) <=>
                 /\ Cardinality(Cleared(n)) <= 1
                 /\ \A f \in Cleared(n) : /\ Open(ep[n]) /\ f.generation = ep[n].generation
                                         /\ ep[n].advancedAt < f.at /\ f.at <= ep'[n].advancedAt
           /\ Contract!Begin(n) <=>
                 /\ Cardinality(Begun(n)) = 1
                 /\ ep'[n].generation = ep[n].generation + 1 /\ Open(ep'[n])
                 /\ ep'[n].startedAt = ep'[n].advancedAt
                 /\ \A f \in Begun(n) : f.generation = ep'[n].generation
                                        /\ f.at = ep'[n].advancedAt
           /\ Contract!Continue(n) <=>
                 /\ Begun(n) = {}
                 /\ ep'[n].generation = ep[n].generation /\ ep'[n].startedAt = ep[n].startedAt
                 /\ Open(ep'[n]) /\ (~Open(ep[n]) \/ Cleared(n) # {}) =>
                       ep[n].generation > 0
                       /\ ep'[n].advancedAt < ep[n].startedAt + Profile[n].hold
<1>1. /\ Contract!BeginFacts(n) = Begun(n) /\ Contract!ClearFacts(n) = Cleared(n)
      /\ \A S : Contract!Cardinality(S) = Cardinality(S)
  BY ContractFacts, ContractCardinality
<1>2. Contract!ReportClear(n) <=>
         /\ Cardinality(Cleared(n)) <= 1
         /\ \A f \in Cleared(n) : /\ Open(ep[n]) /\ f.generation = ep[n].generation
                                 /\ ep[n].advancedAt < f.at /\ f.at <= ep'[n].advancedAt
  BY <1>1 DEF Contract!ReportClear, Open
<1>3. Contract!Begin(n) <=>
         /\ Cardinality(Begun(n)) = 1
         /\ ep'[n].generation = ep[n].generation + 1 /\ Open(ep'[n])
         /\ ep'[n].startedAt = ep'[n].advancedAt
         /\ \A f \in Begun(n) : f.generation = ep'[n].generation
                                /\ f.at = ep'[n].advancedAt
  BY <1>1 DEF Contract!Begin, Open
<1>4. Contract!Continue(n) <=>
         /\ Begun(n) = {}
         /\ ep'[n].generation = ep[n].generation /\ ep'[n].startedAt = ep[n].startedAt
         /\ Open(ep'[n]) /\ (~Open(ep[n]) \/ Cleared(n) # {}) =>
               ep[n].generation > 0
               /\ ep'[n].advancedAt < ep[n].startedAt + Profile[n].hold
  BY <1>1 DEF Contract!Continue, Open
<1> QED BY <1>2, <1>3, <1>4, Zenon

LEMMA NodeContract ==
    ASSUME AllKept, NEW at \in Nat, NEW n \in Nodes, Moved(n, at)
    PROVE  /\ ep'[n].advancedAt >= ep[n].advancedAt
           /\ Contract!ReportClear(n)
           /\ Contract!Begin(n) \/ Contract!Continue(n)
<1>1. /\ Kept(n, ep[n]) /\ ep[n] \in EpisodeType(n) /\ ep[n].advancedAt \in Int
      /\ ep[n].generation \in Nat
  BY TypeFacts DEF AllKept, Kept, Loose, EpisodeType
<1>2. CASE ep'[n] = ep[n] /\ effects'[n] = {}
  <2>1. Begun(n) = {} /\ Cleared(n) = {}
    BY <1>2 DEF Begun, Cleared
  <2>2. Cardinality(Cleared(n)) <= 1
    BY <2>1, FS_EmptySet
  <2>3. Contract!ReportClear(n) /\ Contract!Continue(n)
    BY <1>2, <2>1, <2>2, ContractParts
  <2> QED BY <1>1, <1>2, <2>3
<1>3. ASSUME NEW begun \in BOOLEAN, Relates(n, ep[n], ep'[n], at, begun),
             Reports(n, ep[n], at, effects'[n], begun)
      PROVE  /\ ep'[n].advancedAt >= ep[n].advancedAt
             /\ Contract!ReportClear(n)
             /\ Contract!Begin(n) \/ Contract!Continue(n)
  <2>1. ep'[n].advancedAt = at /\ ep'[n].advancedAt >= ep[n].advancedAt
    BY <1>1, <1>3 DEF Relates
  <2>2. \A f \in Cleared(n) : f = ClearFact(ep[n]) /\ ClearDue(n, ep[n], at)
    BY <1>3 DEF Reports, Cleared
  <2>3. Cleared(n) # {} => ClearDue(n, ep[n], at)
    BY <2>2
  <2>4. Cardinality(Cleared(n)) <= 1
    <3>1. Cleared(n) = {} \/ Cleared(n) = {ClearFact(ep[n])}
      BY <2>2
    <3>2. Cardinality({}) = 0 /\ Cardinality({ClearFact(ep[n])}) = 1
      BY FS_EmptySet, FS_Singleton
    <3>3. Cardinality(Cleared(n)) = 0 \/ Cardinality(Cleared(n)) = 1
      BY <3>1, <3>2, Zenon
    <3> QED BY <3>3
  <2>5. \A f \in Cleared(n) : /\ Open(ep[n]) /\ f.generation = ep[n].generation
                          /\ ep[n].advancedAt < f.at /\ f.at <= ep'[n].advancedAt
    BY <1>3, <2>1, <2>2 DEF Relates, ClearFact, Fact
  <2>6. Contract!ReportClear(n)
    BY <2>4, <2>5, ContractParts
  <2>7. CASE begun
    <3>1. PICK b \in effects'[n] : /\ b.kind \in BeginKinds /\ b.generation = ep[n].generation + 1
                                   /\ b.at = at
                                   /\ \A f \in effects'[n] : f.kind \in BeginKinds => f = b
      BY <1>3, <2>7 DEF Reports
    <3>2. Begun(n) = {b}
      BY <3>1 DEF Begun
    <3>3. Cardinality(Begun(n)) = 1
      BY <3>2, FS_Singleton
    <3>4. ep'[n].generation = ep[n].generation + 1 /\ Open(ep'[n]) /\ ep'[n].startedAt = at
      BY <1>3, <2>7 DEF Relates
    <3>5. Contract!Begin(n)
      BY <2>1, <3>1, <3>2, <3>3, <3>4, ContractParts
    <3> QED BY <2>1, <2>6, <3>5
  <2>8. CASE ~begun
    <3>1. Begun(n) = {}
      BY <1>3, <2>8 DEF Reports, Begun
    <3>2. /\ ep'[n].generation = ep[n].generation /\ ep'[n].startedAt = ep[n].startedAt
          /\ Open(ep'[n]) /\ (~Open(ep[n]) \/ ClearDue(n, ep[n], at)) =>
                ep[n].generation > 0 /\ at < ep[n].startedAt + Profile[n].hold
      BY <1>3, <2>8 DEF Relates
    <3>3. Contract!Continue(n)
      BY <2>1, <2>3, <3>1, <3>2, ContractParts
    <3> QED BY <2>1, <2>6, <3>3
  <2> QED BY <2>7, <2>8
<1> QED BY <1>2, <1>3 DEF Moved

\* PhysicalEpisodes implements what the belief, traversal and policy layers rely
\* on: every episode is begun by exactly one fact, only the current open episode is
\* reported clear, once, and a closed one opens again without a fact only while the
\* hardware could not re-arm; for any nodes, aliases, profiles, bounds and modes.
THEOREM ImplementsContract == Spec => ContractSpec
<1>1. Init => Contract!Init
  <2> SUFFICES ASSUME Init PROVE Contract!Init
    OBVIOUS
  <2>1. ASSUME NEW n \in Nodes
        PROVE  /\ ep[n].generation = 0 /\ ep[n].startedAt = -1 /\ ep[n].advancedAt = -1
               /\ ep[n].status = "baseline" /\ effects[n] = {}
    BY DEF Init, FreshEpisode, NoTime
  <2>2. ASSUME NEW n \in Nodes
        PROVE  (ep[n].status \in {"asserted", "degraded", "clearing"}) = FALSE
    BY <2>1
  <2>3. [n \in Nodes |-> ep[n].status \in {"asserted", "degraded", "clearing"}]
           = [n \in Nodes |-> FALSE]
    BY <2>2, Zenon
  <2>4. [n \in Nodes |-> {f \in effects[n] : f.kind \in EvidenceKinds}] = [n \in Nodes |-> {}]
    BY <2>1
  <2> QED BY <2>1, <2>3, <2>4 DEF Contract!Init
<1>2. AllKept /\ [Next]_vars => [Contract!Call]_(Contract!vars)
  <2> SUFFICES ASSUME AllKept, [Next]_vars PROVE [Contract!Call]_(Contract!vars)
    OBVIOUS
  <2>1. CASE Next
    <3>1. PICK at \in Nat : AllMoved(at)
      BY <2>1, StepMoves
    <3>2. ASSUME NEW n \in Nodes
          PROVE  /\ ep'[n].advancedAt >= ep[n].advancedAt
                 /\ Contract!ReportClear(n)
                 /\ Contract!Begin(n) \/ Contract!Continue(n)
      BY <3>1, NodeContract DEF AllMoved
    <3>3. Contract!Call
      BY <3>2 DEF Contract!Call
    <3> QED BY <3>3
  <2>2. CASE UNCHANGED vars
    BY <2>2 DEF vars, Contract!vars
  <2> QED BY <2>1, <2>2
<1>3. Init => AllKept
  BY InitKept
<1> QED BY <1>1, <1>2, <1>3, StepKept, PTL DEF Spec, ContractSpec, Contract!Spec

AllTracked == /\ edge \in [Nodes -> OptTime]
              /\ \A n \in Nodes : Tracks(n, ep[n], edge[n])

LEMMA InitTracked == ASSUME HInit PROVE AllKept /\ AllTracked
<1>1. AllKept
  BY InitKept DEF HInit
<1>2. edge \in [Nodes -> OptTime]
  BY TypeFacts DEF HInit
<1>3. \A n \in Nodes : Tracks(n, ep[n], edge[n])
  BY DEF HInit, Init, FreshEpisode, Tracks
<1> QED BY <1>1, <1>2, <1>3 DEF AllTracked

LEMMA StepTracked == AllKept /\ AllTracked /\ [HNext]_hvars => (AllKept /\ AllTracked)'
<1> SUFFICES ASSUME AllKept, AllTracked, [HNext]_hvars PROVE AllKept' /\ AllTracked'
  OBVIOUS
<1>1. CASE UNCHANGED hvars
  BY <1>1 DEF hvars, vars, AllKept, AllTracked
<1>2. CASE HNext
  <2>1. PICK at \in Nat : AllMoved(at)
    BY <1>2, StepMoves DEF HNext
  <2>2. AllKept'
    BY <2>1, MovedKept
  <2>3. ASSUME NEW n \in Nodes
        PROVE  edge'[n] \in OptTime /\ Tracks(n, ep'[n], edge'[n])
    <3>1. edge'[n] = IF KnownOn(ep'[n]) # KnownOn(ep[n]) THEN ep'[n].advancedAt ELSE edge[n]
      BY <1>2 DEF HNext
    <3>2. edge[n] \in OptTime /\ Tracks(n, ep[n], edge[n]) /\ at \in OptTime
      BY TypeFacts DEF AllTracked
    <3>3. CASE ep'[n] = ep[n]
      BY <3>1, <3>2, <3>3
    <3>4. CASE \E begun \in BOOLEAN : Relates(n, ep[n], ep'[n], at, begun)
      <4>1. ep'[n].advancedAt = at /\ Follows(n, ep[n], ep'[n], at)
        BY <3>4 DEF Relates
      <4>2. CASE KnownOn(ep'[n]) <=> KnownOn(ep[n])
        <5>1. Tracks(n, ep'[n], edge[n])
          BY <3>2, <4>1, <4>2 DEF Follows
        <5>2. edge'[n] = edge[n]
          BY <3>1, <4>2 DEF KnownOn
        <5> QED BY <3>2, <5>1, <5>2
      <4>3. CASE ~(KnownOn(ep'[n]) <=> KnownOn(ep[n]))
        <5>1. Tracks(n, ep'[n], at)
          BY <3>2, <4>1, <4>3 DEF Follows
        <5>2. edge'[n] = at
          BY <3>1, <4>1, <4>3
        <5> QED BY <3>2, <5>1, <5>2
      <4> QED BY <4>2, <4>3
    <3> QED BY <2>1, <3>3, <3>4 DEF AllMoved, Moved
  <2>4. edge' = [n \in Nodes |-> edge'[n]]
    BY <1>2 DEF HNext
  <2> QED BY <2>2, <2>3, <2>4 DEF AllTracked
<1> QED BY <1>1, <1>2

\* The quiet window of every open cadence run is measured from the last change of
\* the node's aggregate level, for any nodes, profiles and modes.  The property is
\* not inductive: whether a clear edge moved it depends on where the pending clear
\* of the run was measured from, which Tracks adds.
THEOREM QuietFromLastEdge == HSpec => []CadenceTracksEdges
<1>1. AllKept /\ AllTracked => CadenceTracksEdges
  BY DEF AllTracked, Tracks, CadenceTracksEdges
<1>2. HInit => AllKept /\ AllTracked
  BY InitTracked
<1> QED BY <1>1, <1>2, StepTracked, PTL DEF HSpec

\* A correlated positive comes after the stable clear that follows the last change
\* of the aggregate level and strictly inside the quiet window measured from it.
THEOREM CorrelationBounded == HSpec => CorrelatedWithinQuiet
<1>1. AllKept /\ AllTracked /\ [HNext]_hvars =>
         [\A n \in Nodes : \A f \in effects'[n] :
             f.kind = "correlated_positive" =>
                 /\ Profile[n].presence
                 /\ edge[n] # NoTime
                 /\ edge[n] + Profile[n].clear <= f.at
                 /\ f.at < edge[n] + Profile[n].cycle]_hvars
  <2> SUFFICES ASSUME AllKept, AllTracked, HNext, NEW n \in Nodes, NEW f \in effects'[n],
                      f.kind = "correlated_positive"
               PROVE  /\ Profile[n].presence
                      /\ edge[n] # NoTime
                      /\ edge[n] + Profile[n].clear <= f.at
                      /\ f.at < edge[n] + Profile[n].cycle
    OBVIOUS
  <2> DEFINE s == ep[n]
             e == edge[n]
  <2>1. PICK at \in Nat : Moved(n, at)
    BY StepMoves DEF HNext, AllMoved
  <2>2. Kept(n, s) /\ s \in EpisodeType(n) /\ e \in OptTime /\ Tracks(n, s, e)
    BY DEF AllKept, AllTracked, Kept, Loose
  <2>3. PICK begun \in BOOLEAN : /\ Relates(n, s, ep'[n], at, begun)
                                 /\ Reports(n, s, at, effects'[n], begun)
    BY <2>1 DEF Moved
  <2>4. f.kind \in BeginKinds
    BY DEF BeginKinds
  <2>5. f.at = at /\ Linked(n, s, at)
    BY <2>3, <2>4 DEF Reports
  <2>6. /\ s.advancedAt <= at
        /\ ClearDue(n, s, at) => s.clearDeadline <= at /\ s.status = "clearing"
    BY <2>3 DEF Relates, ClearDue
  <2> HIDE DEF s, e
  <2>7. Profile[n].presence /\ Profile[n].cycle > 0 /\ s.cadenceLastAt = e /\ e # NoTime
    BY <2>2, <2>5, ProfileFacts DEF Linked, Kept, Loose, Tracks
  <2>8. e \in Int /\ s.advancedAt \in Int /\ Profile[n].clear \in Int /\ Profile[n].cycle \in Int
    BY <2>2, ProfileFacts, TypeFacts DEF EpisodeType
  <2>9. e + Profile[n].clear <= at
    <3>1. CASE s.status = "clear"
      BY <2>2, <2>5, <2>6, <2>8, <3>1 DEF Linked, Tracks
    <3>2. CASE ClearDue(n, s, at)
      BY <2>2, <2>5, <2>6, <2>8, <3>2 DEF Linked, Tracks, Kept, Loose
    <3> QED BY <2>5, <3>1, <3>2 DEF Linked
  <2>10. at < e + Profile[n].cycle
    BY <2>5, <2>7, <2>8 DEF Linked, QuietDue, QuietAt
  <2> QED BY <2>5, <2>7, <2>9, <2>10 DEF e
<1>2. HInit => AllKept /\ AllTracked
  BY InitTracked
<1> QED BY <1>1, <1>2, StepTracked, PTL DEF HSpec, CorrelatedWithinQuiet
=============================================================================
