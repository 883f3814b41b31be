---------------------------- MODULE VisitorsMode ----------------------------
(***************************************************************************)
(* visitors.py: the manual Visitors override.  While it is enabled, motion *)
(* holds the zone it is seen in, and a zone the policy calls active joins  *)
(* the held ones; disabling it keeps them for a grace period.  A state of  *)
(* VisitorsMode is a record, a method an operator that returns the record  *)
(* after the call.  Entities are the motion entities of the map; others    *)
(* are turned away by the first test of observe.                           *)
(***************************************************************************)
EXTENDS Integers

CONSTANTS
    AllZones,   \* zones of every map the installation ever loads
    Entities,   \* motion entities
    ZoneOf,     \* [Entities -> AllZones]
    Grace,      \* EXIT_GRACE_SECONDS
    MaxTime     \* bound on the clock

NoTime == -1
Times == 0 .. MaxTime

ASSUME VisitorsAssumption ==
    /\ ZoneOf \in [Entities -> AllZones]
    /\ Grace \in Nat \ {0}
    /\ MaxTime \in Nat

NoManual == [absent |-> TRUE]  \* a payload without the key visitors_mode

Mode == [enabled : BOOLEAN, held : SUBSET AllZones, exitAt : Nat \cup {NoTime},
         startedAt : Times \cup {NoTime}, frontier : [Entities -> Times \cup {NoTime}]]

NoFrontier == [e \in Entities |-> NoTime]

Disabled == [enabled |-> FALSE, held |-> {}, exitAt |-> NoTime,
             startedAt |-> NoTime, frontier |-> NoFrontier]

\* Mutant: disabling again renews the grace period.
MutSetEnabled(m, on, now) ==
    [m EXCEPT !.enabled = on, !.frontier = NoFrontier,
              !.startedAt = IF on THEN now ELSE NoTime,
              !.exitAt = IF ~on /\ m.held # {} THEN now + Grace ELSE NoTime]

\* Mutant: disabling arms no exit.
MutSetEnabledNoExit(m, on, now) ==
    IF on = m.enabled THEN m
    ELSE [m EXCEPT !.enabled = on, !.frontier = NoFrontier,
                   !.startedAt = IF on THEN now ELSE NoTime, !.exitAt = NoTime]

SetEnabled(m, on, now) ==
    IF on = m.enabled THEN m
    ELSE [m EXCEPT !.enabled = on, !.frontier = NoFrontier,
                   !.startedAt = IF on THEN now ELSE NoTime,
                   !.exitAt = IF ~on /\ m.held # {} THEN now + Grace ELSE NoTime]

Usable(m, e, at, now) ==
    m.enabled /\ m.startedAt # NoTime /\ m.startedAt <= at /\ at <= now /\ m.frontier[e] <= at

Observe(m, e, level, at, now) ==
    IF ~Usable(m, e, at, now) THEN m
    ELSE [m EXCEPT !.frontier[e] = at,
                   !.held = IF level = "on" THEN @ \cup {ZoneOf[e]} ELSE @]

\* Every entity in known is sampled at now; those in on are asserted.
Sample(m, known, on, now) ==
    IF ~m.enabled THEN m
    ELSE [m EXCEPT !.startedAt = now,
                   !.frontier = [e \in Entities |-> IF e \in known THEN now ELSE @[e]],
                   !.held = @ \cup {ZoneOf[e] : e \in on}]

RetainActive(m, zones) ==
    IF m.enabled THEN [m EXCEPT !.held = @ \cup zones] ELSE m

ExpireDue(m, now) == m.exitAt # NoTime /\ now >= m.exitAt

Expire(m, now) == IF ExpireDue(m, now) THEN [m EXCEPT !.held = {}, !.exitAt = NoTime] ELSE m

\* Mutant: the key is written only while the mode is on.
MutStoreData(m) ==
    IF m.enabled THEN [enabled |-> TRUE, held |-> m.held, exitAt |-> m.exitAt] ELSE NoManual

\* store_data, under the condition transition_store_data puts on the key.
StoreData(m) ==
    IF m.enabled \/ m.held # {}
    THEN [enabled |-> m.enabled, held |-> m.held, exitAt |-> m.exitAt]
    ELSE NoManual

Accepts(raw) ==
    /\ raw.enabled => raw.exitAt = NoTime
    /\ ~raw.enabled => (raw.held # {} <=> raw.exitAt # NoTime)

\* Mutant: a restart renews the grace period.
MutRestore(raw, zones, now) ==
    IF raw = NoManual \/ ~Accepts(raw) THEN Disabled
    ELSE [enabled |-> raw.enabled, held |-> raw.held \cap zones,
          exitAt |-> IF raw.exitAt # NoTime THEN now + Grace ELSE NoTime,
          startedAt |-> IF raw.enabled THEN now ELSE NoTime, frontier |-> NoFrontier]

\* Mutant: zones the new map no longer has stay held.
MutRestoreAll(raw, zones, now) ==
    IF raw = NoManual \/ ~Accepts(raw) THEN Disabled
    ELSE Expire([enabled |-> raw.enabled, held |-> raw.held, exitAt |-> raw.exitAt,
                 startedAt |-> IF raw.enabled THEN now ELSE NoTime, frontier |-> NoFrontier], now)

Restore(raw, zones, now) ==
    IF raw = NoManual \/ ~Accepts(raw) THEN Disabled
    ELSE Expire([enabled |-> raw.enabled, held |-> raw.held \cap zones, exitAt |-> raw.exitAt,
                 startedAt |-> IF raw.enabled THEN now ELSE NoTime, frontier |-> NoFrontier], now)
=============================================================================
