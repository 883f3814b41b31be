----------------------------- MODULE PathHealth -----------------------------
(***************************************************************************)
(* zone_model/path_health.py as engine.py drives it: warnings about the    *)
(* sensors of a node.  assertion_timeout: ON for a whole window without a  *)
(* path that explains it.  sustained_flapping: a number of quick ON/OFF    *)
(* cycles within a window.  unsupported_jump: a positive nothing supports. *)
(*                                                                         *)
(* Only an observation reads the aliases; advance works on what is stored. *)
(* A restart declares a gap in what was observed: it ends an unfinished    *)
(* cycle and begins the unsupported time anew.                             *)
(***************************************************************************)
EXTENDS Integers, Sequences, FiniteSets

CONSTANTS
    Nodes,        \* physical nodes
    Aliases,      \* entities
    Owner,        \* [Aliases -> Nodes]
    StuckWindow,  \* UNSUPPORTED_ON_WINDOW
    CycleWindow,  \* QUICK_CYCLE_WINDOW
    MaxOn,        \* QUICK_CYCLE_MAX_ON
    CycleCount,   \* QUICK_CYCLE_COUNT
    MaxTime       \* bound on the time of a call

ASSUME HealthAssumption ==
    /\ Owner \in [Aliases -> Nodes] /\ \A n \in Nodes : \E a \in Aliases : Owner[a] = n
    /\ StuckWindow \in Nat \ {0} /\ CycleWindow \in Nat \ {0} /\ MaxOn \in Nat
    /\ CycleCount \in Nat \ {0} /\ MaxTime \in Nat

VARIABLES
    now,      \* the engine's frontier
    raw,      \* the level of each alias
    covered,  \* nodes that a selected path explains
    health    \* health[n]: the stored aggregate and the latest warnings of n

vars == <<now, raw, covered, health>>

NoTime == -1
Levels == {"on", "off", "lost"}        \* lost: unknown or unavailable
Phases == {"on", "off", "unknown"}

(***************************************************************************)
(* Warning occurrences                                                     *)
(***************************************************************************)
NoWarning == [first |-> NoTime, last |-> NoTime, cleared |-> NoTime]
Active(w) == w.first # NoTime /\ w.cleared = NoTime

\* _warning
Raised(w, t, qualified) ==
    [first |-> IF Active(w) THEN w.first ELSE qualified, last |-> t, cleared |-> NoTime]
Ended(w, t) == IF Active(w) THEN [w EXCEPT !.last = t, !.cleared = t] ELSE w

\* Raised if it qualified at that time, else ended.
Judged(w, t, qualifies, qualified) ==
    IF qualifies THEN Raised(w, t, qualified) ELSE Ended(w, t)

Fresh ==
    [phase |-> "unknown", on |-> NoTime, stuck |-> NoTime, cycles |-> <<>>,
     timeout |-> NoWarning, flapping |-> NoWarning, jump |-> NoWarning]

(***************************************************************************)
(* The reducer, one node at a time                                         *)
(***************************************************************************)
Overdue(h, t) == h.stuck # NoTime /\ h.stuck + StuckWindow <= t
FullRun(cycles) == Len(cycles) = CycleCount
Expiry(cycles) == cycles[1] + CycleWindow
LastCycle(cycles) == cycles[Len(cycles)]

\* Mutant: a cycle is kept at the end of its window.
MutExpired(c, t) == t - c > CycleWindow

Expired(c, t) == t - c >= CycleWindow

\* Completions are in order: the expired ones are at the front.
Recent(cycles, t) ==
    SubSeq(cycles, Cardinality({i \in DOMAIN cycles : Expired(cycles[i], t)}) + 1, Len(cycles))

\* Mutant: flapping ends when the expiry is noticed.
MutFlappingBy(w, cycles, t) ==
    IF Expiry(cycles) <= t THEN Ended(w, t) ELSE Raised(w, t, LastCycle(cycles))

\* A full run lasts until its first cycle expires, whenever that is noticed.
FlappingBy(w, cycles, t) ==
    IF Expiry(cycles) <= t THEN Ended(w, Expiry(cycles)) ELSE Raised(w, t, LastCycle(cycles))

\* _progress: what fell due by t, before the next input.
Progressed(h, t, bootstrap) ==
    [h EXCEPT !.timeout = IF ~bootstrap /\ Overdue(h, t)
                          THEN Raised(@, t, h.stuck + StuckWindow) ELSE @,
              !.flapping = IF FullRun(h.cycles) THEN FlappingBy(@, h.cycles, t) ELSE @,
              !.cycles = Recent(@, t)]

UnsupportedSince(h, t, n, cov) ==
    IF h.phase # "on" \/ n \in cov THEN NoTime ELSE IF h.stuck = NoTime THEN t ELSE h.stuck

\* Mutant: a path that comes to explain the node does not end the jump.
MutSupported(h, t, n, cov) ==
    LET stuck == UnsupportedSince(h, t, n, cov)
        due == stuck # NoTime /\ stuck + StuckWindow <= t
    IN  [h EXCEPT !.stuck = stuck,
                  !.jump = IF h.phase # "on" THEN Ended(@, t) ELSE @,
                  !.timeout = Judged(@, t, due, stuck + StuckWindow)]

\* _support: unsupported time runs only while ON and uncovered.
Supported(h, t, n, cov) ==
    LET stuck == UnsupportedSince(h, t, n, cov)
        due == stuck # NoTime /\ stuck + StuckWindow <= t
    IN  [h EXCEPT !.stuck = stuck,
                  !.jump = IF h.phase # "on" \/ n \in cov THEN Ended(@, t) ELSE @,
                  !.timeout = Judged(@, t, due, stuck + StuckWindow)]

Advanced(h, t, n, cov) == Supported(Progressed(h, t, FALSE), t, n, cov)

\* Mutant: a lost sensor completes a cycle.
MutQuickCycle(h, phase, t, bootstrap) ==
    ~bootstrap /\ phase # "on" /\ h.phase = "on" /\ h.on # NoTime /\ t - h.on <= MaxOn

\* A cycle is quick, observed from its start, and not across a restart.
QuickCycle(h, phase, t, bootstrap) ==
    /\ ~bootstrap /\ phase = "off" /\ h.phase = "on" /\ h.on # NoTime
    /\ t - h.on <= MaxOn

\* Mutant: every cycle is kept.
MutLastCycles(cycles) == cycles

LastCycles(cycles) ==
    SubSeq(cycles, IF Len(cycles) > CycleCount THEN 2 ELSE 1, Len(cycles))
Completed(h, phase, t, bootstrap) ==
    IF QuickCycle(h, phase, t, bootstrap) THEN LastCycles(Append(h.cycles, t)) ELSE h.cycles

OnSince(h, phase, t, bootstrap) ==
    IF phase # "on" \/ bootstrap THEN NoTime ELSE IF h.phase # "on" THEN t ELSE h.on

\* Mutant: the unsupported time goes on across a restart.
MutEdge(h, phase, t, bootstrap) ==
    [h EXCEPT !.phase = phase,
              !.on = OnSince(h, phase, t, bootstrap),
              !.stuck = IF phase = "on" THEN @ ELSE NoTime,
              !.cycles = Completed(h, phase, t, bootstrap)]

\* The part of observe before the support is judged.
Edge(h, phase, t, bootstrap) ==
    [h EXCEPT !.phase = phase,
              !.on = OnSince(h, phase, t, bootstrap),
              !.stuck = IF phase = "on" /\ ~bootstrap THEN @ ELSE NoTime,
              !.cycles = Completed(h, phase, t, bootstrap),
              !.timeout = IF bootstrap THEN Ended(@, t) ELSE @,
              !.jump = IF bootstrap THEN Ended(@, t) ELSE @]

Flapped(h, t) ==
    [h EXCEPT !.flapping =
        IF FullRun(h.cycles) THEN Raised(@, t, LastCycle(h.cycles)) ELSE Ended(@, t)]

Observed(h, phase, t, n, cov, bootstrap) ==
    Flapped(Supported(Edge(Progressed(h, t, bootstrap), phase, t, bootstrap), t, n, cov), t)

\* record_unsupported_jump: of an ON that was just observed.
Jumped(h, t, n, cov) ==
    IF h.phase = "on" /\ n \notin cov THEN [h EXCEPT !.jump = Raised(@, t, t)] ELSE h

(***************************************************************************)
(* The engine's calls                                                      *)
(***************************************************************************)
AliasesOf(n) == {a \in Aliases : Owner[a] = n}

\* _phases
Aggregate(n, levels) ==
    IF \E a \in AliasesOf(n) : levels[a] = "on" THEN "on"
    ELSE IF \A a \in AliasesOf(n) : levels[a] = "off" THEN "off"
    ELSE "unknown"

Init ==
    /\ now = 0 /\ raw = [a \in Aliases |-> "lost"] /\ covered = {}
    /\ health = [n \in Nodes |-> Fresh]

\* What advance leaves of h when the paths then cover other nodes.
Moved(h, n, t, cov) == Advanced(Advanced(h, t, n, covered), t, n, cov)

\* advance, a count report, or a loss of coverage: paths only lose nodes.
Advance(t, cov) ==
    /\ now' = t /\ covered' = cov
    /\ health' = [n \in Nodes |-> Moved(health[n], n, t, cov)]
    /\ UNCHANGED raw

Rises(n, levels) == health[n].phase # "on" /\ Aggregate(n, levels) = "on"

\* observe, in an occupied or an empty house (where nothing is covered).  The
\* selection may move the coverage; a positive may be an unsupported jump.
Report(a, level, cov, jumps) ==
    LET levels == [raw EXCEPT ![a] = level]
        Seen(n) == Observed(Moved(health[n], n, now, cov), Aggregate(n, levels), now, n, cov, FALSE)
    IN  /\ level # raw[a]
        /\ jumps \subseteq {n \in Nodes : n = Owner[a] /\ Rises(n, levels)}
        /\ raw' = levels /\ covered' = cov
        /\ health' = [n \in Nodes |->
              Advanced(IF n \in jumps THEN Jumped(Seen(n), now, n, cov) ELSE Seen(n), now, n, cov)]
        /\ UNCHANGED now

\* Startup after a gap: the health that was saved, not what advance made of
\* it in between, meets the levels of a new session.
Restart(t, levels, cov) ==
    /\ now' = t /\ raw' = levels /\ covered' = cov
    /\ health' = [n \in Nodes |->
          Advanced(Observed(health[n], Aggregate(n, levels), t, n, cov, TRUE), t, n, cov)]

Next ==
    \/ \E t \in now .. MaxTime, cov \in SUBSET covered : Advance(t, cov)
    \/ \E a \in Aliases, level \in Levels, cov, jumps \in SUBSET Nodes :
          Report(a, level, cov, jumps)
    \/ \E t \in now .. MaxTime, levels \in [Aliases -> Levels], cov \in SUBSET covered :
          Restart(t, levels, cov)

Spec == Init /\ [][Next]_vars

(***************************************************************************)
(* Properties                                                              *)
(***************************************************************************)
Times == 0 .. MaxTime
Warnings == [first : Times \cup {NoTime}, last : Times \cup {NoTime},
             cleared : Times \cup {NoTime}]
HealthType ==
    [phase : Phases, on : Times \cup {NoTime}, stuck : Times \cup {NoTime},
     cycles : Seq(Times), timeout : Warnings, flapping : Warnings, jump : Warnings]

\* Times are real times and a node keeps at most ten completions.
TypeOK ==
    /\ now \in Times /\ raw \in [Aliases -> Levels] /\ covered \subseteq Nodes
    /\ health \in [Nodes -> HealthType]
    /\ \A n \in Nodes : Len(health[n].cycles) <= CycleCount

\* Occurrences are ordered in time; a clear is the last observation.
Ordered(w, t) ==
    /\ w.first <= w.last /\ w.last <= t
    /\ w.cleared # NoTime => w.cleared = w.last /\ w.first # NoTime
    /\ w.first = NoTime => w.last = NoTime

\* What PathHealthState demands of an unfinished run.
RunsOK(h, t) ==
    /\ h.phase # "on" => h.on = NoTime /\ h.stuck = NoTime
    /\ h.on <= t /\ h.stuck <= t
    /\ h.on # NoTime /\ h.stuck # NoTime => h.on <= h.stuck

CyclesOK(h, t) ==
    \A i \in DOMAIN h.cycles :
        /\ h.cycles[i] <= t /\ t - h.cycles[i] < CycleWindow
        /\ h.on # NoTime => h.cycles[i] <= h.on
        /\ \A j \in DOMAIN h.cycles : i < j => h.cycles[i] <= h.cycles[j]

TimeoutOK(h, t) ==
    /\ Active(h.timeout) <=> Overdue(h, t)
    /\ Active(h.timeout) => h.timeout.first = h.stuck + StuckWindow /\ h.timeout.last = t
    /\ h.stuck # NoTime /\ h.timeout.cleared # NoTime => h.timeout.cleared <= h.stuck

FlappingOK(h, t) ==
    /\ Active(h.flapping) <=> FullRun(h.cycles)
    /\ Active(h.flapping) => h.flapping.last = t /\ h.flapping.first <= LastCycle(h.cycles)

JumpOK(h) ==
    Active(h.jump) => h.phase = "on" /\ h.on = h.jump.first /\ h.jump.last = h.jump.first

Coherent(h, t) ==
    /\ Ordered(h.timeout, t) /\ Ordered(h.flapping, t) /\ Ordered(h.jump, t)
    /\ RunsOK(h, t) /\ CyclesOK(h, t)
    /\ TimeoutOK(h, t) /\ FlappingOK(h, t) /\ JumpOK(h)

\* Whatever the history, restore accepts the health that is saved: fields have
\* their ranges and warnings never disagree with the stored aggregates.
Restorable == TypeOK /\ \A n \in Nodes : Coherent(health[n], now)

UpToDate(h, n, cov) ==
    /\ h.stuck # NoTime <=> h.phase = "on" /\ n \notin cov
    /\ Active(h.jump) => n \notin cov

\* The stored health never lags behind the house: after every call it has the
\* level that the aliases have and judges by the coverage that the paths have,
\* or the integrity check of the engine would refuse the snapshot.
HouseAgrees ==
    \A n \in Nodes :
        health[n].phase = Aggregate(n, raw) /\ UpToDate(health[n], n, covered)

\* How often advance is called shows nowhere: a warning qualifies and clears
\* at its own time, not at the tick that notices.
TicksInvisible ==
    \A n \in Nodes : \A t \in now .. MaxTime + CycleWindow : \A u \in now .. t :
        Advanced(Advanced(health[n], u, n, covered), t, n, covered)
            = Advanced(health[n], t, n, covered)
=============================================================================
