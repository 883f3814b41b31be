---------------------------- MODULE Generations ----------------------------
(***************************************************************************)
(* What the path, traversal and support reducers read of a physical node   *)
(* (zone_model/episodes.py): the current generation, when it began, its    *)
(* status, whether a cadence run is open and whether the generation was    *)
(* linked to the cycle before it.  The alias levels and the windows that   *)
(* time the changes are those of PhysicalEpisodes; here a window may end   *)
(* at any later time.                                                      *)
(***************************************************************************)
EXTENDS Integers

CONSTANTS
    Nodes,             \* physical node identifiers
    InteractionNodes,  \* nodes that report presses only
    PresenceNodes,     \* stay_presence nodes: the ones that link cycles
    Hold               \* [Nodes -> Nat]: hardware_hold_interval

ASSUME GenerationsAssumption ==
    /\ InteractionNodes \subseteq Nodes /\ PresenceNodes \subseteq Nodes \ InteractionNodes
    /\ Hold \in [Nodes -> Nat \ {0}]

NoTime == -1
Statuses == {"baseline", "asserted", "clearing", "clear", "unavailable"}
NodeState ==
    [gen : Nat, at : Nat \cup {NoTime}, status : Statuses,
     run : BOOLEAN, correlated : BOOLEAN]

FreshNode ==
    [gen |-> 0, at |-> NoTime, status |-> "baseline", run |-> FALSE, correlated |-> FALSE]

KnownOn(s) == s.status = "asserted"

\* A press begins a generation; one at the time of the last is a duplicate.
CanPress(n, s, t) == n \in InteractionNodes /\ s.at # t
Pressed(s, t) ==
    [gen |-> s.gen + 1, at |-> t, status |-> "clearing", run |-> FALSE, correlated |-> FALSE]

\* An ON that the hardware can only have produced by re-arming.
CanStart(n, s, t) ==
    /\ n \notin InteractionNodes /\ ~KnownOn(s)
    /\ s.gen = 0 \/ s.status = "unavailable" \/ t >= s.at + Hold[n]
CanLink(n, s) == s.run /\ s.status = "clear"
Started(n, s, t, linked) ==
    [gen |-> s.gen + 1, at |-> t, status |-> "asserted",
     run |-> n \in PresenceNodes, correlated |-> linked]

\* An ON of the same generation: within the hold, or soon after the OFF edge.
CanReopen(n, s, t) ==
    /\ n \notin InteractionNodes /\ ~KnownOn(s) /\ s.gen > 0
    /\ s.status # "unavailable"
    /\ s.status = "clearing" \/ t < s.at + Hold[n]
Reopened(s) == [s EXCEPT !.status = "asserted"]

CanRelease(s) == KnownOn(s)
Released(s) == [s EXCEPT !.status = "clearing"]

CanSettle(s) == s.status = "clearing"
Settled(s) == [s EXCEPT !.status = "clear"]

\* Unknown or unavailable: ends what is open; cadence is forgotten.
CanLose(s) == s.status # "unavailable"
Uncorrelated(s) == [s EXCEPT !.run = FALSE, !.correlated = FALSE]
Lost(s) == [Uncorrelated(s) EXCEPT !.status = "unavailable"]

CanReturn(n, s) == n \notin InteractionNodes /\ s.status = "unavailable"
Returned(s) == [s EXCEPT !.status = "baseline"]

\* The levels read at startup: the assertion or the clear goes on, a new
\* generation begins without an effect, or the history is a baseline.
StartupStates(n, s, t) ==
    {Lost(s)}
    \cup (IF n \in InteractionNodes /\ s.status \in {"clearing", "clear"} THEN {} ELSE {s})
    \cup (IF n \in InteractionNodes THEN {} ELSE {[Lost(s) EXCEPT !.status = "baseline"]})
    \cup (IF n \in InteractionNodes \/ KnownOn(s) THEN {} ELSE {Started(n, s, t, FALSE)})
=============================================================================
