------------------------------ MODULE MCHealth ------------------------------
(***************************************************************************)
(* An instance of PathHealth for TLC, with what was observed in full as    *)
(* history variables.                                                      *)
(***************************************************************************)
EXTENDS PathHealth

CONSTANTS
    node, left, right,
    MaxFinished  \* bound on the quick cycles of a history

VARIABLES
    session,   \* when the present session of observation began
    risen,     \* when the sensors rose in this session, or NoTime
    finished   \* all quick cycles so far

history == <<session, risen, finished>>

OneNode == [a \in Aliases |-> node]

HInit == Init /\ session = 0 /\ risen = NoTime /\ finished = <<>>

\* What the aliases say, without the stored aggregate.
WasOn == Aggregate(node, raw) = "on"
IsOn == Aggregate(node, raw') = "on"
IsOff == Aggregate(node, raw') = "off"

HReport ==
    /\ risen' = IF IsOn THEN (IF WasOn THEN risen ELSE now) ELSE NoTime
    /\ finished' = IF WasOn /\ IsOff /\ risen # NoTime /\ now - risen <= MaxOn
                   THEN Append(finished, now) ELSE finished
    /\ Len(finished') <= MaxFinished
    /\ UNCHANGED session

HNext ==
    \/ \E t \in now .. MaxTime, cov \in SUBSET covered :
          Advance(t, cov) /\ UNCHANGED history
    \/ \E a \in Aliases, level \in Levels, cov, jumps \in SUBSET Nodes :
          Report(a, level, cov, jumps) /\ HReport
    \/ \E t \in now .. MaxTime, levels \in [Aliases -> Levels], cov \in SUBSET covered :
          Restart(t, levels, cov) /\ session' = t /\ risen' = NoTime /\ UNCHANGED finished

HSpec == HInit /\ [][HNext]_<<vars, history>>

Within(t) == {i \in DOMAIN finished : t - finished[i] < CycleWindow}

\* Ten retained completions decide as the whole history does: flapping is
\* reported exactly while enough quick cycles lie within the window.
FlappingExact ==
    Active(health[node].flapping) <=> Cardinality(Within(now)) >= CycleCount

\* Nothing that was not observed counts: no unsupported time from before a
\* restart, and no jump outlives one.
GapNotCounted ==
    /\ Active(health[node].timeout) => health[node].timeout.first >= session + StuckWindow
    /\ Active(health[node].jump) => health[node].jump.first >= session
=============================================================================
