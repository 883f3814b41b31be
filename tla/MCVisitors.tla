----------------------------- MODULE MCVisitors -----------------------------
(***************************************************************************)
(* Two zones with a motion entity each, and the time of the last disabling *)
(* as a history variable, under the fairness of the event loop.            *)
(***************************************************************************)
EXTENDS VisitorsRuntime, TLC

CONSTANTS kitchen, hall, k, h

MotionZone == (k :> kitchen) @@ (h :> hall)

VARIABLE off  \* when the mode was last turned off

HInit == Init /\ off = NoTime

HNext ==
    /\ Next
    /\ off' = IF phase' = "up" /\ mode.enabled /\ ~mode'.enabled THEN now ELSE off

HSpec == HInit /\ [][HNext]_<<vars, off>> /\ Fairness

\* Neither repeated toggles nor restarts renew the grace period: a hold left by
\* disabling is due, at the latest, Grace after the mode was last turned off.
GraceNotRenewed == mode.exitAt # NoTime => mode.exitAt <= off + Grace
=============================================================================
