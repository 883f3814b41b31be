--------------------------- MODULE MCZoneRelease ---------------------------
(***************************************************************************)
(* Small instances of ZoneRelease, with one history variable: since when   *)
(* the belief of an active zone has been low and unprotected at the end of *)
(* every call.  The instances make a call at every time, MaxStep being 1.  *)
(***************************************************************************)
EXTENDS ZoneRelease

VARIABLE lowSince

MCBaseline == [c \in Contexts |-> IF c = "asserted" THEN IF Stay THEN TopLevel ELSE 1 ELSE 0]
MCRate == [c \in Contexts |-> IF c = "cleared_with_outward" THEN 2 ELSE 1]

MCInit == Init /\ lowSince = IF Free(zone) THEN 0 ELSE NoTime

\* A call that evaluates no policy (what a restart reads, an ignored input)
\* leaves a dwell that has begun as it is, up to the next evaluation.
Stands == zone'.policy.pending # NoTime /\ (published' = Silent \/ zone'.policy = zone.policy)

MCNext ==
    /\ Next
    /\ lowSince' = IF Free(zone') \/ Stands THEN Known(lowSince, zone'.at) ELSE NoTime

MCSpec == MCInit /\ [][MCNext]_<<vars, lowSince>>

\* An occupied house switches a light off only after a whole dwell of low
\* belief that nothing protects: protected time earns none of it, and a dwell
\* that was interrupted starts again.
NoEarlyRelease ==
    [][/\ zone.policy.phase = "active" /\ zone'.policy.phase = "inactive"
       /\ zone'.occupied
       => lowSince # NoTime /\ zone'.at >= lowSince + Dwell]_<<vars, lowSince>>
=============================================================================
