------------------------- MODULE MCEpisodeCadence -------------------------
(***************************************************************************)
(* PhysicalEpisodes with a history variable: the time of the last change   *)
(* of the aggregate level of each node.                                    *)
(***************************************************************************)
EXTENDS MCPhysicalEpisodes

VARIABLE edge

HInit == Init /\ edge = [n \in Nodes |-> NoTime]

HNext ==
    /\ Next
    /\ edge' = [n \in Nodes |->
                  IF KnownOn(ep'[n]) # KnownOn(ep[n]) THEN ep'[n].advancedAt ELSE edge[n]]

hvars == <<vars, edge>>
HSpec == HInit /\ [][HNext]_hvars

\* The quiet window of an open cadence run is measured from the last change of
\* the aggregate level, whatever aliases, flaps, startups and timers did since.
CadenceTracksEdges ==
    \A n \in Nodes : ep[n].cadenceRunAt # NoTime => ep[n].cadenceLastAt = edge[n]

\* A correlated positive comes strictly within the quiet window of the last
\* aggregate change of a stay_presence node, and after its stable clear; at the
\* window's end the next positive is full evidence (REQ-EVID-012).
CorrelatedWithinQuiet ==
    [][\A n \in Nodes : \A f \in effects'[n] :
          f.kind = "correlated_positive" =>
              /\ Profile[n].presence
              /\ edge[n] # NoTime
              /\ edge[n] + Profile[n].clear <= f.at
              /\ f.at < edge[n] + Profile[n].cycle]_hvars
=============================================================================
