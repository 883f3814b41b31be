--------------------------- MODULE MCEpisodeKinds ---------------------------
(***************************************************************************)
(* A sensor node beside an interaction node.  Nodes share nothing but the  *)
(* time of a call, so one of them, chosen at the start, is the one whose   *)
(* aliases report; the other only follows the calls that touch every node. *)
(***************************************************************************)
EXTENDS MCPhysicalEpisodes

VARIABLE used

KInit == Init /\ used \in Nodes

Quiet(n) == UNCHANGED <<ep[n].aliases, ep[n].generation>>

KNext ==
    /\ Next
    /\ \A n \in Nodes \ {used} : Quiet(n)
    /\ UNCHANGED used

kvars == <<vars, used>>

\* The runtime's timers keep calling advance with a later time.
KSpec ==
    /\ KInit
    /\ [][KNext]_kvars
    /\ WF_kvars(UNCHANGED used /\ \E at \in Times : Advance(at))
=============================================================================
