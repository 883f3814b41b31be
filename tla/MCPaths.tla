------------------------------ MODULE MCPaths ------------------------------
(***************************************************************************)
(* An instance of Frontier for TLC: a house that is empty at first, with   *)
(* the walk of a single person as a history variable.                      *)
(***************************************************************************)
EXTENDS Frontier

CONSTANTS hall, bed, desk, switch

VARIABLE walker  \* where the only person is, "nowhere", or "unknown"

\* No sensor bears the name of the absence of the person.
ASSUME WalkerAssumption == "nowhere" \notin Nodes

\* hall - bed - desk in three zones, with a switch in the zone of the bed.
ThreeRooms ==
    [n \in Nodes |-> CASE n = hall -> "hall" [] n = desk -> "study" [] OTHER -> "bedroom"]
Corridor ==
    [n \in Nodes |->
        CASE n = bed -> {hall, desk} [] n = switch -> {} [] OTHER -> {bed}]
SlowBed == [n \in Nodes |-> IF n = bed THEN 2 ELSE 1]
FewGenerations == [n \in Nodes |-> IF n \in {hall, bed} THEN 2 ELSE 1]

HInit == FrontierInit /\ count = 0 /\ walker = "nowhere"

Begun == {n \in Nodes : phys'[n].gen > phys[n].gen}
Observed == {n \in Begun : sources'[n].gen = phys'[n].gen}
Failed ==
    \/ walker = "unknown"
    \/ \E n \in Nodes : phys'[n].gen > 0 /\ phys'[n].status \in {"unavailable", "baseline"}
Walked(n) == walker = "nowhere" \/ (walker \in Nodes /\ Step(walker, n))

\* One person walks from sensor to adjacent sensor while every sensor works.
HNext ==
    /\ FrontierNext
    /\ walker' = IF Failed \/ Begun # Observed THEN "unknown"
                 ELSE IF Begun = {} THEN walker
                 ELSE IF \A n \in Begun : Walked(n) THEN CHOOSE n \in Begun : TRUE
                 ELSE "unknown"
HSpec == HInit /\ [][HNext]_<<vars, frontier, walker>>

\* One person walking from sensor to sensor is never located twice, whatever
\* the sensors do in between and however the expected count changes.
OneWalkerOnePath == walker # "unknown" => Cardinality(paths) <= 1
=============================================================================
