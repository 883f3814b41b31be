------------------------ MODULE MCPhysicalEpisodes ------------------------
(***************************************************************************)
(* Instances of PhysicalEpisodes for TLC.  Durations are the shared        *)
(* profiles of profiles.py scaled down with their order kept.              *)
(***************************************************************************)
EXTENDS PhysicalEpisodes, TLC

CONSTANTS n1, n2, a1, a2, a3

MCNodes == {n1}
TwoAliases == [n \in MCNodes |-> {a1, a2}]

\* stay_presence: burst 3 s < hold 5 s < clear 10 s, cycle 10 min < sustained 3 h
StayPresence ==
    [n \in MCNodes |-> [presence |-> TRUE, stay |-> TRUE, burst |-> 1, hold |-> 2, clear |-> 3,
                        traversal |-> 4, trust |-> 6, cycle |-> 5, sustained |-> 8]]

\* transition_fast: burst 3 s < clear 5 s < hold 15 s < traversal 45 s < trust 60 s
TransitionFast ==
    [n \in MCNodes |-> [presence |-> FALSE, stay |-> FALSE, burst |-> 1, clear |-> 2, hold |-> 4,
                        traversal |-> 5, trust |-> 6, cycle |-> 0, sustained |-> 0]]

\* stay_pir: as transition_fast, in a stay role
StayPir == [n \in MCNodes |-> [TransitionFast[n] EXCEPT !.stay = TRUE]]

\* An interaction node beside a sensor node.
MixedNodes == {n1, n2}
MixedAliases == (n1 :> {a1} @@ n2 :> {a3})
MixedProfile == [n \in MixedNodes |-> StayPir[n1]]

EvidenceKinds == {"positive", "correlated_positive", "interaction", "stable_clear"}

\* PhysicalEpisodes implements EpisodeContract: evidence is counted once per
\* episode and no clear is reported for an episode that is over.
Contract ==
    INSTANCE EpisodeContract WITH
        Hold <- [n \in Nodes |-> Profile[n].hold],
        episode <- [n \in Nodes |-> ep[n].generation],
        open <- [n \in Nodes |-> ep[n].status \in {"asserted", "degraded", "clearing"}],
        startedAt <- [n \in Nodes |-> ep[n].startedAt],
        frontier <- [n \in Nodes |-> ep[n].advancedAt],
        facts <- [n \in Nodes |-> {f \in effects[n] : f.kind \in EvidenceKinds}]
ContractSpec == Contract!Spec
=============================================================================
