--------------------------- MODULE MCPredictions ----------------------------
(***************************************************************************)
(* Three nodes in a row, two of them in one zone, and the accepted         *)
(* observations of every edge as a history variable.                       *)
(***************************************************************************)
EXTENDS Predictions

CONSTANTS a, b, c, MaxLearned

Line == [n \in {a, b, c} |-> IF n = b THEN {a, c} ELSE {b}]
TwoZones == [n \in {a, b, c} |-> IF n = c THEN c ELSE a]
UnitPrior == [n \in {a, b, c} |-> 1]
\* The row of b is mature; so is the count of its edge to c, but for one.
Trained == {[e \in Edges |-> IF e = <<b, c>> THEN CountLimit - 1 ELSE 0]}

VARIABLE learned  \* initial count plus the observations accepted so far

HInit == Init /\ learned = counts

HNext ==
    \/ \E n \in Nodes : \E auth \in Auths(n) \cup {NoAuth} :
        /\ ObserveSome(n, auth)
        /\ learned' = [e \in Edges |-> learned[e] + Batch(n, auth)[e]]
        /\ MapThenSumSet(LAMBDA e : learned'[e], Edges) <= MaxLearned
    \/ Unobserving /\ UNCHANGED learned

HSpec == HInit /\ [][HNext]_<<vars, learned>>

\* No accepted observation of a route is lost or counted twice, whether it is
\* pending, deferred behind a lease, committed, or saved and restored between.
NothingLost ==
    \A e \in Edges :
        (IF Projected(pending)[e] = NoCount THEN counts[e] ELSE Projected(pending)[e])
            = Min({CountLimit, learned[e]})
=============================================================================
