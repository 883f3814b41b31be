--------------------------- MODULE MCRuntimeCalls ----------------------------
(***************************************************************************)
(* RuntimeCalls for TLC, with history: how many moves were accepted, the   *)
(* audit log as it would be without deferral, and the model that the last  *)
(* operation committed.                                                    *)
(***************************************************************************)
EXTENDS RuntimeCalls

\* A fresh installation, and one that took a count of one, then an unsupported
\* one, then one again.
MCStarts ==
    LET taken == [value |-> 1, at |-> 0]
    IN  {Counted(0),
         [value |-> 1, last |-> taken, enteredAt |-> 0, seen |-> <<taken, [taken EXCEPT !.at = 1]>>]}

VARIABLES accepted, direct, committed

hvars == <<vars, accepted, direct, committed>>

HInit == Init /\ accepted = 0 /\ direct = <<>> /\ committed = tracker

\* The rows a step decides on: those an observation publishes, and those a timer logs.
Decided ==
    IF call'.stage = "publish" /\ call = NoCall THEN LoggedAll(direct, call'.rows)
    ELSE IF call = NoCall /\ log' # log THEN log'
    ELSE direct

HNext ==
    /\ Next
    /\ accepted' = accepted + (learned' + pending' - learned - pending) *
                              (IF call = NoCall /\ call'.stage = "publish" THEN 1 ELSE 0)
    /\ direct' = Decided
    /\ committed' = IF call.stage = "publish" THEN committed ELSE tracker'

HSpec == HInit /\ [][HNext]_hvars

\* An observation is one transaction, whatever its subscribers do.  They all read
\* the model that it committed (assert_mutation_allowed); every accepted move is
\* either queued or learned, never both and never lost; and its rows reach the
\* log as if it had logged them itself, none lost, repeated or reordered, also
\* when a subscriber fails or the callback does not come to its end.
PublicationAtomic ==
    /\ tracker = committed
    /\ pending + learned = accepted
    /\ direct = IF call.stage = "publish" THEN LoggedAll(log, call.rows) ELSE log
=============================================================================
