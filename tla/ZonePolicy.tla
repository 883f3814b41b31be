----------------------------- MODULE ZonePolicy -----------------------------
(***************************************************************************)
(* zone_model/policy.py: one zone's belief is projected onto active, with  *)
(* hysteresis, a release dwell, holds and a prediction lease.  An          *)
(* evaluation returns the new policy and the public event it published.    *)
(*                                                                         *)
(* The phase pending is folded into inactive: no decision reads it.  The   *)
(* activation's path and reason are left out, an episode is its start time *)
(* and so is the activation by it; the audit rows are left out.            *)
(***************************************************************************)
EXTENDS ZoneBelief, FiniteSets

CONSTANTS
    Dwell,             \* release_dwell of the profile
    RefreshRetention,  \* REFRESH_RETENTION
    RefreshLimit       \* REFRESH_LIMIT

ASSUME PolicyAssumption ==
    /\ Dwell \in Nat \ {0} /\ RefreshRetention \in Nat \ {0} /\ RefreshLimit \in Nat \ {0}

NoEvent == "none"
Events == {NoEvent, "acquired", "refreshed", "released"}
Phases == {"inactive", "predicted", "active"}
Provenances == {"none", "evidence", "prediction", "restored_seed"}

\* ZonePolicy without a stored state, with the active flag of an old store.
InitialPolicy(t, active) ==
    [active |-> active, phase |-> IF active THEN "active" ELSE "inactive",
     provenance |-> IF active THEN "restored_seed" ELSE "none",
     pending |-> NoTime, expires |-> NoTime, activatedAt |-> NoTime, held |-> FALSE,
     dedup |-> {}, evaluatedAt |-> t]

\* Mutant: entries are not pruned.
MutPruned(p, t) == p.dedup

\* _pruned_dedup
Pruned(p, t) == {e \in p.dedup : e + RefreshRetention > t}

\* _remember_episode: evidence comes at the start of its episode; newest kept.
Remembered(dedup, e) ==
    LET all == dedup \cup {e}
    IN  {f \in all : Cardinality({g \in all : g > f}) < RefreshLimit}

Off(p, t) ==
    [active |-> FALSE, phase |-> "inactive", provenance |-> "none", pending |-> NoTime,
     expires |-> NoTime, activatedAt |-> NoTime, held |-> FALSE,
     dedup |-> Pruned(p, t), evaluatedAt |-> t]

Outcome(p, event) == [policy |-> p, event |-> event]

(***************************************************************************)
(* evaluate.  What the engine passes beside the belief:                    *)
(*   fact        "none", "positive" or "correlated_positive": confirming   *)
(*               evidence of the zone at this time                         *)
(*   observed    the input was a fresh observation of the zone's sensor    *)
(*   authorized  the fact carries a valid authorization                    *)
(*   below       when the belief crossed the off threshold, if it did      *)
(*   asserted    asserted_stay_hold;  retained  retained_endpoint_hold     *)
(***************************************************************************)
Unheard == [fact |-> "none", observed |-> FALSE, authorized |-> FALSE,
            below |-> NoTime, asserted |-> FALSE, retained |-> FALSE]

RetainedFor(p, b, i) == i.retained \/ (p.provenance = "evidence" /\ Retains(b, p.activatedAt))

\* When displacement and the resolution of occupancy have both happened.
ReleaseFrontier(b) == Later(b.displacedAt, b.resolvedAt)

\* Protected time earns no dwell: the crossing, or the end of the last
\* protection when that is later.
BelowSince(p, b, i) ==
    LET hold == IF p.held /\ ~RetainedFor(p, b, i)
                THEN Later(Known(i.below, b.at), Known(b.departedAt, b.at)) ELSE i.below
    IN  IF b.displacedAt # NoTime THEN Later(Known(hold, b.at), ReleaseFrontier(b)) ELSE hold

PendingSince(p, b) ==
    IF p.pending # NoTime /\ b.displacedAt # NoTime
    THEN Later(p.pending, ReleaseFrontier(b)) ELSE p.pending

Activated(p, e) ==
    [p EXCEPT !.active = TRUE, !.phase = "active", !.provenance = "evidence",
              !.pending = NoTime, !.expires = NoTime, !.activatedAt = e,
              !.dedup = Remembered(@, e)]

Acquire(p, b, i) ==
    IF b.level >= OnLevel /\ i.fact # "none" /\ i.authorized
    THEN Outcome(Activated(p, b.at), "acquired")
    ELSE Outcome(Off(p, b.at), NoEvent)

Confirm(p, b, i) ==
    IF i.fact # "none" THEN Outcome(Activated(p, b.at), NoEvent)
    ELSE IF i.observed THEN Outcome(Off(p, b.at), "released")
    ELSE Outcome(p, NoEvent)

\* Mutant: unresolved occupancy does not stop the release.
MutProtected(p, b, i) ==
    \/ b.hold /\ p.provenance = "evidence"
    \/ i.asserted /\ b.displacedAt = NoTime

Protected(p, b, i) ==
    \/ b.hold /\ p.provenance = "evidence"
    \/ i.asserted /\ b.displacedAt = NoTime
    \/ RetainedFor(p, b, i) /\ p.provenance = "evidence"


ReleasePending(p, b, i) == Known(PendingSince(p, b), Known(BelowSince(p, b, i), b.at))

\* Mutant: the end of the dwell is not part of it.
MutDwellEnd(p, b, i) ==
    IF Protected(p, b, i) \/ b.level > OffLevel
    THEN Outcome([p EXCEPT !.pending = NoTime], NoEvent)
    ELSE IF b.at > ReleasePending(p, b, i) + Dwell THEN Outcome(Off(p, b.at), "released")
    ELSE Outcome([p EXCEPT !.pending = ReleasePending(p, b, i)], NoEvent)

HoldOrRelease(p, b, i) ==
    IF Protected(p, b, i) \/ b.level > OffLevel
    THEN Outcome([p EXCEPT !.pending = NoTime], NoEvent)
    ELSE IF b.at >= ReleasePending(p, b, i) + Dwell THEN Outcome(Off(p, b.at), "released")
    ELSE Outcome([p EXCEPT !.pending = ReleasePending(p, b, i)], NoEvent)

Refresh(o, b, i) ==
    IF o.policy.active /\ i.fact = "positive" /\ b.at \notin o.policy.dedup
    THEN Outcome([o.policy EXCEPT !.dedup = Remembered(@, b.at)], "refreshed") ELSE o

Projected(p, b, i) ==
    IF ~p.active THEN Acquire(p, b, i)
    ELSE IF p.phase = "predicted" THEN Confirm(p, b, i)
    ELSE Refresh(HoldOrRelease(p, b, i), b, i)

\* The hold that the next evaluation compares with.
Remembering(p, b, i, o) ==
    LET after == o.policy
    IN  Outcome([after EXCEPT !.held = /\ after.phase = "active" /\ after.provenance = "evidence"
                                       /\ RetainedFor(p, b, i) \/ Retains(b, after.activatedAt)],
                o.event)

Evaluate(p, b, i) ==
    Remembering(p, b, i,
        Projected([p EXCEPT !.dedup = Pruned(p, b.at), !.evaluatedAt = b.at], b, i))

(***************************************************************************)
(* Predictions and count zero                                              *)
(***************************************************************************)
\* apply_prediction, for the one mature lease that targets the zone
ApplyPrediction(p, t, expires) ==
    IF p.active THEN Outcome(p, NoEvent)
    ELSE Outcome([Off(p, t) EXCEPT !.active = TRUE, !.phase = "predicted",
                                   !.provenance = "prediction", !.expires = expires],
                 "acquired")

Expirable(p, t, force) == p.phase = "predicted" /\ (p.expires <= t \/ force)

ExpirePrediction(p, t, force) ==
    IF Expirable(p, t, force) THEN Outcome(Off(p, t), "released") ELSE Outcome(p, NoEvent)

CountZero(p, t) == Outcome(Off(p, t), IF p.active THEN "released" ELSE NoEvent)

(***************************************************************************)
(* What ZonePolicyState.__post_init__ accepts                              *)
(***************************************************************************)
PolicyType ==
    [active : BOOLEAN, phase : Phases, provenance : Provenances,
     pending : Nat \cup {NoTime}, expires : Nat \cup {NoTime},
     activatedAt : Nat \cup {NoTime}, held : BOOLEAN, dedup : SUBSET Nat, evaluatedAt : Nat]

PhaseOK(p) ==
    /\ p.active <=> p.phase # "inactive"
    /\ p.phase = "predicted" <=> p.provenance = "prediction"
    /\ p.phase = "inactive" <=> p.provenance = "none"
    /\ p.phase = "predicted" <=> p.expires # NoTime
    /\ p.phase = "predicted" => p.expires > p.evaluatedAt

ActivationOK(p) ==
    /\ p.activatedAt # NoTime <=> p.phase = "active" /\ p.provenance = "evidence"
    /\ p.activatedAt <= p.evaluatedAt

PendingOK(p) == p.pending # NoTime => p.active /\ p.pending <= p.evaluatedAt

HeldOK(p) ==
    p.held => p.phase = "active" /\ p.provenance = "evidence" /\ p.pending = NoTime

DedupOK(p) ==
    /\ Cardinality(p.dedup) <= RefreshLimit
    /\ \A e \in p.dedup : e <= p.evaluatedAt /\ e + RefreshRetention > p.evaluatedAt

PolicyOK(p) == PhaseOK(p) /\ ActivationOK(p) /\ PendingOK(p) /\ HeldOK(p) /\ DedupOK(p)
=============================================================================
