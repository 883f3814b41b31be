---------------------------- MODULE RuntimeCalls -----------------------------
(***************************************************************************)
(* The calls that reach the zone model: the runtime's callbacks of         *)
(* runtime.py, the facade of occupancy_tracker.py and the transaction of   *)
(* engine.observe.  A callback synchronizes the authoritative count,       *)
(* changes the model, publishes what it committed to subscribers, hands    *)
(* its audit rows and learned moves over, and commits the learning.        *)
(* Subscribers run in the middle: they may raise, and they may make the    *)
(* count entity change, whose callback then finds mutation forbidden.      *)
(*                                                                         *)
(* Audit rows of one zone and learned moves (by number) are what an        *)
(* operation decides; what it decides is an input.  Config entry reloads   *)
(* store the model and load it later.                                      *)
(***************************************************************************)
EXTENDS CountControl

CONSTANTS
    Readings,   \* what the count entity may say: counts, supported or not, or Invalid
    Invalid,
    RowSizes,   \* encoded sizes of audit rows
    MaxEvents,  \* bound on the policy events one observation publishes
    MaxLearned, \* bound on the learned moves
    Starts,     \* counts an installation may have been brought to
    StartTime,  \* the clock at first
    MaxTime     \* bound on the clock

Times == 0 .. MaxTime
Reports == [value : Readings \ {Invalid}, at : Times]

ASSUME CallsAssumption ==
    /\ Readings \ {Invalid} \subseteq Nat
    /\ RowSizes \subseteq Nat \ {0}
    /\ {MaxEvents, MaxLearned, StartTime, MaxTime} \subseteq Nat
    /\ StartTime <= MaxTime

\* What an installation starts with is a count that reports of supported values
\* brought about, in their order, the last of them in force (CountState).
ASSUME StartsAssumption ==
    \A c \in Starts :
       /\ c \in [value : (Readings \ {Invalid}) \cap 0 .. MaxOccupants, last : Reports \cup {NoReport},
                 enteredAt : {NoTime} \cup 0 .. StartTime, seen : Seq(Reports)]
       /\ c.enteredAt # NoTime => c.value > 0
       /\ c.last # NoReport => Contains(c.seen, c.last) /\ c.last.value = c.value
       /\ Len(c.seen) <= SeenLimit /\ IsInjective(c.seen)
       /\ \A i \in DOMAIN c.seen : c.seen[i].at <= Last(c.seen).at
       /\ c.seen # <<>> => Last(c.seen).value = c.value /\ Last(c.seen).at <= StartTime

VARIABLES
    now,
    up,       \* the config entry is loaded
    entity,   \* the count entity: its value and last_changed
    ran,      \* the running entry's callback has taken that state
    earlier,  \* the last state before it that a callback took
    tracker,  \* count: CountContext; requested: requested_expected_occupants;
              \* at: engine._updated_at
    log,      \* the audit log
    pending,  \* length of _pending_prediction_learning
    learned,  \* moves handed to the predictions
    call      \* the callback in progress

vars == <<now, up, entity, ran, earlier, tracker, log, pending, learned, call>>

NoCall == [stage |-> "none"]

\* Mutant: subscribers may change the model.
MutMutationAllowed == TRUE

\* assert_mutation_allowed: neither a decision callback nor a projection runs.
MutationAllowed == call = NoCall

Idle == up /\ call = NoCall

(***************************************************************************)
(* The count                                                               *)
(***************************************************************************)
\* Mutant: a report of the very time of the last call is stale.
MutBehind(t, r) == r.at <= t.at

\* The frontier of engine.observe_count.
Behind(t, r) == r.at < t.at

\* reconcile_expected_occupants
Reconciled(t, r) ==
    IF r.value > MaxOccupants THEN [t EXCEPT !.requested = r.value]
    ELSE IF Behind(t, r) THEN t
    ELSE LET c == Counting(t.count, r)
             d == Disposition(t.count, r)
             adopts == d = "accepted" \/ (d = "duplicate" /\ r.value = c.value)
         IN  [count |-> c, at |-> r.at, requested |-> IF adopts THEN c.value ELSE t.requested]

\* _sync_expected_occupants
Synced(t, r) == IF r.value \in {Invalid, t.requested} THEN t ELSE Reconciled(t, r)

(***************************************************************************)
(* The callbacks                                                           *)
(***************************************************************************)
\* The callback publishes once more, then finishes.
Dispatching == [stage |-> "dispatch"]
Finishing == [stage |-> "finish"]

Init ==
    /\ now = StartTime /\ up = TRUE
    /\ \E c \in Starts :
          /\ entity = IF c.seen = <<>> THEN [value |-> c.value, at |-> StartTime] ELSE Last(c.seen)
          /\ tracker = [count |-> c, requested |-> c.value, at |-> StartTime]
    /\ ran = TRUE /\ earlier = NoReport
    /\ log = <<>>
    /\ pending = 0 /\ learned = 0
    /\ call = NoCall

Tick ==
    /\ call = NoCall /\ now < MaxTime
    /\ now' = now + 1
    /\ UNCHANGED <<up, entity, ran, earlier, tracker, log, pending, learned, call>>

\* The count entity changes, at a time of its own, between callbacks or in a
\* subscriber.  Its callback runs at once, unless the entry is not loaded; in a
\* subscriber it finds mutation forbidden and raises.
CountChanges(v) ==
    /\ call.stage # "finish"
    /\ v # entity.value /\ entity.at < now
    /\ entity' = [value |-> v, at |-> now]
    /\ ran' = Idle /\ earlier' = IF ran THEN entity ELSE earlier
    /\ IF up /\ MutationAllowed THEN tracker' = Synced(tracker, entity') ELSE UNCHANGED tracker
    /\ call' = IF Idle THEN Dispatching ELSE call
    /\ UNCHANGED <<now, up, log, pending, learned>>

\* The callback of an earlier state comes again.
RepeatedReport ==
    /\ Idle /\ earlier # NoReport
    /\ tracker' = Synced(tracker, earlier)
    /\ call' = Dispatching
    /\ UNCHANGED <<now, up, entity, ran, earlier, log, pending, learned>>

Rows(t) == {<<>>} \cup {<<[at |-> t, size |-> s]>> : s \in RowSizes}

\* _observe_entity of an event of time t: sync, then engine.observe up to the
\* publication.  A refused or a failing observation keeps neither rows nor moves.
Observe(t, rows, moves, events) ==
    LET synced == Synced(tracker, entity)
    IN  /\ Idle /\ t <= now
        /\ tracker' = IF t < synced.at THEN synced ELSE [synced EXCEPT !.at = t]
        /\ t < synced.at => rows = <<>> /\ moves = 0 /\ events = 0
        /\ pending' = pending + moves
        /\ \E folds \in BOOLEAN :
              /\ folds => t >= synced.at
              /\ ~folds => moves = 0
              /\ call' = [stage |-> "publish", left |-> events, rows |-> rows,
                          prior |-> IF folds THEN pending ELSE 0, failed |-> FALSE]
        /\ UNCHANGED <<now, up, entity, ran, earlier, log, learned>>

ObserveFails ==
    /\ Idle
    /\ tracker' = Synced(tracker, entity)
    /\ call' = Finishing
    /\ UNCHANGED <<now, up, entity, ran, earlier, log, pending, learned>>

\* safe_callback: a subscriber of one policy event.
Publish(raises) ==
    /\ call.stage = "publish" /\ call.left > 0 /\ ~call.failed
    /\ call' = [call EXCEPT !.left = @ - 1, !.failed = raises]
    /\ UNCHANGED <<now, up, entity, ran, earlier, tracker, log, pending, learned>>

\* Mutant: a subscriber's failure takes the rows of the operation along.
MutHanded(rows) == IF call.failed THEN log ELSE LoggedAll(log, rows)

Handed(rows) == LoggedAll(log, rows)

\* Mutant: what was handed over stays queued.
MutRemaining(n) == pending

Remaining(n) == pending - n

\* The end of engine.observe: the rows and the moves of before are handed over,
\* then the failure of a subscriber is raised.
HandOver ==
    /\ call.stage = "publish" /\ (call.left = 0 \/ call.failed)
    /\ log' = Handed(call.rows)
    /\ learned' = learned + call.prior /\ pending' = Remaining(call.prior)
    /\ call' = IF call.failed THEN Finishing ELSE Dispatching
    /\ UNCHANGED <<now, up, entity, ran, earlier, tracker>>

\* _publish_update, whether a subscriber raises or not.
Dispatch ==
    /\ call.stage = "dispatch"
    /\ call' = Finishing
    /\ UNCHANGED <<now, up, entity, ran, earlier, tracker, log, pending, learned>>

\* _finish_learning, or its failure to schedule the deadline before it commits.
Finish ==
    /\ call.stage = "finish"
    /\ \/ learned' = learned + pending /\ pending' = Remaining(pending)
       \/ UNCHANGED <<learned, pending>>
    /\ call' = NoCall
    /\ UNCHANGED <<now, up, entity, ran, earlier, tracker, log>>

\* The timers: _async_refresh_active_confidence, which synchronizes the count
\* first, and _async_expire_transient_state.  Their rows are logged at once.
Timer(syncs, rows, publishes) ==
    /\ Idle
    /\ tracker' = [IF syncs THEN Synced(tracker, entity) ELSE tracker EXCEPT !.at = now]
    /\ log' = LoggedAll(log, rows)
    /\ call' = IF publishes THEN Dispatching ELSE Finishing
    /\ UNCHANGED <<now, up, entity, ran, earlier, pending, learned>>

\* async_stop: no callback of the entity comes any more, and the store takes the
\* queued learning as learned.
Stop ==
    /\ Idle
    /\ up' = FALSE
    /\ ran' = FALSE /\ earlier' = NoReport
    /\ learned' = learned + pending /\ pending' = 0
    /\ UNCHANGED <<now, entity, tracker, log, call>>

\* restore_stored_state and start: the model is advanced to now and adopts the
\* stored count before it synchronizes.
Start ==
    /\ ~up
    /\ up' = TRUE
    /\ tracker' = Synced([tracker EXCEPT !.at = now, !.requested = tracker.count.value], entity)
    /\ call' = Dispatching
    /\ UNCHANGED <<now, entity, ran, earlier, log, pending, learned>>

Next ==
    \/ Tick
    \/ \E v \in Readings : CountChanges(v)
    \/ RepeatedReport
    \/ \E t \in Times, events \in 0 .. MaxEvents, moves \in 0 .. MaxLearned - (learned + pending) :
          \E rows \in Rows(t) : Observe(t, rows, moves, events)
    \/ ObserveFails
    \/ \E raises \in BOOLEAN : Publish(raises)
    \/ HandOver
    \/ Dispatch
    \/ Finish
    \/ \E syncs, publishes \in BOOLEAN, rows \in Rows(now) : Timer(syncs, rows, publishes)
    \/ Stop
    \/ Start

Spec == Init /\ [][Next]_vars

(***************************************************************************)
(* Properties                                                              *)
(***************************************************************************)
\* Types, and the bounds of the audit log: its rows are in the order of time,
\* younger than its maximal age when the last one came, and within its limits.
TypeOK ==
    /\ now \in Times /\ {up, ran} \subseteq BOOLEAN
    /\ entity \in [value : Readings, at : 0 .. now]
    /\ earlier \in [value : Readings, at : 0 .. now] \cup {NoReport}
    /\ tracker.count.value \in 0 .. MaxOccupants
    /\ tracker.count.last \in Reports \cup {NoReport}
    /\ tracker.requested \in Readings \ {Invalid} /\ tracker.at \in 0 .. now
    /\ pending \in 0 .. MaxLearned /\ learned \in 0 .. MaxLearned
    /\ call.stage \in {"none", "publish", "dispatch", "finish"}
    /\ log \in Seq([at : 0 .. tracker.at, size : 1 .. AuditRowBytes])
    /\ Len(log) <= AuditRows /\ Bytes(log) <= AuditBytes
    /\ \A i, j \in DOMAIN log :
          i < j => log[i].at <= log[j].at /\ log[j].at - log[i].at < AuditAge

\* Whenever it is stored, the count can be restored: validate_count_control and
\* CountState refuse a snapshot whose accepted report is not among the ones
\* remembered, whose remembered reports repeat or are too many, or whose times
\* are later than the frontier of the model.  The audit log is within its limits.
Restorable ==
    LET c == tracker.count
    IN  /\ TypeOK
        /\ c.last # NoReport => Contains(c.seen, c.last) /\ c.last.at <= tracker.at
        /\ Len(c.seen) <= SeenLimit
        /\ \A i, j \in DOMAIN c.seen : c.seen[i] = c.seen[j] => i = j
        /\ c.enteredAt # NoTime => c.enteredAt <= tracker.at /\ c.value > 0

\* A supported count that comes to an idle runtime is taken up at once, and once
\* taken up stays in force in the engine until the count entity says something
\* else, whatever repeated reports, observations, timers and subscribers come in
\* between.
HeardInForce ==
    /\ up /\ (ran \/ tracker.count.last = entity)
    /\ entity.value # Invalid /\ entity.value <= MaxOccupants
    => tracker.count.value = entity.value

\* An entry that is loaded again starts from what the count entity says, also when
\* it changed while the entry was not loaded (tests/test_runtime.py:94-117).
StartsFromEntity ==
    [][~up /\ up' /\ entity.value # Invalid => tracker'.requested = entity.value]_vars
=============================================================================
