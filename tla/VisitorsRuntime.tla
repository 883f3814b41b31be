-------------------------- MODULE VisitorsRuntime ---------------------------
(***************************************************************************)
(* runtime.py and __init__.py around the Visitors mode: setup, callbacks   *)
(* of the event loop, the exit timer, publication and the saves, with the  *)
(* awaits where other callbacks run and the crashes a restart follows.     *)
(* The Store of Home Assistant is external: one write at a time, the last  *)
(* request wins, a delayed save takes its data when it is written.         *)
(***************************************************************************)
EXTENDS VisitorsMode, FiniteSets

VARIABLES
    now,
    phase,      \* of the config entry
    zones,      \* zones of the loaded map
    active,     \* zones whose policy is active
    mode,       \* runtime.visitors
    timer,      \* when _unsubscribe_visitors_deadline fires
    awaiting,   \* a toggle awaits its save
    disk,       \* the stored visitors_mode
    queued,     \* Store._data: what the next write takes
    waiting,    \* a save waits for the write lock
    delayed,    \* a delayed save is armed
    writing     \* the write in progress

storeVars == <<disk, queued, waiting, delayed, writing>>
vars == <<now, phase, zones, active, mode, timer, awaiting, storeVars>>

Phases == {"down", "loading", "up", "setup_error", "stopping"}
Nothing == [nothing |-> TRUE]
Live == [live |-> TRUE]     \* whatever transition_store_data returns when written

Payloads == {NoManual} \cup [enabled : BOOLEAN, held : SUBSET AllZones, exitAt : Nat \cup {NoTime}]

(***************************************************************************)
(* The Store                                                               *)
(***************************************************************************)
AsyncSave(payload) ==
    /\ UNCHANGED disk
    /\ IF writing = Nothing
       THEN writing' = payload /\ queued' = Nothing /\ delayed' = FALSE /\ UNCHANGED waiting
       ELSE queued' = payload /\ waiting' = TRUE /\ UNCHANGED <<writing, delayed>>

\* schedule_transition_count_save
ScheduleSave ==
    /\ queued' = Live /\ delayed' = TRUE
    /\ UNCHANGED <<disk, waiting, writing>>

\* Mutant: what a callback changed waits for the next toggle to be saved.
MutScheduleSaveIf(due) == UNCHANGED storeVars

ScheduleSaveIf(due) == IF due THEN ScheduleSave ELSE UNCHANGED storeVars

Resolved(data) == IF data = Live THEN StoreData(mode) ELSE data

DelayedSave ==
    /\ delayed
    /\ delayed' = FALSE
    /\ IF writing = Nothing
       THEN writing' = Resolved(queued) /\ queued' = Nothing /\ UNCHANGED waiting
       ELSE waiting' = TRUE /\ UNCHANGED <<writing, queued>>
    /\ UNCHANGED <<now, phase, zones, active, mode, timer, awaiting, disk>>

(***************************************************************************)
(* The runtime                                                             *)
(***************************************************************************)
\* Mutant: the exit timer is armed once and never moved.
MutDeadlineOf(m) == IF timer # NoTime THEN timer ELSE m.exitAt

\* Mutant: only a restored grace period has a timer.
MutDeadlineNever(m) == IF phase = "down" THEN m.exitAt ELSE NoTime

\* _schedule_visitors_deadline: the old timer is cancelled.
DeadlineOf(m) == m.exitAt

\* Mutant: publication retains nothing.
MutPublished(m, act) == m

\* _dispatch_update: publication retains the zones active by then.
Published(m, act) == RetainActive(m, act)

Init ==
    /\ now = 0 /\ phase = "down"
    /\ zones \in SUBSET AllZones \ {{}} /\ active = {}
    /\ mode = Disabled /\ timer = NoTime /\ awaiting = FALSE
    /\ disk = NoManual /\ queued = Nothing /\ waiting = FALSE /\ delayed = FALSE
    /\ writing = Nothing

Tick ==
    /\ now < MaxTime
    /\ now' = now + 1
    /\ UNCHANGED <<phase, zones, active, mode, timer, awaiting, storeVars>>

\* async_setup_entry up to restore_stored_state; the map may be a new one.
Load ==
    /\ phase = "down"
    /\ phase' = "loading"
    /\ zones' \in SUBSET AllZones \ {{}}
    /\ mode' = Restore(disk, zones', now)
    /\ timer' = DeadlineOf(mode')
    /\ UNCHANGED <<now, active, awaiting, storeVars>>

MappedEntities == {e \in Entities : ZoneOf[e] \in zones}

\* runtime.start: sample, subscribe, publish, save.
Start ==
    /\ phase = "loading"
    /\ phase' = "up"
    /\ \E known \in SUBSET MappedEntities : \E on \in SUBSET known :
        /\ active' \in SUBSET zones
        /\ mode' = Published(Sample(mode, known, on, now), active')
        /\ ScheduleSaveIf(known # {} \/ mode'.held # mode.held)
    /\ UNCHANGED <<now, zones, timer, awaiting>>

\* runtime.start raises before it subscribes: the count or the snapshot is
\* refused.
StartFails ==
    /\ phase = "loading"
    /\ phase' = "setup_error"
    /\ UNCHANGED <<now, zones, active, mode, timer, awaiting, storeVars>>

\* _observe_entity: the event reaches Visitors, then the model and its
\* publication, and what was accepted is saved.
ObserveEntity(e, level, at) ==
    /\ phase = "up"
    /\ active' \in SUBSET zones
    /\ mode' = Published(Observe(mode, e, level, at, now), active')
    /\ ScheduleSave
    /\ UNCHANGED <<now, phase, zones, timer, awaiting>>

\* The count, a refresh or an expiry changes the policies and publishes; the
\* handler saves only when it has learned something (save).
PolicyChange(save) ==
    /\ phase = "up"
    /\ active' \in SUBSET zones
    /\ active' # active
    /\ mode' = Published(mode, active')
    /\ ScheduleSaveIf(save \/ mode' # mode)
    /\ UNCHANGED <<now, phase, zones, timer, awaiting>>

\* async_set_visitors_mode up to its await.
Toggle(enabled) ==
    /\ phase = "up"
    /\ \E on \in SUBSET MappedEntities :  \* the entities now asserted
        LET changed == enabled # mode.enabled
            m1 == SetEnabled(mode, enabled, now)
            m2 == IF changed /\ enabled THEN Sample(m1, MappedEntities, on, now) ELSE m1
        IN  mode' = RetainActive(m2, active)
    /\ timer' = DeadlineOf(mode')
    /\ AsyncSave(StoreData(mode'))
    /\ awaiting' = TRUE
    /\ UNCHANGED <<now, phase, zones, active>>

\* _async_visitors_deadline
VisitorsDeadline ==
    /\ timer # NoTime /\ now >= timer
    /\ timer' = NoTime
    /\ mode' = Expire(mode, now)
    /\ ScheduleSaveIf(ExpireDue(mode, now))
    /\ UNCHANGED <<now, phase, zones, active, awaiting>>

\* The write ends, the next one starts, and a toggle that awaited it publishes.
WriteDone ==
    /\ writing # Nothing
    /\ disk' = writing
    /\ mode' = IF awaiting THEN Published(mode, active) ELSE mode
    /\ awaiting' = (awaiting /\ waiting)
    /\ IF waiting /\ queued # Nothing
       THEN writing' = Resolved(queued) /\ queued' = Nothing /\ delayed' = FALSE
       ELSE writing' = Nothing /\ UNCHANGED <<queued, delayed>>
    /\ waiting' = FALSE
    /\ UNCHANGED <<now, phase, zones, active, timer>>

\* async_unload_entry: every subscription is cancelled, then the save.
Stop ==
    /\ phase = "up"
    /\ phase' = "stopping"
    /\ timer' = NoTime
    /\ AsyncSave(StoreData(mode))
    /\ UNCHANGED <<now, zones, active, mode, awaiting>>

Discarded ==
    /\ phase' = "down"
    /\ mode' = Disabled /\ timer' = NoTime /\ awaiting' = FALSE /\ active' = {}
    /\ queued' = Nothing /\ waiting' = FALSE /\ delayed' = FALSE /\ writing' = Nothing
    /\ UNCHANGED <<now, zones, disk>>

Stopped ==
    /\ phase = "stopping"
    /\ writing = Nothing /\ ~waiting
    /\ Discarded

\* The process ends without a warning; a write in progress is lost.
Crash == phase # "down" /\ Discarded

EventTimes == {at \in Times : at >= now - 2 /\ at <= now + 1}

Next ==
    \/ Tick
    \/ Load
    \/ Start
    \/ StartFails
    \/ \E e \in MappedEntities, level \in {"on", "off"}, at \in EventTimes : ObserveEntity(e, level, at)
    \/ \E save \in BOOLEAN : PolicyChange(save)
    \/ \E enabled \in BOOLEAN : Toggle(enabled)
    \/ VisitorsDeadline
    \/ WriteDone
    \/ DelayedSave
    \/ Stop
    \/ Stopped
    \/ Crash

Spec == Init /\ [][Next]_vars

\* The event loop runs due timers and the executor ends its writes; time passes.
Fairness ==
    /\ WF_vars(Tick)
    /\ WF_vars(VisitorsDeadline)
    /\ WF_vars(WriteDone)
    /\ WF_vars(DelayedSave)

FairSpec == Spec /\ Fairness

(***************************************************************************)
(* Properties                                                              *)
(***************************************************************************)
\* Type invariant of the runtime, the mode and the Store; zones are those of the
\* map in use, whatever map the stored record was written under.
TypeOK ==
    /\ now \in Times /\ phase \in Phases
    /\ zones \in SUBSET AllZones /\ active \in SUBSET zones
    /\ mode \in Mode /\ mode.held \subseteq zones /\ timer \in Nat \cup {NoTime}
    /\ {awaiting, waiting, delayed} \subseteq BOOLEAN
    /\ disk \in Payloads
    /\ queued \in Payloads \cup {Nothing, Live} /\ writing \in Payloads \cup {Nothing}

\* What visitors.restore makes of the record that reaches the disk, up to the
\* fields it does not store; a release that is due counts as done.
Recovered(payload, m) ==
    LET r == Restore(payload, zones, now)  e == Expire(m, now) IN
    /\ r.enabled = e.enabled /\ r.held = e.held
    /\ e.held # {} => r.exitAt = e.exitAt

Saved == IF queued # Nothing THEN queued ELSE IF writing # Nothing THEN writing ELSE disk

\* Whatever the interleaving of toggles, motion, expiries and writes, the last
\* write requested so far leaves on the disk a record from which a restart
\* recovers the mode of the running entry, or of the one being unloaded.
Durable == phase \in {"up", "stopping"} => Saved = Live \/ Recovered(Saved, mode)

\* Every record written is one that visitors.restore accepts at the next start
\* (it never resets a mode that this program stored), and the mode it came from
\* holds no zone that the map does not have.
StoredAccepted ==
    /\ TypeOK
    /\ \A payload \in {disk, writing} \ {Nothing, NoManual} : Accepts(payload)

\* While the entry runs the exit timer stands exactly at the exit of the mode:
\* no toggle, restore or expiry leaves a hold without its release.
Armed == phase \in {"loading", "up"} => timer = mode.exitAt

\* A zone that normal policy holds active is held while the mode is on, also
\* when it became active during an awaited save or before the mode was enabled.
ActiveHeld == phase = "up" /\ mode.enabled => active \subseteq mode.held

\* Disabled holds are released unless the mode is enabled again or the entry
\* goes down: no further input edge is needed.
Releasing ==
    phase = "up" /\ ~mode.enabled /\ mode.held # {} /\ (mode.exitAt = NoTime \/ mode.exitAt <= MaxTime)
Released == Releasing ~> (mode.held = {} \/ mode.enabled \/ phase # "up")

\* runtime.py says of start: "A startup validation error must not leave orphaned
\* state and timer callbacks running after Home Assistant marks the entry
\* setup_error."  restore_stored_state has armed the exit timer by then.
NoOrphanTimer == phase = "setup_error" => timer = NoTime
=============================================================================
