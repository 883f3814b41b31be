--------------------------- MODULE VisitorsProofs ---------------------------
(***************************************************************************)
(* The Visitors runtime for any map, entities, grace period and bound on   *)
(* the clock.  Coherent is what visitors.restore asks of a mode; Fits says *)
(* that a record recovers a mode; Sound is the inductive invariant.  Its   *)
(* parts are stronger than the properties they prove: the mode is fit to   *)
(* be saved in every phase, since a timer or a write may still change what *)
(* is stored while the entry loads, has failed or is being unloaded.       *)
(***************************************************************************)
EXTENDS MCVisitors, TLAPS

Coherent(m) ==
    /\ m.enabled => m.exitAt = NoTime
    /\ ~m.enabled /\ m.held # {} => m.exitAt # NoTime

Modes(z) == {m \in Mode : m.held \subseteq z /\ Coherent(m)}

Same(m, n) == m.enabled = n.enabled /\ m.held = n.held /\ m.exitAt = n.exitAt

Stored == [enabled : BOOLEAN, held : SUBSET AllZones, exitAt : Nat \cup {NoTime}]

Accepted == {NoManual} \cup {p \in Stored : Accepts(p)}

Fits(p, m, z, t) ==
    LET r == Restore(p, z, t)  e == Expire(m, t) IN
    /\ r.enabled = e.enabled /\ r.held = e.held
    /\ e.held # {} => r.exitAt = e.exitAt

TypeInv ==
    /\ now \in Times /\ phase \in Phases
    /\ zones \in SUBSET AllZones /\ active \in SUBSET zones
    /\ mode \in Modes(zones) /\ timer \in Nat \cup {NoTime}
    /\ awaiting \in BOOLEAN /\ waiting \in BOOLEAN /\ delayed \in BOOLEAN
    /\ disk \in Accepted /\ queued \in Accepted \cup {Nothing, Live}
    /\ writing \in Accepted \cup {Nothing}

SaveInv == phase # "down" => Saved = Live \/ Fits(Saved, mode, zones, now)

Sound ==
    /\ TypeInv
    /\ phase = "down" => timer = NoTime /\ queued = Nothing /\ writing = Nothing
    /\ phase \in {"down", "loading"} => active = {}
    /\ mode.enabled => active \subseteq mode.held
    /\ delayed => queued # Nothing
    /\ SaveInv
    /\ Armed

-----------------------------------------------------------------------------
(* The mode. *)

LEMMA TimeFacts ==
    /\ NoTime = -1 /\ NoTime \notin Times /\ NoTime \notin Nat /\ Times \subseteq Nat
    /\ 0 \in Times /\ Grace \in Nat /\ Grace > 0
    /\ \A t \in Times : t \in Nat
BY VisitorsAssumption DEF NoTime, Times

LEMMA DisabledOK == \A z \in SUBSET AllZones : Disabled \in Modes(z)
BY TimeFacts DEF Modes, Mode, Coherent, Disabled, NoFrontier

LEMMA SetEnabledOK ==
    ASSUME NEW z \in SUBSET AllZones, NEW m \in Modes(z), NEW on \in BOOLEAN, NEW t \in Times
    PROVE  SetEnabled(m, on, t) \in Modes(z) /\ SetEnabled(m, on, t).enabled = on
<1>1. CASE on = m.enabled
  BY <1>1 DEF SetEnabled
<1>2. CASE on # m.enabled
  <2>1. t + Grace \in Nat /\ t + Grace # NoTime /\ t \in Times \cup {NoTime}
    BY TimeFacts
  <2>2. NoFrontier \in [Entities -> Times \cup {NoTime}]
    BY DEF NoFrontier
  <2>3. m \in [enabled : BOOLEAN, held : SUBSET AllZones, exitAt : Nat \cup {NoTime},
               startedAt : Times \cup {NoTime}, frontier : [Entities -> Times \cup {NoTime}]]
        /\ m.held \subseteq z /\ Coherent(m)
    BY DEF Modes, Mode
  <2>4. SetEnabled(m, on, t) =
            [enabled |-> on, held |-> m.held,
             exitAt |-> IF ~on /\ m.held # {} THEN t + Grace ELSE NoTime,
             startedAt |-> IF on THEN t ELSE NoTime, frontier |-> NoFrontier]
    BY <1>2, <2>3 DEF SetEnabled
  <2> QED
    BY <2>1, <2>2, <2>3, <2>4 DEF Modes, Mode, Coherent
<1> QED BY <1>1, <1>2

LEMMA SampleOK ==
    ASSUME NEW z \in SUBSET AllZones, NEW m \in Modes(z), NEW known, NEW on \in SUBSET Entities,
           \A e \in on : ZoneOf[e] \in z, NEW t \in Times
    PROVE  LET r == Sample(m, known, on, t)
           IN  /\ r \in Modes(z) /\ r.enabled = m.enabled /\ r.exitAt = m.exitAt
               /\ m.held \subseteq r.held
               /\ on = {} => r.held = m.held
<1>1. m \in [enabled : BOOLEAN, held : SUBSET AllZones, exitAt : Nat \cup {NoTime},
             startedAt : Times \cup {NoTime}, frontier : [Entities -> Times \cup {NoTime}]]
      /\ m.held \subseteq z /\ Coherent(m)
  BY DEF Modes, Mode
<1>2. CASE ~m.enabled
  BY <1>2 DEF Sample
<1>3. CASE m.enabled
  <2> DEFINE f == [e \in Entities |-> IF e \in known THEN t ELSE m.frontier[e]]
             s == m.held \cup {ZoneOf[e] : e \in on}
  <2>1. f \in [Entities -> Times \cup {NoTime}]
    BY <1>1
  <2>2. s \subseteq z /\ s \in SUBSET AllZones /\ m.held \subseteq s /\ (on = {} => s = m.held)
    BY <1>1
  <2>3. Sample(m, known, on, t) = [enabled |-> m.enabled, held |-> s, exitAt |-> m.exitAt,
                                   startedAt |-> t, frontier |-> f]
    BY <1>1, <1>3 DEF Sample
  <2> HIDE DEF f, s
  <2> QED
    BY <1>1, <1>3, <2>1, <2>2, <2>3 DEF Modes, Mode, Coherent
<1> QED BY <1>1, <1>2, <1>3

LEMMA ObserveOK ==
    ASSUME NEW z \in SUBSET AllZones, NEW m \in Modes(z), NEW e \in Entities, ZoneOf[e] \in z,
           NEW level, NEW at \in Times, NEW t \in Times
    PROVE  LET r == Observe(m, e, level, at, t)
           IN  r \in Modes(z) /\ r.enabled = m.enabled /\ r.exitAt = m.exitAt
<1>1. m \in [enabled : BOOLEAN, held : SUBSET AllZones, exitAt : Nat \cup {NoTime},
             startedAt : Times \cup {NoTime}, frontier : [Entities -> Times \cup {NoTime}]]
      /\ m.held \subseteq z /\ Coherent(m)
  BY DEF Modes, Mode
<1>2. CASE ~Usable(m, e, at, t)
  BY <1>2 DEF Observe
<1>3. CASE Usable(m, e, at, t)
  <2> DEFINE f == [m.frontier EXCEPT ![e] = at]
             s == IF level = "on" THEN m.held \cup {ZoneOf[e]} ELSE m.held
  <2>1. f \in [Entities -> Times \cup {NoTime}] /\ s \subseteq z /\ s \in SUBSET AllZones
    BY <1>1
  <2>2. m.enabled
    BY <1>3 DEF Usable
  <2>3. Observe(m, e, level, at, t) = [enabled |-> m.enabled, held |-> s, exitAt |-> m.exitAt,
                                       startedAt |-> m.startedAt, frontier |-> f]
    BY <1>1, <1>3 DEF Observe
  <2> HIDE DEF f, s
  <2> QED
    BY <1>1, <2>1, <2>2, <2>3 DEF Modes, Mode, Coherent
<1> QED BY <1>2, <1>3

LEMMA RetainOK ==
    ASSUME NEW z \in SUBSET AllZones, NEW m \in Modes(z), NEW a \in SUBSET z
    PROVE  LET r == RetainActive(m, a)
           IN  /\ r \in Modes(z) /\ r.enabled = m.enabled /\ r.exitAt = m.exitAt
               /\ m.enabled => a \subseteq r.held
               /\ m.enabled /\ a \subseteq m.held => r = m
               /\ ~m.enabled => r = m
<1>1. m \in [enabled : BOOLEAN, held : SUBSET AllZones, exitAt : Nat \cup {NoTime},
             startedAt : Times \cup {NoTime}, frontier : [Entities -> Times \cup {NoTime}]]
      /\ m.held \subseteq z /\ Coherent(m)
  BY DEF Modes, Mode
<1>2. CASE ~m.enabled
  BY <1>2 DEF RetainActive
<1>3. CASE m.enabled
  <2>1. RetainActive(m, a) = [enabled |-> m.enabled, held |-> m.held \cup a, exitAt |-> m.exitAt,
                              startedAt |-> m.startedAt, frontier |-> m.frontier]
    BY <1>1, <1>3 DEF RetainActive
  <2>2. m.held \cup a \subseteq z /\ m.held \cup a \in SUBSET AllZones
    BY <1>1
  <2>3. ASSUME a \subseteq m.held PROVE RetainActive(m, a) = m
    <3>1. m.held \cup a = m.held
      BY <2>3
    <3> QED BY <1>1, <2>1, <3>1
  <2> QED BY <1>1, <1>3, <2>1, <2>2, <2>3 DEF Modes, Mode, Coherent
<1> QED BY <1>2, <1>3

LEMMA ExpireOK ==
    ASSUME NEW z \in SUBSET AllZones, NEW m \in Modes(z), NEW t \in Times
    PROVE  LET r == Expire(m, t)
           IN  /\ r \in Modes(z) /\ r.enabled = m.enabled
               /\ ~ExpireDue(m, t) => r = m
               /\ ExpireDue(m, t) => ~m.enabled /\ r.held = {} /\ r.exitAt = NoTime
               /\ r.held \subseteq m.held
<1>1. m \in [enabled : BOOLEAN, held : SUBSET AllZones, exitAt : Nat \cup {NoTime},
             startedAt : Times \cup {NoTime}, frontier : [Entities -> Times \cup {NoTime}]]
      /\ m.held \subseteq z /\ Coherent(m)
  BY DEF Modes, Mode
<1>2. CASE ~ExpireDue(m, t)
  BY <1>1, <1>2 DEF Expire
<1>3. CASE ExpireDue(m, t)
  <2>1. Expire(m, t) = [enabled |-> m.enabled, held |-> {}, exitAt |-> NoTime,
                        startedAt |-> m.startedAt, frontier |-> m.frontier]
    BY <1>1, <1>3 DEF Expire
  <2> QED BY <1>1, <1>3, <2>1 DEF Modes, Mode, Coherent, ExpireDue
<1> QED BY <1>2, <1>3

-----------------------------------------------------------------------------
(* What is stored. *)

\* The four kinds of value a cell of the Store may hold are told apart.
LEMMA Distinct ==
    /\ Nothing # Live /\ Nothing # NoManual /\ Live # NoManual
    /\ \A p \in Stored : p # Nothing /\ p # Live /\ p # NoManual
<1>1. /\ DOMAIN Nothing = {"nothing"} /\ DOMAIN Live = {"live"} /\ DOMAIN NoManual = {"absent"}
      /\ \A p \in Stored : DOMAIN p = {"enabled", "held", "exitAt"}
  BY DEF Nothing, Live, NoManual, Stored
<1>2. "nothing" # "live" /\ "nothing" # "absent" /\ "live" # "absent"
      /\ "enabled" # "nothing" /\ "enabled" # "live" /\ "enabled" # "absent"
  OBVIOUS
<1> QED BY <1>1, <1>2

LEMMA PayloadIsStored == Payloads = {NoManual} \cup Stored
BY DEF Payloads, Stored

LEMMA AcceptedFacts ==
    /\ NoManual \in Accepted /\ Nothing \notin Accepted /\ Live \notin Accepted
    /\ \A p \in Accepted : p \in Payloads /\ (p # NoManual => p \in Stored /\ Accepts(p))
BY Distinct, PayloadIsStored DEF Accepted

LEMMA StoreOK ==
    ASSUME NEW z \in SUBSET AllZones, NEW m \in Modes(z)
    PROVE  LET p == StoreData(m)
           IN  /\ p \in Accepted
               /\ m.enabled \/ m.held # {} => p \in Stored /\ Same(p, m)
               /\ ~m.enabled /\ m.held = {} => p = NoManual
BY TimeFacts DEF Modes, Mode, Coherent, StoreData, Accepted, Stored, Accepts, Same

LEMMA RestoreForm ==
    ASSUME NEW p \in Accepted, NEW z \in SUBSET AllZones, NEW t \in Times
    PROVE  /\ Restore(p, z, t) \in Modes(z)
           /\ p = NoManual => Restore(p, z, t) = Disabled
           /\ p # NoManual =>
                \E m \in Modes(z) : /\ Restore(p, z, t) = Expire(m, t)
                                    /\ m.enabled = p.enabled /\ m.exitAt = p.exitAt
                                    /\ m.held = p.held \cap z
<1>1. CASE p = NoManual
  BY <1>1, DisabledOK DEF Restore
<1>2. CASE p # NoManual
  <2> DEFINE m == [enabled |-> p.enabled, held |-> p.held \cap z, exitAt |-> p.exitAt,
                   startedAt |-> IF p.enabled THEN t ELSE NoTime, frontier |-> NoFrontier]
  <2>1. p \in [enabled : BOOLEAN, held : SUBSET AllZones, exitAt : Nat \cup {NoTime}] /\ Accepts(p)
    BY <1>2, AcceptedFacts DEF Stored
  <2>2. NoFrontier \in [Entities -> Times \cup {NoTime}]
    BY DEF NoFrontier
  <2>3. m \in Modes(z)
    BY <2>1, <2>2, TimeFacts DEF Modes, Mode, Coherent, Accepts
  <2>4. Restore(p, z, t) = Expire(m, t)
    BY <1>2, <2>1 DEF Restore
  <2>5. m.enabled = p.enabled /\ m.exitAt = p.exitAt /\ m.held = p.held \cap z
    OBVIOUS
  <2> HIDE DEF m
  <2> QED BY <1>2, <2>3, <2>4, <2>5, ExpireOK
<1> QED BY <1>1, <1>2

LEMMA ExpireForm ==
    ASSUME NEW z \in SUBSET AllZones, NEW m \in Modes(z), NEW t \in Times
    PROVE  LET due == m.exitAt # NoTime /\ t >= m.exitAt
           IN  /\ Expire(m, t).enabled = m.enabled
               /\ Expire(m, t).held = IF due THEN {} ELSE m.held
               /\ Expire(m, t).exitAt = IF due THEN NoTime ELSE m.exitAt
BY ExpireOK DEF ExpireDue

\* Fits in terms of the fields of the record and of the mode.
LEMMA FitsForm ==
    ASSUME NEW p \in Accepted, NEW z \in SUBSET AllZones, NEW m \in Modes(z), NEW t \in Times
    PROVE  LET due(x) == x.exitAt # NoTime /\ t >= x.exitAt
               left == IF due(m) THEN {} ELSE m.held
           IN  /\ p = NoManual => (Fits(p, m, z, t) <=> ~m.enabled /\ left = {})
               /\ p # NoManual =>
                    (Fits(p, m, z, t) <=>
                        /\ p.enabled = m.enabled
                        /\ (IF due(p) THEN {} ELSE p.held \cap z) = left
                        /\ left # {} => p.exitAt = m.exitAt)
<1> DEFINE due(x) == x.exitAt # NoTime /\ t >= x.exitAt
           left == IF due(m) THEN {} ELSE m.held
           e == Expire(m, t)
           r == Restore(p, z, t)
<1>1. e.enabled = m.enabled /\ e.held = left /\ e.exitAt = IF due(m) THEN NoTime ELSE m.exitAt
  BY ExpireForm
<1>2. m.enabled \in BOOLEAN
  BY DEF Modes, Mode
<1>3. Fits(p, m, z, t) <=> r.enabled = e.enabled /\ r.held = e.held /\ (e.held # {} => r.exitAt = e.exitAt)
  BY DEF Fits
<1>4. ASSUME p = NoManual PROVE Fits(p, m, z, t) <=> ~m.enabled /\ left = {}
  <2>1. r.enabled = FALSE /\ r.held = {} /\ r.exitAt = NoTime
    BY <1>4, RestoreForm DEF Disabled
  <2> HIDE DEF e, r, left
  <2> QED BY <1>1, <1>2, <1>3, <2>1
<1>5. ASSUME p # NoManual
      PROVE  Fits(p, m, z, t) <=>
                /\ p.enabled = m.enabled
                /\ (IF due(p) THEN {} ELSE p.held \cap z) = left
                /\ left # {} => p.exitAt = m.exitAt
  <2>1. PICK n \in Modes(z) : /\ r = Expire(n, t) /\ n.enabled = p.enabled /\ n.exitAt = p.exitAt
                              /\ n.held = p.held \cap z
    BY <1>5, RestoreForm
  <2>2. /\ r.enabled = p.enabled /\ r.held = IF due(p) THEN {} ELSE p.held \cap z
        /\ r.exitAt = IF due(p) THEN NoTime ELSE p.exitAt
    BY <2>1, ExpireForm, ZenonT(40)
  <2> HIDE DEF e, r
  <2> QED BY <1>1, <1>2, <1>3, <2>2
<1> QED BY <1>4, <1>5

\* A saved mode is recovered.
LEMMA FitsStore ==
    ASSUME NEW z \in SUBSET AllZones, NEW m \in Modes(z), NEW t \in Times
    PROVE  Fits(StoreData(m), m, z, t)
<1> DEFINE p == StoreData(m)
<1>1. p \in Accepted /\ m.held \subseteq z /\ m.enabled \in BOOLEAN
  BY StoreOK DEF Modes, Mode
<1>2. CASE m.enabled \/ m.held # {}
  <2>1. p \in Stored /\ p # NoManual /\ Same(p, m)
    BY <1>2, StoreOK, Distinct
  <2>2. m.held \cap z = m.held
    BY <1>1
  <2> HIDE DEF p
  <2> QED BY <1>1, <2>1, <2>2, FitsForm DEF Same, p
<1>3. CASE ~m.enabled /\ m.held = {}
  <2>1. p = NoManual
    BY <1>3, StoreOK
  <2> HIDE DEF p
  <2> QED BY <1>1, <1>3, <2>1, FitsForm DEF p
<1> QED BY <1>1, <1>2, <1>3

\* A record that fits goes on fitting as time passes: both sides expire at
\* once, or have expired.
LEMMA FitsLater ==
    ASSUME NEW p \in Accepted, NEW z \in SUBSET AllZones, NEW m \in Modes(z),
           NEW t \in Times, NEW u \in Times, t <= u, Fits(p, m, z, t)
    PROVE  Fits(p, m, z, u)
<1> DEFINE due(x, v) == x.exitAt # NoTime /\ v >= x.exitAt
<1>1. m.exitAt \in Nat \cup {NoTime} /\ t \in Nat /\ u \in Nat
  BY TimeFacts DEF Modes, Mode
<1>2. due(m, t) => due(m, u)
  BY <1>1
<1>3. CASE p = NoManual
  <2> HIDE DEF due
  <2>1. ~m.enabled /\ (IF due(m, t) THEN {} ELSE m.held) = {}
    BY <1>3, FitsForm DEF due
  <2>2. (IF due(m, u) THEN {} ELSE m.held) = {}
    BY <1>2, <2>1
  <2> QED BY <1>3, <2>1, <2>2, FitsForm DEF due
<1>4. CASE p # NoManual
  <2>1. p.exitAt \in Nat \cup {NoTime}
    BY <1>4, AcceptedFacts DEF Stored
  <2>2. due(p, t) => due(p, u)
    BY <1>1, <2>1
  <2>3. p.exitAt = m.exitAt => (due(p, u) <=> due(m, u))
    OBVIOUS
  <2> HIDE DEF due
  <2>4. /\ p.enabled = m.enabled
        /\ (IF due(p, t) THEN {} ELSE p.held \cap z) = (IF due(m, t) THEN {} ELSE m.held)
        /\ (IF due(m, t) THEN {} ELSE m.held) # {} => p.exitAt = m.exitAt
    BY <1>4, FitsForm DEF due
  <2>5. /\ (IF due(p, u) THEN {} ELSE p.held \cap z) = (IF due(m, u) THEN {} ELSE m.held)
        /\ (IF due(m, u) THEN {} ELSE m.held) # {} => p.exitAt = m.exitAt
    BY <1>2, <2>2, <2>3, <2>4
  <2> QED BY <1>4, <2>4, <2>5, FitsForm DEF due
<1> QED BY <1>3, <1>4

\* What restore makes of a record fits the record.
LEMMA FitsRestored ==
    ASSUME NEW p \in Accepted, NEW z \in SUBSET AllZones, NEW t \in Times
    PROVE  Fits(p, Restore(p, z, t), z, t)
<1> DEFINE r == Restore(p, z, t)
<1>1. r \in Modes(z)
  BY RestoreForm
<1>2. Expire(r, t) = r
  <2>1. CASE p = NoManual
    <3>1. r = Disabled /\ Disabled.exitAt = NoTime
      BY <2>1, RestoreForm DEF Disabled
    <3> HIDE DEF r
    <3> QED BY <3>1 DEF Expire, ExpireDue
  <2>2. CASE p # NoManual
    <3>1. PICK n \in Modes(z) : r = Expire(n, t)
      BY <2>2, RestoreForm
    <3>2. (r = n /\ ~ExpireDue(n, t)) \/ r.exitAt = NoTime
      BY <3>1, ExpireOK
    <3> HIDE DEF r
    <3> QED BY <3>2 DEF Expire, ExpireDue
  <2> QED BY <2>1, <2>2
<1> QED BY <1>2 DEF Fits

\* Fits sees nothing of a mode but the fields that are stored.
LEMMA FitsSame ==
    ASSUME NEW p \in Accepted, NEW z \in SUBSET AllZones, NEW m \in Modes(z), NEW n \in Modes(z),
           Same(m, n), NEW t \in Times, Fits(p, m, z, t)
    PROVE  Fits(p, n, z, t)
<1>1. Expire(m, t).enabled = Expire(n, t).enabled /\ Expire(m, t).held = Expire(n, t).held
      /\ Expire(m, t).exitAt = Expire(n, t).exitAt
  BY ExpireForm DEF Same
<1> QED BY <1>1 DEF Fits

LEMMA ResolvedOK ==
    ASSUME TypeInv, queued # Nothing
    PROVE  /\ Resolved(queued) \in Accepted /\ Resolved(queued) # Nothing /\ Resolved(queued) # Live
           /\ queued # Live => Resolved(queued) = queued
           /\ queued = Live => Resolved(queued) = StoreData(mode)
BY StoreOK, AcceptedFacts DEF TypeInv, Resolved

StoreInv ==
    /\ disk \in Accepted /\ queued \in Accepted \cup {Nothing, Live} /\ writing \in Accepted \cup {Nothing}
    /\ waiting \in BOOLEAN /\ delayed \in BOOLEAN
    /\ delayed => queued # Nothing

LEMMA SavedType == StoreInv => Saved \in Accepted \cup {Live}
BY AcceptedFacts DEF StoreInv, Saved

LEMMA AfterSchedule == StoreInv /\ ScheduleSave => StoreInv' /\ Saved' = Live
BY Distinct DEF StoreInv, ScheduleSave, Saved

LEMMA AfterSave ==
    ASSUME StoreInv, NEW p \in Accepted, AsyncSave(p) PROVE StoreInv' /\ Saved' = p
BY AcceptedFacts DEF StoreInv, AsyncSave, Saved

LEMMA AfterNothing == StoreInv /\ UNCHANGED storeVars => StoreInv' /\ Saved' = Saved
BY DEF StoreInv, storeVars, Saved

-----------------------------------------------------------------------------
(* The steps. *)

\* A step of the running program: the loaded map, the mode and the policies it
\* leaves, and what has been asked of the Store.
LEMMA Assemble ==
    ASSUME Sound,
           now' \in Times, phase' \in Phases, zones' \in SUBSET AllZones, active' \in SUBSET zones',
           mode' \in Modes(zones'), timer' \in Nat \cup {NoTime}, awaiting' \in BOOLEAN, StoreInv',
           phase' = "down" => timer' = NoTime /\ queued' = Nothing /\ writing' = Nothing,
           phase' \in {"down", "loading"} => active' = {},
           mode'.enabled => active' \subseteq mode'.held,
           phase' # "down" => Saved' = Live \/ Fits(Saved', mode', zones', now'),
           phase' \in {"loading", "up"} => timer' = mode'.exitAt
    PROVE  Sound'
BY DEF Sound, TypeInv, StoreInv, SaveInv, Armed

LEMMA SoundFacts ==
    ASSUME Sound
    PROVE  /\ now \in Times /\ zones \in SUBSET AllZones /\ active \in SUBSET zones
           /\ mode \in Modes(zones) /\ timer \in Nat \cup {NoTime} /\ awaiting \in BOOLEAN
           /\ phase \in Phases /\ StoreInv
           /\ mode.exitAt \in Nat \cup {NoTime} /\ mode.enabled \in BOOLEAN
           /\ mode.enabled => active \subseteq mode.held
           /\ phase = "down" => timer = NoTime /\ queued = Nothing /\ writing = Nothing
           /\ phase \in {"down", "loading"} => active = {}
           /\ phase # "down" => Saved = Live \/ Fits(Saved, mode, zones, now)
           /\ phase \in {"loading", "up"} => timer = mode.exitAt
BY DEF Sound, TypeInv, StoreInv, SaveInv, Armed, Modes, Mode

LEMMA InitSound == Init => Sound
<1> SUFFICES ASSUME Init PROVE Sound
  OBVIOUS
<1>1. Disabled \in Modes(zones) /\ Disabled.enabled = FALSE /\ Disabled.exitAt = NoTime
  BY DisabledOK DEF Init, Disabled
<1> QED
  BY <1>1, TimeFacts, AcceptedFacts
  DEF Init, Sound, TypeInv, SaveInv, Armed, Phases

LEMMA TickSound == Sound /\ Tick => Sound'
<1> SUFFICES ASSUME Sound, Tick PROVE Sound'
  OBVIOUS
<1>1. now' \in Times /\ now <= now'
  BY SoundFacts, VisitorsAssumption DEF Tick, Times
<1>2. StoreInv' /\ Saved' = Saved
  BY SoundFacts, AfterNothing DEF Tick
<1>3. phase' # "down" => Saved' = Live \/ Fits(Saved', mode', zones', now')
  <2> SUFFICES ASSUME phase' # "down", Saved' # Live PROVE Fits(Saved', mode', zones', now')
    OBVIOUS
  <2>1. Fits(Saved, mode, zones, now) /\ Saved \in Accepted
    BY <1>2, SoundFacts, SavedType DEF Tick
  <2>2. Fits(Saved, mode, zones, now')
    BY <1>1, <2>1, SoundFacts, FitsLater
  <2> QED BY <1>2, <2>2 DEF Tick
<1> QED BY <1>1, <1>2, <1>3, SoundFacts, Assemble DEF Tick, storeVars

LEMMA LoadSound == Sound /\ Load => Sound'
<1> SUFFICES ASSUME Sound, Load PROVE Sound'
  OBVIOUS
<1>1. zones' \in SUBSET AllZones /\ now' = now /\ active' = {} /\ mode' = Restore(disk, zones', now)
      /\ disk \in Accepted
  BY SoundFacts DEF Load, StoreInv
<1>a. mode' \in Modes(zones')
  BY <1>1, RestoreForm, SoundFacts
<1>2. mode'.exitAt \in Nat \cup {NoTime} /\ timer' = mode'.exitAt
  BY <1>a DEF Load, DeadlineOf, Modes, Mode
<1>3. StoreInv' /\ Saved' = disk
  BY SoundFacts, AfterNothing DEF Load, Saved
<1>4. Fits(Saved', mode', zones', now')
  BY <1>1, <1>3, SoundFacts, FitsRestored
<1> QED BY <1>1, <1>a, <1>2, <1>3, <1>4, SoundFacts, Assemble DEF Load, Phases

LEMMA StartSound == Sound /\ Start => Sound'
<1> SUFFICES ASSUME Sound, Start PROVE Sound'
  OBVIOUS
<1>a. PICK known \in SUBSET MappedEntities : \E on \in SUBSET known :
        /\ active' \in SUBSET zones
        /\ mode' = Published(Sample(mode, known, on, now), active')
        /\ ScheduleSaveIf(known # {} \/ mode'.held # mode.held)
  BY DEF Start
<1>1. PICK on \in SUBSET known :
        /\ active' \in SUBSET zones
        /\ mode' = Published(Sample(mode, known, on, now), active')
        /\ ScheduleSaveIf(known # {} \/ mode'.held # mode.held)
  BY <1>a
<1>2. phase = "loading" /\ phase' = "up" /\ now' = now /\ zones' = zones /\ timer' = timer
      /\ awaiting' = awaiting
  BY DEF Start
<1> DEFINE s == Sample(mode, known, on, now)
<1>3. /\ s \in Modes(zones) /\ s.enabled = mode.enabled /\ s.exitAt = mode.exitAt
      /\ on = {} => s.held = mode.held
  BY <1>1, SoundFacts, SampleOK, SMTT(30) DEF MappedEntities
<1> HIDE DEF s
<1>4. /\ mode' \in Modes(zones) /\ mode'.enabled = mode.enabled /\ mode'.exitAt = mode.exitAt
      /\ mode'.enabled => active' \subseteq mode'.held
  BY <1>1, <1>3, SoundFacts, RetainOK DEF Published, s
<1>5. StoreInv' /\ (Saved' = Live \/ Fits(Saved', mode', zones', now'))
  <2>1. CASE known # {} \/ mode'.held # mode.held
    BY <1>1, <2>1, SoundFacts, AfterSchedule DEF ScheduleSaveIf
  <2>2. CASE ~(known # {} \/ mode'.held # mode.held)
    <3>1. StoreInv' /\ Saved' = Saved
      BY <1>1, <2>2, SoundFacts, AfterNothing DEF ScheduleSaveIf
    <3>2. Same(mode, mode')
      BY <1>4, <2>2 DEF Same
    <3>3. ASSUME Saved # Live PROVE Fits(Saved, mode', zones, now)
      BY <1>2, <1>4, <3>2, <3>3, SoundFacts, SavedType, FitsSame
    <3> QED BY <1>2, <3>1, <3>3
  <2> QED BY <2>1, <2>2
<1> QED BY <1>1, <1>2, <1>4, <1>5, SoundFacts, Assemble DEF Phases

LEMMA StartFailsSound == Sound /\ StartFails => Sound'
<1> SUFFICES ASSUME Sound, StartFails PROVE Sound'
  OBVIOUS
<1>1. StoreInv' /\ Saved' = Saved
  BY SoundFacts, AfterNothing DEF StartFails
<1> QED BY <1>1, SoundFacts, Assemble DEF StartFails, Phases

LEMMA ObserveSound ==
    ASSUME Sound, NEW e \in MappedEntities, NEW level, NEW at \in Times, ObserveEntity(e, level, at)
    PROVE  Sound'
<1>1. StoreInv' /\ Saved' = Live
  BY SoundFacts, AfterSchedule DEF ObserveEntity
<1> DEFINE m == Observe(mode, e, level, at, now)
<1>2. m \in Modes(zones) /\ m.enabled = mode.enabled /\ m.exitAt = mode.exitAt
  BY SoundFacts, ObserveOK DEF MappedEntities
<1> HIDE DEF m
<1>3. active' \in SUBSET zones /\ mode' = Published(m, active')
  BY DEF ObserveEntity, m
<1>4. /\ mode' \in Modes(zones) /\ mode'.exitAt = mode.exitAt
      /\ mode'.enabled => active' \subseteq mode'.held
  BY <1>2, <1>3, SoundFacts, RetainOK DEF Published
<1> QED BY <1>1, <1>3, <1>4, SoundFacts, Assemble DEF ObserveEntity

LEMMA PolicyChangeSound ==
    ASSUME Sound, NEW save \in BOOLEAN, PolicyChange(save) PROVE Sound'
<1>1. /\ active' \in SUBSET zones /\ mode' = Published(mode, active') /\ ScheduleSaveIf(save \/ mode' # mode)
      /\ phase = "up" /\ now' = now /\ phase' = phase /\ zones' = zones /\ timer' = timer
      /\ awaiting' = awaiting
  BY DEF PolicyChange
<1>2. /\ mode' \in Modes(zones) /\ mode'.exitAt = mode.exitAt
      /\ mode'.enabled => active' \subseteq mode'.held
  BY <1>1, SoundFacts, RetainOK DEF Published
<1>3. StoreInv' /\ (Saved' = Live \/ Fits(Saved', mode', zones', now'))
  <2>1. CASE save \/ mode' # mode
    BY <1>1, <2>1, SoundFacts, AfterSchedule DEF ScheduleSaveIf
  <2>2. CASE ~(save \/ mode' # mode)
    BY <1>1, <2>2, SoundFacts, AfterNothing DEF ScheduleSaveIf
  <2> QED BY <2>1, <2>2
<1> QED BY <1>1, <1>2, <1>3, SoundFacts, Assemble

LEMMA ToggleSound ==
    ASSUME Sound, NEW enabled \in BOOLEAN, Toggle(enabled)
    PROVE  Sound' /\ (mode'.exitAt # NoTime => \/ mode'.exitAt = mode.exitAt
                                               \/ mode.enabled /\ ~mode'.enabled /\ mode'.exitAt = now + Grace)
<1>1. PICK on \in SUBSET MappedEntities :
        LET changed == enabled # mode.enabled
            m1 == SetEnabled(mode, enabled, now)
            m2 == IF changed /\ enabled THEN Sample(m1, MappedEntities, on, now) ELSE m1
        IN  mode' = RetainActive(m2, active)
  BY DEF Toggle
<1> DEFINE m1 == SetEnabled(mode, enabled, now)
           m2 == IF enabled # mode.enabled /\ enabled THEN Sample(m1, MappedEntities, on, now) ELSE m1
<1>2. m1 \in Modes(zones) /\ m1.enabled = enabled
  BY SoundFacts, SetEnabledOK
<1>3. m1.exitAt # NoTime => m1.exitAt = mode.exitAt \/ (mode.enabled /\ ~enabled /\ m1.exitAt = now + Grace)
  BY SoundFacts DEF SetEnabled, Modes, Mode
<1> HIDE DEF m1
<1>4. m2 \in Modes(zones) /\ m2.enabled = enabled /\ m2.exitAt = m1.exitAt
  BY <1>2, SoundFacts, SampleOK DEF MappedEntities
<1>5. mode' = RetainActive(m2, active)
  BY <1>1 DEF m1
<1> HIDE DEF m2
<1>6. /\ mode' \in Modes(zones) /\ mode'.enabled = enabled /\ mode'.exitAt = m1.exitAt
      /\ mode'.enabled => active \subseteq mode'.held
  BY <1>4, <1>5, SoundFacts, RetainOK
<1>7. phase = "up" /\ now' = now /\ phase' = phase /\ zones' = zones /\ active' = active
      /\ timer' = mode'.exitAt /\ awaiting' = TRUE /\ AsyncSave(StoreData(mode'))
  BY DEF Toggle, DeadlineOf
<1>8. StoreInv' /\ Saved' = StoreData(mode')
  BY <1>6, <1>7, SoundFacts, StoreOK, AfterSave
<1>9. Fits(Saved', mode', zones', now')
  BY <1>6, <1>7, <1>8, SoundFacts, FitsStore
<1>10. mode'.exitAt \in Nat \cup {NoTime}
  BY <1>6 DEF Modes, Mode
<1>11. Sound'
  BY <1>6, <1>7, <1>8, <1>9, <1>10, SoundFacts, Assemble
<1> QED BY <1>3, <1>6, <1>11

LEMMA DeadlineSound == Sound /\ VisitorsDeadline => Sound'
<1> SUFFICES ASSUME Sound, VisitorsDeadline PROVE Sound'
  OBVIOUS
<1>1. /\ timer # NoTime /\ now >= timer /\ timer' = NoTime /\ mode' = Expire(mode, now)
      /\ ScheduleSaveIf(ExpireDue(mode, now)) /\ now' = now /\ phase' = phase /\ zones' = zones
      /\ active' = active /\ awaiting' = awaiting
  BY DEF VisitorsDeadline
<1>2. /\ mode' \in Modes(zones) /\ mode'.enabled = mode.enabled
      /\ ~ExpireDue(mode, now) => mode' = mode
      /\ ExpireDue(mode, now) => ~mode.enabled /\ mode'.exitAt = NoTime
  BY <1>1, SoundFacts, ExpireOK
<1>3. phase \in {"loading", "up"} => ExpireDue(mode, now)
  BY <1>1, SoundFacts DEF ExpireDue
<1>4. StoreInv' /\ (phase # "down" => Saved' = Live \/ Fits(Saved', mode', zones', now'))
  <2>1. CASE ExpireDue(mode, now)
    BY <1>1, <2>1, SoundFacts, AfterSchedule DEF ScheduleSaveIf
  <2>2. CASE ~ExpireDue(mode, now)
    BY <1>1, <1>2, <2>2, SoundFacts, AfterNothing DEF ScheduleSaveIf
  <2> QED BY <2>1, <2>2
<1>5. phase # "down"
  BY <1>1, SoundFacts
<1> QED BY <1>1, <1>2, <1>3, <1>4, <1>5, SoundFacts, Assemble

LEMMA ResolvedFits ==
    ASSUME Sound, queued # Nothing, phase # "down" PROVE Fits(Resolved(queued), mode, zones, now)
<1>1. Saved = queued
  BY DEF Saved
<1>2. TypeInv
  BY DEF Sound
<1> QED BY <1>1, <1>2, ResolvedOK, SoundFacts, FitsStore

LEMMA WriteDoneSound == Sound /\ WriteDone => Sound' /\ mode' = mode
<1> SUFFICES ASSUME Sound, WriteDone PROVE Sound' /\ mode' = mode
  OBVIOUS
<1>1. mode' = mode
  BY SoundFacts, RetainOK DEF WriteDone, Published
<1>2. phase # "down"
  BY SoundFacts DEF WriteDone
<1>3. /\ now' = now /\ phase' = phase /\ zones' = zones /\ active' = active /\ timer' = timer
      /\ awaiting' \in BOOLEAN /\ writing # Nothing /\ disk' = writing /\ waiting' = FALSE
  BY SoundFacts DEF WriteDone
<1>4. StoreInv' /\ (Saved' = Live \/ Fits(Saved', mode', zones', now'))
  <2>1. CASE waiting /\ queued # Nothing
    <3>1. writing' = Resolved(queued) /\ queued' = Nothing /\ delayed' = FALSE
      BY <2>1 DEF WriteDone
    <3>2. Resolved(queued) \in Accepted /\ Resolved(queued) # Nothing
      BY <2>1, ResolvedOK DEF Sound
    <3>3. StoreInv' /\ Saved' = Resolved(queued)
      BY <1>3, <3>1, <3>2, SoundFacts DEF StoreInv, Saved
    <3> QED BY <1>1, <1>2, <1>3, <2>1, <3>3, ResolvedFits
  <2>2. CASE ~(waiting /\ queued # Nothing)
    <3>1. writing' = Nothing /\ queued' = queued /\ delayed' = delayed
      BY <2>2 DEF WriteDone
    <3>2. StoreInv' /\ Saved' = Saved
      BY <1>3, <3>1, SoundFacts DEF StoreInv, Saved
    <3> QED BY <1>1, <1>2, <1>3, <3>2, SoundFacts
  <2> QED BY <2>1, <2>2
<1>5. Sound'
  BY <1>1, <1>2, <1>3, <1>4, SoundFacts, Assemble
<1> QED BY <1>1, <1>5

LEMMA DelayedSaveSound == Sound /\ DelayedSave => Sound'
<1> SUFFICES ASSUME Sound, DelayedSave PROVE Sound'
  OBVIOUS
<1>1. queued # Nothing /\ phase # "down"
  BY SoundFacts DEF DelayedSave, StoreInv
<1>2. /\ now' = now /\ phase' = phase /\ zones' = zones /\ active' = active /\ mode' = mode
      /\ timer' = timer /\ awaiting' = awaiting /\ disk' = disk /\ delayed' = FALSE
  BY DEF DelayedSave
<1>3. StoreInv' /\ (Saved' = Live \/ Fits(Saved', mode', zones', now'))
  <2>1. CASE writing = Nothing
    <3>1. writing' = Resolved(queued) /\ queued' = Nothing /\ waiting' = waiting
      BY <2>1 DEF DelayedSave
    <3>2. Resolved(queued) \in Accepted /\ Resolved(queued) # Nothing
      BY <1>1, ResolvedOK DEF Sound
    <3>3. StoreInv' /\ Saved' = Resolved(queued)
      BY <1>2, <3>1, <3>2, SoundFacts DEF StoreInv, Saved
    <3> QED BY <1>1, <1>2, <3>3, ResolvedFits
  <2>2. CASE writing # Nothing
    <3>1. waiting' = TRUE /\ writing' = writing /\ queued' = queued
      BY <2>2 DEF DelayedSave
    <3>2. StoreInv' /\ Saved' = Saved
      BY <1>2, <3>1, SoundFacts DEF StoreInv, Saved
    <3> QED BY <1>1, <1>2, <3>2, SoundFacts
  <2> QED BY <2>1, <2>2
<1> QED BY <1>1, <1>2, <1>3, SoundFacts, Assemble

LEMMA StopSound == Sound /\ Stop => Sound'
<1> SUFFICES ASSUME Sound, Stop PROVE Sound'
  OBVIOUS
<1>1. StoreData(mode) \in Accepted
  BY SoundFacts, StoreOK
<1>2. StoreInv' /\ Saved' = StoreData(mode)
  BY <1>1, SoundFacts, AfterSave DEF Stop
<1>3. Fits(Saved', mode', zones', now')
  BY <1>2, SoundFacts, FitsStore DEF Stop
<1> QED BY <1>2, <1>3, SoundFacts, Assemble DEF Stop, Phases

LEMMA DiscardedSound == Sound /\ Discarded => Sound'
<1> SUFFICES ASSUME Sound, Discarded PROVE Sound'
  OBVIOUS
<1>1. Disabled \in Modes(zones) /\ Disabled.enabled = FALSE
  BY SoundFacts, DisabledOK DEF Disabled
<1>2. StoreInv'
  BY SoundFacts DEF StoreInv, Discarded
<1> QED BY <1>1, <1>2, SoundFacts, Assemble DEF Discarded, Phases

LEMMA NextSound == Sound /\ [Next]_vars => Sound'
<1> SUFFICES ASSUME Sound, [Next]_vars PROVE Sound'
  OBVIOUS
<1>1. ASSUME NEW e \in MappedEntities, NEW level \in {"on", "off"}, NEW at \in EventTimes,
             ObserveEntity(e, level, at)
      PROVE  Sound'
  BY <1>1, ObserveSound DEF EventTimes
<1>2. ASSUME NEW save \in BOOLEAN, PolicyChange(save) PROVE Sound'
  BY <1>2, PolicyChangeSound
<1>3. ASSUME NEW enabled \in BOOLEAN, Toggle(enabled) PROVE Sound'
  BY <1>3, ToggleSound
<1>4. ASSUME UNCHANGED vars PROVE Sound'
  BY <1>4 DEF vars, storeVars, Sound, TypeInv, SaveInv, Saved, Armed
<1> QED
  BY <1>1, <1>2, <1>3, <1>4, TickSound, LoadSound, StartSound, StartFailsSound, DeadlineSound,
     WriteDoneSound, DelayedSaveSound, StopSound, DiscardedSound
  DEF Next, Stopped, Crash

LEMMA SpecSound == Spec => []Sound
BY InitSound, NextSound, PTL DEF Spec

-----------------------------------------------------------------------------
(* The grace period. *)

\* A step takes the exit of the mode from where it was, from the record on the
\* disk or from turning the mode off now; a cell of the Store from another cell
\* or from the mode.
ExitOrigin ==
    \/ mode'.exitAt \in {NoTime, mode.exitAt}
    \/ disk \in Stored /\ mode'.exitAt = disk.exitAt
    \/ phase' = "up" /\ mode.enabled /\ ~mode'.enabled /\ mode'.exitAt = now + Grace

CellOrigin ==
    \A p \in {disk', queued', writing'} :
        p \in {NoManual, Nothing, Live, disk, queued, writing, StoreData(mode), StoreData(mode')}

LEMMA SaveCells ==
    ASSUME NEW p, p \in {StoreData(mode), StoreData(mode')}, AsyncSave(p) PROVE CellOrigin
BY DEF CellOrigin, AsyncSave

LEMMA ScheduleCells == ASSUME NEW due, ScheduleSaveIf(due) PROVE CellOrigin
BY DEF CellOrigin, ScheduleSaveIf, ScheduleSave, storeVars

LEMMA KeptCells == UNCHANGED storeVars => CellOrigin
BY DEF CellOrigin, storeVars

LEMMA StepOrigin == Sound /\ Next => ExitOrigin /\ CellOrigin /\ now' >= now
<1> SUFFICES ASSUME Sound, Next PROVE ExitOrigin /\ CellOrigin /\ now' >= now
  OBVIOUS
<1>0. now \in Nat
  BY SoundFacts, TimeFacts
<1>1. ASSUME Tick PROVE ExitOrigin /\ CellOrigin /\ now' >= now
  BY <1>0, <1>1, KeptCells DEF Tick, ExitOrigin
<1>2. ASSUME Load PROVE ExitOrigin /\ CellOrigin /\ now' >= now
  <2>1. zones' \in SUBSET AllZones /\ mode' = Restore(disk, zones', now) /\ disk \in Accepted
    BY <1>2, SoundFacts DEF Load, StoreInv
  <2>2. ExitOrigin
    <3>1. CASE disk = NoManual
      BY <2>1, <3>1, SoundFacts, RestoreForm DEF ExitOrigin, Disabled
    <3>2. CASE disk # NoManual
      <4>1. PICK n \in Modes(zones') : mode' = Expire(n, now) /\ n.exitAt = disk.exitAt
        BY <2>1, <3>2, SoundFacts, RestoreForm
      <4>2. mode'.exitAt \in {NoTime, disk.exitAt}
        BY <2>1, <4>1, SoundFacts, ExpireForm
      <4> QED BY <2>1, <3>2, <4>2, AcceptedFacts DEF ExitOrigin
    <3> QED BY <3>1, <3>2
  <2> QED BY <1>0, <1>2, <2>2, KeptCells DEF Load
<1>3. ASSUME Start PROVE ExitOrigin /\ CellOrigin /\ now' >= now
  <2>1. PICK known \in SUBSET MappedEntities : \E on \in SUBSET known :
            /\ active' \in SUBSET zones
            /\ mode' = Published(Sample(mode, known, on, now), active')
            /\ ScheduleSaveIf(known # {} \/ mode'.held # mode.held)
    BY <1>3 DEF Start
  <2>2. PICK on \in SUBSET known :
            /\ active' \in SUBSET zones
            /\ mode' = Published(Sample(mode, known, on, now), active')
            /\ ScheduleSaveIf(known # {} \/ mode'.held # mode.held)
    BY <2>1
  <2>3. Sample(mode, known, on, now) \in Modes(zones) /\ Sample(mode, known, on, now).exitAt = mode.exitAt
    <3>1. on \in SUBSET Entities /\ \A e \in on : ZoneOf[e] \in zones
      BY <2>2 DEF MappedEntities
    <3> QED BY <3>1, SoundFacts, SampleOK
  <2>4. mode'.exitAt = mode.exitAt
    BY <2>2, <2>3, SoundFacts, RetainOK DEF Published
  <2>5. CellOrigin
    BY <2>2, ScheduleCells
  <2> QED BY <1>0, <1>3, <2>4, <2>5 DEF Start, ExitOrigin
<1>4. ASSUME StartFails PROVE ExitOrigin /\ CellOrigin /\ now' >= now
  BY <1>0, <1>4, KeptCells DEF StartFails, ExitOrigin
<1>5. ASSUME NEW e \in MappedEntities, NEW level, NEW at \in EventTimes, ObserveEntity(e, level, at)
      PROVE  ExitOrigin /\ CellOrigin /\ now' >= now
  <2>1. Observe(mode, e, level, at, now) \in Modes(zones) /\ Observe(mode, e, level, at, now).exitAt = mode.exitAt
    BY SoundFacts, ObserveOK DEF MappedEntities, EventTimes
  <2>2. mode'.exitAt = mode.exitAt
    BY <1>5, <2>1, SoundFacts, RetainOK DEF ObserveEntity, Published
  <2>3. CellOrigin
    <3>1. ScheduleSaveIf(TRUE)
      BY <1>5 DEF ObserveEntity, ScheduleSaveIf
    <3> QED BY <3>1, ScheduleCells
  <2> QED BY <1>0, <1>5, <2>2, <2>3 DEF ObserveEntity, ExitOrigin
<1>6. ASSUME NEW save \in BOOLEAN, PolicyChange(save) PROVE ExitOrigin /\ CellOrigin /\ now' >= now
  <2>1. mode'.exitAt = mode.exitAt
    BY <1>6, SoundFacts, RetainOK DEF PolicyChange, Published
  <2>2. CellOrigin
    BY <1>6, ScheduleCells DEF PolicyChange
  <2> QED BY <1>0, <1>6, <2>1, <2>2 DEF PolicyChange, ExitOrigin
<1>7. ASSUME NEW enabled \in BOOLEAN, Toggle(enabled) PROVE ExitOrigin /\ CellOrigin /\ now' >= now
  <2>1. phase' = "up" /\ now' = now /\ AsyncSave(StoreData(mode'))
    BY <1>7 DEF Toggle
  <2>2. CellOrigin
    BY <2>1, SaveCells
  <2> QED BY <1>0, <1>7, <2>1, <2>2, ToggleSound DEF ExitOrigin
<1>8. ASSUME VisitorsDeadline PROVE ExitOrigin /\ CellOrigin /\ now' >= now
  <2>1. mode'.exitAt \in {NoTime, mode.exitAt}
    BY <1>8, SoundFacts, ExpireForm DEF VisitorsDeadline
  <2>2. CellOrigin
    BY <1>8, ScheduleCells DEF VisitorsDeadline
  <2> QED BY <1>0, <1>8, <2>1, <2>2 DEF VisitorsDeadline, ExitOrigin
<1>9. ASSUME WriteDone PROVE ExitOrigin /\ CellOrigin /\ now' >= now
  <2>1. mode' = mode /\ now' = now
    BY <1>9, WriteDoneSound DEF WriteDone
  <2>2. CellOrigin
    BY <1>9 DEF WriteDone, CellOrigin, Resolved
  <2> QED BY <1>0, <2>1, <2>2 DEF ExitOrigin
<1>10. ASSUME DelayedSave PROVE ExitOrigin /\ CellOrigin /\ now' >= now
  <2>1. CellOrigin
    BY <1>10 DEF DelayedSave, CellOrigin, Resolved
  <2> QED BY <1>0, <1>10, <2>1 DEF DelayedSave, ExitOrigin
<1>11. ASSUME Stop PROVE ExitOrigin /\ CellOrigin /\ now' >= now
  BY <1>0, <1>11, SaveCells DEF Stop, ExitOrigin
<1>12. ASSUME Discarded PROVE ExitOrigin /\ CellOrigin /\ now' >= now
  BY <1>0, <1>12 DEF Discarded, ExitOrigin, CellOrigin, Disabled
<1> QED
  BY <1>1, <1>2, <1>3, <1>4, <1>5, <1>6, <1>7, <1>8, <1>9, <1>10, <1>11, <1>12
  DEF Next, Stopped, Crash

\* Every record that may still be written or read again is due Grace after the
\* mode was last turned off, at the latest.
Due(x) == x.exitAt # NoTime => x.exitAt <= off + Grace

GraceInv ==
    /\ off \in Times \cup {NoTime} /\ off <= now
    /\ Due(mode)
    /\ \A p \in {disk, queued, writing} : p \in Stored => Due(p)

LEMMA GraceStep ==
    Sound /\ GraceInv /\ [HNext]_<<vars, off>> => GraceInv'
<1> SUFFICES ASSUME Sound, GraceInv, [HNext]_<<vars, off>> PROVE GraceInv'
  OBVIOUS
<1>0. now \in Times /\ now \in Nat /\ mode.exitAt \in Nat \cup {NoTime} /\ off \in Int /\ Grace \in Nat
  <2>1. now \in Times /\ mode.exitAt \in Nat \cup {NoTime} /\ off \in Times \cup {NoTime}
    BY SoundFacts DEF GraceInv
  <2>2. \A t \in Times \cup {NoTime} : t \in Int
    BY TimeFacts
  <2> QED BY <2>1, <2>2, TimeFacts
<1>1. CASE UNCHANGED <<vars, off>>
  BY <1>1 DEF vars, storeVars, GraceInv, Due
<1>2. CASE HNext
  <2>1. ExitOrigin /\ CellOrigin /\ now' >= now /\ Sound'
    BY <1>2, StepOrigin, NextSound DEF HNext
  <2>2. now' \in Nat /\ mode \in Modes(zones) /\ zones \in SUBSET AllZones
        /\ mode' \in Modes(zones') /\ zones' \in SUBSET AllZones
    BY <2>1, SoundFacts, TimeFacts DEF Sound, TypeInv
  <2>3. off' = IF phase' = "up" /\ mode.enabled /\ ~mode'.enabled THEN now ELSE off
    BY <1>2 DEF HNext
  <2>4. off' \in Times \cup {NoTime} /\ off' <= now' /\ off <= off' /\ off' \in Int
    BY <1>0, <2>1, <2>2, <2>3 DEF GraceInv
  <2>5. ASSUME NEW x, x.exitAt \in Nat \cup {NoTime}, Due(x)
        PROVE  x.exitAt # NoTime => x.exitAt <= off' + Grace
    BY <1>0, <2>4, <2>5 DEF Due
  <2>6. mode'.exitAt # NoTime => mode'.exitAt <= off' + Grace
    <3>1. CASE mode'.exitAt \in {NoTime, mode.exitAt}
      BY <1>0, <2>5, <3>1 DEF GraceInv
    <3>2. CASE disk \in Stored /\ mode'.exitAt = disk.exitAt
      BY <2>5, <3>2 DEF GraceInv, Stored
    <3>3. CASE phase' = "up" /\ mode.enabled /\ ~mode'.enabled /\ mode'.exitAt = now + Grace
      BY <1>0, <2>3, <3>3
    <3> QED BY <2>1, <3>1, <3>2, <3>3 DEF ExitOrigin
  <2>7. ASSUME NEW p \in {disk', queued', writing'}, p \in Stored
        PROVE  p.exitAt # NoTime => p.exitAt <= off' + Grace
    <3>1. p.exitAt \in Nat \cup {NoTime}
      BY <2>7 DEF Stored
    <3>2. p # NoManual /\ p # Nothing /\ p # Live
      BY <2>7, Distinct
    <3>3. CASE p \in {disk, queued, writing}
      BY <2>5, <2>7, <3>1, <3>3 DEF GraceInv
    <3>4. CASE p = StoreData(mode)
      BY <1>0, <2>2, <2>5, <3>2, <3>4, StoreOK DEF GraceInv, Same
    <3>5. CASE p = StoreData(mode')
      BY <2>2, <2>6, <3>2, <3>5, StoreOK DEF Same
    <3> QED BY <2>1, <2>7, <3>2, <3>3, <3>4, <3>5 DEF CellOrigin
  <2> QED BY <2>4, <2>6, <2>7 DEF GraceInv, Due
<1> QED BY <1>1, <1>2

-----------------------------------------------------------------------------
(* The theorems. *)

\* The exit timer of the running entry stands at the exit of the mode, whatever
\* the toggles, restores and expiries.
THEOREM TimerArmed == Spec => []Armed
<1>1. Sound => Armed
  BY DEF Sound
<1> QED BY <1>1, SpecSound, PTL

\* A zone the policy holds active is held while the mode is on, also when it
\* became active before the mode or during an awaited save.
THEOREM HoldsActive == Spec => []ActiveHeld
<1>1. Sound => ActiveHeld
  BY DEF Sound, ActiveHeld
<1> QED BY <1>1, SpecSound, PTL

\* Everything this program stores is accepted by visitors.restore at the next
\* start; the mode holds only zones of the loaded map.
THEOREM RecordsAccepted == Spec => []StoredAccepted
<1>1. Sound => StoredAccepted
  <2> SUFFICES ASSUME Sound PROVE StoredAccepted
    OBVIOUS
  <2>1. TypeOK
    <3>1. mode \in Mode /\ mode.held \subseteq zones
      BY DEF Sound, TypeInv, Modes
    <3>2. disk \in Payloads /\ queued \in Payloads \cup {Nothing, Live} /\ writing \in Payloads \cup {Nothing}
      BY AcceptedFacts DEF Sound, TypeInv
    <3> QED BY <3>1, <3>2 DEF Sound, TypeInv, TypeOK
  <2>2. \A payload \in {disk, writing} \ {Nothing, NoManual} : Accepts(payload)
    BY AcceptedFacts DEF Sound, TypeInv
  <2> QED BY <2>1, <2>2 DEF StoredAccepted
<1> QED BY <1>1, SpecSound, PTL

\* Whatever the interleaving of toggles, motion, expiries, awaited and delayed
\* writes, a restart recovers the mode from the last write requested so far.
THEOREM ModeDurable == Spec => []Durable
<1>1. Sound => Durable
  <2>1. Recovered(Saved, mode) <=> Fits(Saved, mode, zones, now)
    BY DEF Recovered, Fits
  <2> QED BY <2>1 DEF Sound, SaveInv, Durable
<1> QED BY <1>1, SpecSound, PTL

\* Neither repeated toggles nor restarts renew the grace period: with the time of
\* the last disabling kept beside the program, no exit lies beyond it by more
\* than Grace.
THEOREM GraceKept == HSpec => []GraceNotRenewed
<1>1. HInit => Sound /\ GraceInv
  <2> SUFFICES ASSUME HInit PROVE Sound /\ GraceInv
    OBVIOUS
  <2>1. Sound
    BY InitSound DEF HInit
  <2>2. GraceInv
    BY Distinct, TimeFacts DEF HInit, Init, GraceInv, Due, Disabled
  <2> QED BY <2>1, <2>2
<1>2. Sound /\ GraceInv /\ [HNext]_<<vars, off>> => Sound' /\ GraceInv'
  <2>1. [HNext]_<<vars, off>> => [Next]_vars
    BY DEF HNext, vars
  <2> QED BY <2>1, NextSound, GraceStep
<1>3. GraceInv => GraceNotRenewed
  BY DEF GraceInv, Due, GraceNotRenewed
<1> QED BY <1>1, <1>2, <1>3, PTL DEF HSpec
=============================================================================
