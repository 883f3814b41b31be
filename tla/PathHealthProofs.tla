-------------------------- MODULE PathHealthProofs --------------------------
(***************************************************************************)
(* Every reachable health of PathHealth is typed and accepted by restore,  *)
(* for any nodes, aliases, windows and times.  Base collects what every    *)
(* step of a call keeps; Unsettled is what observe leaves to the judgement *)
(* of support and flapping that ends it; Sound is what holds between calls.*)
(***************************************************************************)
EXTENDS MCHealth, FiniteSetTheorems, SequenceTheorems, TLAPS

Base(h, t) ==
    /\ h \in HealthType /\ Len(h.cycles) <= CycleCount
    /\ Ordered(h.timeout, t) /\ Ordered(h.flapping, t) /\ Ordered(h.jump, t)
    /\ RunsOK(h, t) /\ CyclesOK(h, t)

Unsettled(h, t) ==
    /\ h.stuck # NoTime => TimeoutOK(h, t)
    /\ h.phase = "on" => JumpOK(h)

Sound(h, t) == Base(h, t) /\ TimeoutOK(h, t) /\ FlappingOK(h, t) /\ JumpOK(h)

-----------------------------------------------------------------------------
(* Warning rows. *)

LEMMA TimeFacts ==
    /\ NoTime = -1 /\ NoTime \notin Times /\ 0 \in Times
    /\ \A t \in Times : t \in Int /\ t >= 0
    /\ StuckWindow \in Int /\ StuckWindow > 0 /\ CycleWindow \in Int /\ CycleWindow > 0
    /\ CycleCount \in Int /\ CycleCount > 0
BY HealthAssumption DEF NoTime, Times

LEMMA EarlierTime ==
    ASSUME NEW t \in Times, NEW i \in Int, 0 <= i, i <= t PROVE i \in Times
BY HealthAssumption DEF Times

LEMMA RaisedRow ==
    ASSUME NEW w \in Warnings, NEW t \in Times, Ordered(w, t), NEW q \in Times, q <= t
    PROVE  LET r == Raised(w, t, q)
           IN  /\ r \in Warnings /\ Ordered(r, t) /\ Active(r)
               /\ r.last = t /\ r.cleared = NoTime
               /\ r.first = IF Active(w) THEN w.first ELSE q
BY TimeFacts DEF Warnings, Ordered, Raised, Active

LEMMA EndedRow ==
    ASSUME NEW w \in Warnings, NEW t \in Times, Ordered(w, t)
    PROVE  LET r == Ended(w, t)
           IN  /\ r \in Warnings /\ Ordered(r, t) /\ ~Active(r)
               /\ r.cleared # NoTime => r.cleared <= t
               /\ Active(w) => r.cleared = t
               /\ ~Active(w) => r = w
<1>1. CASE Active(w)
  <2>1. Ended(w, t) = [first |-> w.first, last |-> t, cleared |-> t]
    BY <1>1 DEF Ended, Warnings
  <2> QED BY <1>1, <2>1, TimeFacts DEF Warnings, Ordered, Active
<1>2. CASE ~Active(w)
  <2>1. Ended(w, t) = w
    BY <1>2 DEF Ended
  <2> QED BY <1>2, <2>1, TimeFacts DEF Warnings, Ordered
<1> QED BY <1>1, <1>2

LEMMA LaterRow ==
    ASSUME NEW w \in Warnings, NEW s \in Times, NEW t \in Times, s <= t, Ordered(w, s)
    PROVE  Ordered(w, t)
BY TimeFacts DEF Warnings, Ordered

-----------------------------------------------------------------------------
(* Completed cycles. *)

LEMMA Initial ==
    ASSUME NEW m \in Nat PROVE IsFiniteSet(1 .. m) /\ Cardinality(1 .. m) = m
<1>1. 1 \in Int /\ m \in Int /\ (IF 1 > m THEN 0 ELSE m - 1 + 1) = m
  OBVIOUS
<1> QED BY <1>1, FS_Interval

LEMMA Suffix ==
    ASSUME NEW c \in Seq(Times), NEW k \in 0 .. Len(c)
    PROVE  LET r == SubSeq(c, k + 1, Len(c))
           IN  /\ r \in Seq(Times) /\ Len(r) = Len(c) - k /\ DOMAIN r = 1 .. Len(c) - k
               /\ \A i \in 1 .. Len(c) - k : r[i] = c[k + i]
               /\ k = 0 => r = c
<1> DEFINE r == SubSeq(c, k + 1, Len(c))
<1>1. Len(c) \in Nat /\ k \in Int /\ k + 1 \in Int /\ Len(c) \in Int
      /\ \A i \in 1 .. Len(c) : c[i] \in Times
  BY LenProperties, ElementOfSeq
<1>2. \A i \in k + 1 .. Len(c) : c[i] \in Times
  BY <1>1
<1>3. /\ r \in Seq(Times)
      /\ Len(r) = IF k + 1 <= Len(c) THEN Len(c) - (k + 1) + 1 ELSE 0
      /\ \A i \in 1 .. Len(c) - (k + 1) + 1 : r[i] = c[k + 1 + i - 1]
  BY <1>1, <1>2, SubSeqProperties
<1>4. Len(r) = Len(c) - k
  BY <1>1, <1>3
<1>5. \A i \in 1 .. Len(c) - k : r[i] = c[k + i]
  <2> SUFFICES ASSUME NEW i \in 1 .. Len(c) - k PROVE r[i] = c[k + i]
    OBVIOUS
  <2>1. i \in 1 .. Len(c) - (k + 1) + 1 /\ k + 1 + i - 1 = k + i
    BY <1>1
  <2> QED BY <2>1, <1>3
<1>6. k = 0 => r = c
  BY SubSeqFull
<1>7. DOMAIN r = 1 .. Len(c) - k
  BY <1>3, <1>4, LenProperties
<1> QED BY <1>3, <1>4, <1>5, <1>6, <1>7

LEMMA RecentCycles ==
    ASSUME NEW cycles \in Seq(Times), NEW t \in Times,
           \A i, j \in DOMAIN cycles : i < j => cycles[i] <= cycles[j]
    PROVE  LET r == Recent(cycles, t)
           IN  /\ r \in Seq(Times) /\ Len(r) <= Len(cycles)
               /\ \A i \in DOMAIN r : ~Expired(r[i], t)
               /\ \A i \in DOMAIN r : \E k \in DOMAIN cycles : r[i] = cycles[k]
               /\ \A i, j \in DOMAIN r : i < j => r[i] <= r[j]
               /\ cycles # <<>> /\ Expired(cycles[1], t) => Len(r) < Len(cycles)
               /\ cycles # <<>> /\ ~Expired(cycles[1], t) => r = cycles
<1> DEFINE E == {i \in DOMAIN cycles : Expired(cycles[i], t)}
           k == Cardinality(E)
           r == Recent(cycles, t)
<1>1. DOMAIN cycles = 1 .. Len(cycles) /\ Len(cycles) \in Nat
      /\ \A i \in DOMAIN cycles : cycles[i] \in Times
  BY LenProperties, ElementOfSeq
<1>2. IsFiniteSet(1 .. Len(cycles)) /\ Cardinality(1 .. Len(cycles)) = Len(cycles)
  BY <1>1, Initial
<1>3. IsFiniteSet(E) /\ k \in Nat /\ k <= Len(cycles)
  <2>1. E \subseteq 1 .. Len(cycles)
    BY <1>1
  <2> QED BY <2>1, <1>2, FS_Subset, FS_CardinalityType
<1>4. ASSUME NEW i \in E, NEW j \in DOMAIN cycles, j <= i PROVE j \in E
  BY <1>1, <1>4, TimeFacts DEF Expired
<1>5. ASSUME NEW i \in DOMAIN cycles, i > k PROVE i \notin E
  <2> SUFFICES ASSUME i \in E PROVE FALSE
    OBVIOUS
  <2>1. 1 .. k + 1 \subseteq E
    <3> SUFFICES ASSUME NEW j \in 1 .. k + 1 PROVE j \in E
      OBVIOUS
    <3>1. j \in DOMAIN cycles /\ j <= i
      BY <1>1, <1>3, <1>5
    <3> QED BY <3>1, <1>4
  <2>2. Cardinality(1 .. k + 1) = k + 1 /\ IsFiniteSet(1 .. k + 1)
    <3>1. k + 1 \in Nat
      BY <1>3
    <3> QED BY <3>1, Initial
  <2>3. Cardinality(1 .. k + 1) <= k
    BY <2>1, <1>3, FS_Subset
  <2> QED BY <2>2, <2>3, <1>3
<1>6. /\ r \in Seq(Times) /\ Len(r) = Len(cycles) - k /\ DOMAIN r = 1 .. Len(cycles) - k
      /\ \A i \in 1 .. Len(cycles) - k : r[i] = cycles[k + i]
      /\ k = 0 => r = cycles
  <2>1. k \in 0 .. Len(cycles)
    BY <1>1, <1>3
  <2> QED BY <2>1, Suffix DEF Recent
<1>7. cycles # <<>> => 1 \in DOMAIN cycles
  BY <1>1, EmptySeq
<1>8. E = {} => k = 0
  BY FS_EmptySet
<1>9. ASSUME cycles # <<>>, Expired(cycles[1], t) PROVE 1 \in E
  BY <1>7, <1>9
<1>10. ASSUME cycles # <<>>, ~Expired(cycles[1], t) PROVE E = {}
  <2> SUFFICES ASSUME NEW i \in E PROVE FALSE
    OBVIOUS
  <2> QED BY <1>1, <1>4, <1>7, <1>10
<1>11. \A i \in DOMAIN cycles : i \notin E => ~Expired(cycles[i], t)
  OBVIOUS
<1> HIDE DEF E, k, r
<1>12. \A i \in DOMAIN r : k + i \in DOMAIN cycles /\ k + i > k /\ r[i] = cycles[k + i]
  BY <1>1, <1>3, <1>6
<1>13. \A i \in DOMAIN r : ~Expired(r[i], t)
  BY <1>5, <1>12, <1>11
<1>14. \A i, j \in DOMAIN r : i < j => r[i] <= r[j]
  BY <1>1, <1>3, <1>6, <1>12
<1>15. ASSUME cycles # <<>>, Expired(cycles[1], t) PROVE Len(r) < Len(cycles)
  BY <1>1, <1>3, <1>5, <1>6, <1>7, <1>9, <1>15
<1>16. ASSUME cycles # <<>>, ~Expired(cycles[1], t) PROVE r = cycles
  BY <1>6, <1>8, <1>10, <1>16
<1>17. \A i \in DOMAIN r : \E j \in DOMAIN cycles : r[i] = cycles[j]
  BY <1>12
<1> QED BY <1>1, <1>3, <1>6, <1>13, <1>14, <1>15, <1>16, <1>17 DEF r

-----------------------------------------------------------------------------
(* The parts of a call. *)

LEMMA ProgressedBase ==
    ASSUME NEW s \in Times, NEW t \in Times, s <= t, NEW h, Sound(h, s), NEW b \in BOOLEAN
    PROVE  LET g == Progressed(h, t, b)
           IN  /\ Base(g, t) /\ FlappingOK(g, t) /\ JumpOK(g)
               /\ g.phase = h.phase /\ g.on = h.on
               /\ ~b => TimeoutOK(g, t)
<1> DEFINE g == Progressed(h, t, b)
           timeout == IF ~b /\ Overdue(h, t)
                      THEN Raised(h.timeout, t, h.stuck + StuckWindow) ELSE h.timeout
           flapping == IF FullRun(h.cycles) THEN FlappingBy(h.flapping, h.cycles, t) ELSE h.flapping
           cycles == Recent(h.cycles, t)
<1>1. /\ h \in HealthType /\ Len(h.cycles) <= CycleCount
      /\ h.timeout \in Warnings /\ h.flapping \in Warnings /\ h.jump \in Warnings
      /\ h.cycles \in Seq(Times) /\ h.stuck \in Times \cup {NoTime}
      /\ h.on \in Times \cup {NoTime}
  BY DEF Sound, Base, HealthType
<1>2. /\ g \in [phase : Phases, on : Times \cup {NoTime}, stuck : Times \cup {NoTime},
                 cycles : {cycles}, timeout : {timeout}, flapping : {flapping},
                 jump : Warnings]
      /\ g.phase = h.phase /\ g.on = h.on /\ g.stuck = h.stuck /\ g.jump = h.jump
      /\ g.cycles = cycles /\ g.timeout = timeout /\ g.flapping = flapping
  BY <1>1 DEF Progressed, HealthType
<1>3. Ordered(h.timeout, t) /\ Ordered(h.flapping, t) /\ Ordered(h.jump, t)
  BY <1>1, LaterRow DEF Sound, Base
<1>4. /\ timeout \in Warnings /\ Ordered(timeout, t)
      /\ ~b => TimeoutOK(g, t)
  <2>1. CASE ~b /\ Overdue(h, t)
    <3>1. h.stuck + StuckWindow \in Times /\ h.stuck + StuckWindow <= t
      BY <1>1, <2>1, TimeFacts, EarlierTime, SMTT(30) DEF Overdue
    <3>2. /\ timeout \in Warnings /\ Ordered(timeout, t) /\ Active(timeout)
          /\ timeout.last = t /\ timeout.cleared = NoTime
          /\ timeout.first = IF Active(h.timeout) THEN h.timeout.first ELSE h.stuck + StuckWindow
      BY <1>1, <1>3, <2>1, <3>1, RaisedRow
    <3> HIDE DEF timeout
    <3> QED BY <1>2, <2>1, <3>2 DEF TimeoutOK, Sound, Overdue
  <2>2. CASE ~(~b /\ Overdue(h, t))
    <3>1. timeout = h.timeout
      BY <2>2
    <3>2. ~b => ~Overdue(h, s)
      BY <1>1, <2>2, TimeFacts DEF Overdue
    <3> HIDE DEF timeout
    <3> QED BY <1>1, <1>2, <1>3, <2>2, <3>1, <3>2 DEF TimeoutOK, Sound, Overdue
  <2> QED BY <2>1, <2>2
<1>5. /\ cycles \in Seq(Times) /\ Len(cycles) <= Len(h.cycles)
      /\ \A i \in DOMAIN cycles : ~Expired(cycles[i], t)
      /\ \A i \in DOMAIN cycles : \E k \in DOMAIN h.cycles : cycles[i] = h.cycles[k]
      /\ \A i, j \in DOMAIN cycles : i < j => cycles[i] <= cycles[j]
      /\ h.cycles # <<>> /\ Expired(h.cycles[1], t) => Len(cycles) < Len(h.cycles)
      /\ h.cycles # <<>> /\ ~Expired(h.cycles[1], t) => cycles = h.cycles
  BY <1>1, RecentCycles DEF Sound, Base, CyclesOK
<1>6. \A i \in DOMAIN h.cycles : h.cycles[i] \in Times
  BY <1>1, ElementOfSeq, LenProperties
<1>7. CyclesOK(g, t)
  <2> HIDE DEF cycles, g
  <2>1. ASSUME NEW i \in DOMAIN cycles
        PROVE  /\ cycles[i] <= t /\ t - cycles[i] < CycleWindow
               /\ h.on # NoTime => cycles[i] <= h.on
    <3>1. PICK k \in DOMAIN h.cycles : cycles[i] = h.cycles[k]
      BY <1>5
    <3>2. h.cycles[k] <= s /\ (h.on # NoTime => h.cycles[k] <= h.on)
      BY DEF Sound, Base, CyclesOK
    <3>3. ~Expired(cycles[i], t)
      BY <1>5
    <3> QED BY <1>6, <3>1, <3>2, <3>3, TimeFacts DEF Expired
  <2> QED BY <1>2, <1>5, <2>1 DEF CyclesOK
<1>8. /\ flapping \in Warnings /\ Ordered(flapping, t) /\ FlappingOK(g, t)
  <2> HIDE DEF cycles, g
  <2>1. CASE ~FullRun(h.cycles)
    <3>1. flapping = h.flapping /\ ~Active(h.flapping)
      BY <2>1 DEF Sound, FlappingOK
    <3>2. Len(cycles) # CycleCount
      BY <1>1, <1>5, <2>1, LenProperties, TimeFacts DEF FullRun
    <3> HIDE DEF flapping
    <3> QED BY <1>1, <1>2, <1>3, <3>1, <3>2 DEF FlappingOK, FullRun
  <2>2. CASE FullRun(h.cycles)
    <3>1. h.cycles # <<>> /\ 1 \in DOMAIN h.cycles /\ Len(h.cycles) \in DOMAIN h.cycles
      BY <1>1, <2>2, EmptySeq, LenProperties, TimeFacts DEF FullRun
    <3>2. LastCycle(h.cycles) \in Times /\ LastCycle(h.cycles) <= t
      BY <1>6, <3>1, TimeFacts DEF LastCycle, Sound, Base, CyclesOK
    <3>3. Active(h.flapping) /\ h.flapping.last = s /\ h.flapping.first <= LastCycle(h.cycles)
      BY <2>2 DEF Sound, FlappingOK
    <3>4. CASE Expiry(h.cycles) <= t
      <4>1. Expiry(h.cycles) \in Times /\ s <= Expiry(h.cycles)
        <5>1. h.cycles[1] \in Times /\ s - h.cycles[1] < CycleWindow
          BY <1>6, <3>1 DEF Sound, Base, CyclesOK
        <5> QED BY <3>4, <5>1, TimeFacts, EarlierTime DEF Expiry
      <4>2. Ordered(h.flapping, Expiry(h.cycles))
        BY <1>1, <4>1, LaterRow DEF Sound, Base
      <4>3. /\ flapping = Ended(h.flapping, Expiry(h.cycles))
            /\ flapping \in Warnings /\ Ordered(flapping, Expiry(h.cycles)) /\ ~Active(flapping)
        BY <1>1, <2>2, <3>4, <4>1, <4>2, EndedRow DEF FlappingBy
      <4>4. Ordered(flapping, t)
        BY <3>4, <4>1, <4>3, LaterRow
      <4>5. Expired(h.cycles[1], t)
        BY <1>6, <3>1, <3>4, TimeFacts DEF Expiry, Expired
      <4>6. Len(cycles) # CycleCount
        BY <1>5, <2>2, <3>1, <4>5, LenProperties, TimeFacts DEF FullRun
      <4> HIDE DEF flapping
      <4> QED BY <1>2, <4>3, <4>4, <4>6 DEF FlappingOK, FullRun
    <3>5. CASE ~(Expiry(h.cycles) <= t)
      <4>1. ~Expired(h.cycles[1], t)
        BY <1>6, <3>1, <3>5, TimeFacts DEF Expiry, Expired
      <4>2. cycles = h.cycles
        BY <1>5, <3>1, <4>1
      <4>3. flapping = Raised(h.flapping, t, LastCycle(h.cycles))
        BY <2>2, <3>5 DEF FlappingBy
      <4>4. /\ flapping \in Warnings /\ Ordered(flapping, t) /\ Active(flapping)
            /\ flapping.last = t /\ flapping.first = h.flapping.first
        BY <1>1, <1>3, <3>2, <3>3, <4>3, RaisedRow
      <4> HIDE DEF flapping
      <4> QED BY <1>2, <2>2, <3>3, <4>2, <4>4 DEF FlappingOK
    <3> QED BY <3>4, <3>5
  <2> QED BY <2>1, <2>2
<1>9. g \in HealthType /\ Len(g.cycles) <= CycleCount
  <2> HIDE DEF g, cycles, timeout, flapping
  <2> QED BY <1>1, <1>2, <1>4, <1>5, <1>8, LenProperties, TimeFacts DEF HealthType
<1>10. RunsOK(g, t)
  <2> HIDE DEF g
  <2> QED BY <1>1, <1>2, TimeFacts DEF RunsOK, Sound, Base
<1>11. JumpOK(g)
  <2> HIDE DEF g
  <2> QED BY <1>2 DEF JumpOK, Sound
<1> HIDE DEF g, cycles, timeout, flapping
<1>12. Base(g, t)
  BY <1>2, <1>3, <1>4, <1>7, <1>8, <1>9, <1>10 DEF Base
<1> QED BY <1>2, <1>4, <1>8, <1>11, <1>12 DEF g

LEMMA EdgeBase ==
    ASSUME NEW t \in Times, NEW h, Base(h, t), FlappingOK(h, t), JumpOK(h),
           NEW phase \in Phases, NEW b \in BOOLEAN, ~b => TimeoutOK(h, t)
    PROVE  LET e == Edge(h, phase, t, b)
           IN  /\ Base(e, t) /\ Unsettled(e, t)
               /\ e.phase = phase /\ e.on = OnSince(h, phase, t, b)
               /\ Active(e.flapping) => /\ FullRun(e.cycles) /\ e.flapping.last = t
                                        /\ e.flapping.first <= LastCycle(e.cycles)
<1> DEFINE e == Edge(h, phase, t, b)
           on == OnSince(h, phase, t, b)
           stuck == IF phase = "on" /\ ~b THEN h.stuck ELSE NoTime
           cycles == Completed(h, phase, t, b)
           timeout == IF b THEN Ended(h.timeout, t) ELSE h.timeout
           jump == IF b THEN Ended(h.jump, t) ELSE h.jump
<1>1. /\ h \in HealthType /\ Len(h.cycles) <= CycleCount
      /\ h.timeout \in Warnings /\ h.flapping \in Warnings /\ h.jump \in Warnings
      /\ h.cycles \in Seq(Times) /\ h.stuck \in Times \cup {NoTime}
      /\ h.on \in Times \cup {NoTime} /\ h.phase \in Phases
  BY DEF Base, HealthType
<1>2. /\ e \in [phase : Phases, on : {on}, stuck : {stuck}, cycles : {cycles},
                 timeout : {timeout}, flapping : Warnings, jump : {jump}]
      /\ e.phase = phase /\ e.on = on /\ e.stuck = stuck /\ e.cycles = cycles
      /\ e.timeout = timeout /\ e.flapping = h.flapping /\ e.jump = jump
  BY <1>1 DEF Edge, HealthType
<1>3. Ordered(h.timeout, t) /\ Ordered(h.flapping, t) /\ Ordered(h.jump, t)
  BY DEF Base
<1>4. /\ timeout \in Warnings /\ Ordered(timeout, t)
      /\ ~b => timeout = h.timeout
  BY <1>1, <1>3, EndedRow
<1>5. /\ jump \in Warnings /\ Ordered(jump, t)
      /\ b => ~Active(jump)
      /\ ~b => jump = h.jump
  BY <1>1, <1>3, EndedRow
<1>6. on \in Times \cup {NoTime} /\ stuck \in Times \cup {NoTime}
  BY <1>1 DEF OnSince
<1>7. /\ phase # "on" => on = NoTime /\ stuck = NoTime
      /\ b => on = NoTime /\ stuck = NoTime
      /\ phase = "on" /\ ~b /\ h.phase = "on" => on = h.on /\ stuck = h.stuck
      /\ phase = "on" /\ ~b /\ h.phase # "on" => on = t /\ stuck = NoTime
  BY DEF OnSince, Base, RunsOK
<1>8. /\ cycles \in Seq(Times) /\ Len(cycles) <= CycleCount
      /\ \A i \in DOMAIN cycles : /\ cycles[i] <= t /\ t - cycles[i] < CycleWindow
                                  /\ \A j \in DOMAIN cycles : i < j => cycles[i] <= cycles[j]
      /\ phase = "on" => cycles = h.cycles
      /\ FullRun(h.cycles) => /\ FullRun(cycles)
                              /\ cycles = h.cycles \/ LastCycle(cycles) = t
  <2>1. CASE ~QuickCycle(h, phase, t, b)
    <3>1. cycles = h.cycles
      BY <2>1 DEF Completed
    <3> HIDE DEF cycles
    <3> QED BY <1>1, <3>1 DEF Base, CyclesOK
  <2>2. CASE QuickCycle(h, phase, t, b)
    <3> DEFINE all == Append(h.cycles, t)
               k == IF Len(all) > CycleCount THEN 1 ELSE 0
    <3>1. /\ all \in Seq(Times) /\ Len(all) = Len(h.cycles) + 1
          /\ \A i \in 1 .. Len(h.cycles) : all[i] = h.cycles[i]
          /\ all[Len(h.cycles) + 1] = t
      BY <1>1, AppendProperties
    <3>2. Len(h.cycles) \in Nat /\ DOMAIN h.cycles = 1 .. Len(h.cycles)
          /\ \A i \in 1 .. Len(h.cycles) : h.cycles[i] \in Times
      BY <1>1, LenProperties, ElementOfSeq
    <3>3. \A i \in 1 .. Len(h.cycles) :
             /\ h.cycles[i] <= t /\ t - h.cycles[i] < CycleWindow
             /\ \A j \in 1 .. Len(h.cycles) : i < j => h.cycles[i] <= h.cycles[j]
      BY <3>2 DEF Base, CyclesOK
    <3>4. \A i \in 1 .. Len(all) :
             /\ all[i] \in Times /\ all[i] <= t /\ t - all[i] < CycleWindow
             /\ \A j \in 1 .. Len(all) : i < j => all[i] <= all[j]
      <4> SUFFICES ASSUME NEW i \in 1 .. Len(all)
                   PROVE  /\ all[i] \in Times /\ all[i] <= t /\ t - all[i] < CycleWindow
                          /\ \A j \in 1 .. Len(all) : i < j => all[i] <= all[j]
        OBVIOUS
      <4> HIDE DEF all
      <4>1. CASE i = Len(h.cycles) + 1
        BY <3>1, <3>2, <4>1, TimeFacts
      <4>2. CASE i \in 1 .. Len(h.cycles)
        <5>1. all[i] \in Times /\ all[i] <= t /\ t - all[i] < CycleWindow
          BY <3>1, <3>2, <3>3, <4>2
        <5>2. ASSUME NEW j \in 1 .. Len(all), i < j PROVE all[i] <= all[j]
          <6>1. CASE j = Len(h.cycles) + 1
            BY <3>1, <5>1, <6>1
          <6>2. CASE j \in 1 .. Len(h.cycles)
            BY <3>1, <3>3, <4>2, <5>2, <6>2
          <6> QED BY <3>1, <3>2, <6>1, <6>2
        <5> QED BY <5>1, <5>2
      <4> QED BY <3>1, <3>2, <4>1, <4>2
    <3>5. k \in 0 .. Len(all) /\ cycles = SubSeq(all, k + 1, Len(all))
      BY <2>2, <3>1, <3>2, TimeFacts DEF Completed, LastCycles
    <3>6. /\ cycles \in Seq(Times) /\ Len(cycles) = Len(all) - k
          /\ DOMAIN cycles = 1 .. Len(all) - k
          /\ \A i \in 1 .. Len(all) - k : cycles[i] = all[k + i]
      <4> HIDE DEF cycles, all, k
      <4> QED BY <3>1, <3>5, Suffix
    <3>7. Len(cycles) <= CycleCount
          /\ (FullRun(h.cycles) => Len(cycles) = CycleCount)
      <4> HIDE DEF cycles, all
      <4> QED BY <1>1, <3>1, <3>2, <3>6, TimeFacts DEF FullRun
    <3>8. k \in {0, 1}
      OBVIOUS
    <3>9. Len(cycles) >= 1 /\ LastCycle(cycles) = t
      <4>1. Len(cycles) >= 1
        <5> HIDE DEF cycles, all
        <5> QED BY <3>1, <3>2, <3>6, TimeFacts
      <4>2. k + Len(cycles) = Len(h.cycles) + 1 /\ Len(cycles) \in 1 .. Len(all) - k
        <5> HIDE DEF cycles, all, k
        <5> QED BY <3>1, <3>2, <3>6, <3>8, <4>1
      <4> HIDE DEF cycles, all, k
      <4> QED BY <3>1, <3>6, <4>1, <4>2 DEF LastCycle
    <3>10. phase # "on"
      BY <2>2 DEF QuickCycle
    <3>11. \A i \in DOMAIN cycles : k + i \in 1 .. Len(all) /\ cycles[i] = all[k + i]
      <4> HIDE DEF cycles, all, k
      <4> QED BY <3>1, <3>2, <3>6, <3>8
    <3>12. \A i \in DOMAIN cycles : /\ cycles[i] <= t /\ t - cycles[i] < CycleWindow
                                   /\ \A j \in DOMAIN cycles : i < j => cycles[i] <= cycles[j]
      <4> HIDE DEF cycles, all, k
      <4> QED BY <3>4, <3>6, <3>8, <3>11
    <3> HIDE DEF cycles, all, k
    <3> QED BY <3>6, <3>7, <3>9, <3>10, <3>12 DEF FullRun
  <2> QED BY <2>1, <2>2
<1> HIDE DEF e, on, stuck, cycles, timeout, jump
<1>9. e \in HealthType /\ Len(e.cycles) <= CycleCount
  BY <1>2, <1>4, <1>5, <1>6, <1>8 DEF HealthType
<1>10. RunsOK(e, t)
  <2>1. h.on <= t /\ h.stuck <= t /\ (h.on # NoTime /\ h.stuck # NoTime => h.on <= h.stuck)
    BY DEF Base, RunsOK
  <2> QED BY <1>2, <1>7, <2>1, TimeFacts DEF RunsOK, Phases
<1>11. CyclesOK(e, t)
  <2>1. ASSUME phase = "on", on # NoTime, NEW i \in DOMAIN cycles PROVE cycles[i] <= on
    <3>1. cycles[i] <= t /\ (h.on # NoTime => cycles[i] <= h.on)
      BY <1>8, <2>1 DEF Base, CyclesOK
    <3> QED BY <1>7, <2>1, <3>1 DEF Phases
  <2> QED BY <1>2, <1>7, <1>8, <2>1 DEF CyclesOK
<1>12. Base(e, t)
  BY <1>2, <1>3, <1>4, <1>5, <1>9, <1>10, <1>11 DEF Base
<1>13. Unsettled(e, t)
  <2>1. e.stuck # NoTime => TimeoutOK(e, t)
    BY <1>2, <1>4, <1>7 DEF TimeoutOK, Overdue
  <2>2. e.phase = "on" => JumpOK(e)
    BY <1>2, <1>5, <1>7 DEF JumpOK
  <2> QED BY <2>1, <2>2 DEF Unsettled
<1>14. Active(e.flapping) => /\ FullRun(e.cycles) /\ e.flapping.last = t
                            /\ e.flapping.first <= LastCycle(e.cycles)
  <2>1. Ordered(h.flapping, t)
    BY <1>3
  <2> QED BY <1>1, <1>2, <1>8, <2>1, TimeFacts DEF FlappingOK, Ordered, Warnings
<1>15. e.phase = phase /\ e.on = OnSince(h, phase, t, b)
  BY <1>2 DEF on
<1> QED BY <1>12, <1>13, <1>14, <1>15 DEF e

LEMMA SupportedBase ==
    ASSUME NEW t \in Times, NEW h, Base(h, t), Unsettled(h, t), NEW n, NEW cov
    PROVE  LET r == Supported(h, t, n, cov)
           IN  /\ Base(r, t) /\ TimeoutOK(r, t) /\ JumpOK(r) /\ UpToDate(r, n, cov)
               /\ r.phase = h.phase /\ r.on = h.on
               /\ r.cycles = h.cycles /\ r.flapping = h.flapping
<1> DEFINE r == Supported(h, t, n, cov)
           stuck == UnsupportedSince(h, t, n, cov)
           due == stuck # NoTime /\ stuck + StuckWindow <= t
           jump == IF h.phase # "on" \/ n \in cov THEN Ended(h.jump, t) ELSE h.jump
           timeout == Judged(h.timeout, t, due, stuck + StuckWindow)
<1>1. /\ h \in HealthType /\ h.timeout \in Warnings /\ h.jump \in Warnings
      /\ h.stuck \in Times \cup {NoTime} /\ h.on \in Times \cup {NoTime}
      /\ h.stuck <= t /\ h.on <= t /\ (h.phase # "on" => h.on = NoTime /\ h.stuck = NoTime)
      /\ (h.on # NoTime /\ h.stuck # NoTime => h.on <= h.stuck)
      /\ Ordered(h.timeout, t) /\ Ordered(h.jump, t)
  BY DEF Base, HealthType, RunsOK
<1>2. /\ r \in [phase : Phases, on : Times \cup {NoTime}, stuck : {stuck}, cycles : Seq(Times),
                 timeout : {timeout}, flapping : Warnings, jump : {jump}]
      /\ r.phase = h.phase /\ r.on = h.on /\ r.stuck = stuck /\ r.cycles = h.cycles
      /\ r.timeout = timeout /\ r.flapping = h.flapping /\ r.jump = jump
  BY <1>1 DEF Supported, HealthType
<1>3. /\ jump \in Warnings /\ Ordered(jump, t)
      /\ h.phase # "on" \/ n \in cov => ~Active(jump)
      /\ ~(h.phase # "on" \/ n \in cov) => jump = h.jump
  BY <1>1, EndedRow
<1>4. /\ stuck \in Times \cup {NoTime}
      /\ stuck = NoTime \/ stuck = t \/ (stuck = h.stuck /\ h.stuck # NoTime)
      /\ stuck # NoTime <=> h.phase = "on" /\ n \notin cov
      /\ stuck # NoTime /\ stuck # h.stuck => h.stuck = NoTime
  BY <1>1, TimeFacts DEF UnsupportedSince
<1>5. timeout \in Warnings /\ Ordered(timeout, t) /\ TimeoutOK(r, t)
  <2>1. CASE due
    <3>1. stuck = h.stuck /\ Active(h.timeout) /\ h.timeout.first = h.stuck + StuckWindow
      BY <1>4, <2>1, TimeFacts DEF Unsettled, TimeoutOK, Overdue
    <3>2. stuck + StuckWindow \in Times /\ stuck + StuckWindow <= t
      BY <1>4, <2>1, TimeFacts, EarlierTime
    <3>3. /\ timeout \in Warnings /\ Ordered(timeout, t) /\ Active(timeout)
          /\ timeout.last = t /\ timeout.cleared = NoTime
          /\ timeout.first = h.stuck + StuckWindow
      BY <1>1, <2>1, <3>1, <3>2, RaisedRow DEF Judged
    <3>4. Overdue(r, t)
      BY <1>2, <2>1 DEF Overdue
    <3> HIDE DEF r, stuck, due, jump, timeout
    <3>5. TimeoutOK(r, t)
      BY <1>2, <3>1, <3>3, <3>4 DEF TimeoutOK
    <3> QED BY <3>3, <3>5
  <2>2. CASE ~due
    <3>1. /\ timeout \in Warnings /\ Ordered(timeout, t) /\ ~Active(timeout)
          /\ timeout.cleared # NoTime => timeout.cleared <= t
          /\ ~Active(h.timeout) => timeout = h.timeout
      BY <1>1, <2>2, EndedRow DEF Judged
    <3>2. ~Overdue(r, t)
      BY <1>2, <2>2 DEF Overdue
    <3>3. stuck # NoTime /\ timeout.cleared # NoTime => timeout.cleared <= stuck
      <4>1. CASE stuck = h.stuck /\ h.stuck # NoTime
        <5>1. TimeoutOK(h, t) /\ ~Overdue(h, t)
          BY <2>2, <4>1 DEF Unsettled, Overdue
        <5> HIDE DEF timeout, stuck
        <5> QED BY <3>1, <4>1, <5>1 DEF TimeoutOK
      <4>2. CASE stuck = t
        BY <3>1, <4>2
      <4> QED BY <1>4, <4>1, <4>2
    <3> HIDE DEF r, stuck, due, jump, timeout
    <3>4. TimeoutOK(r, t)
      BY <1>2, <3>1, <3>2, <3>3 DEF TimeoutOK
    <3> QED BY <3>1, <3>4
  <2> QED BY <2>1, <2>2
<1> HIDE DEF r, stuck, due, jump, timeout
<1>6. JumpOK(r)
  BY <1>2, <1>3 DEF JumpOK, Unsettled
<1>7. r \in HealthType
  BY <1>2, <1>3, <1>4, <1>5 DEF HealthType
<1>8. RunsOK(r, t)
  BY <1>1, <1>2, <1>4, TimeFacts DEF RunsOK
<1>9. CyclesOK(r, t)
  BY <1>2 DEF CyclesOK, Base
<1>10. Base(r, t)
  BY <1>2, <1>3, <1>5, <1>7, <1>8, <1>9 DEF Base
<1>11. UpToDate(r, n, cov)
  BY <1>2, <1>3, <1>4 DEF UpToDate
<1> QED BY <1>2, <1>5, <1>6, <1>10, <1>11 DEF r

LEMMA FlappedSound ==
    ASSUME NEW t \in Times, NEW h, Base(h, t), TimeoutOK(h, t), JumpOK(h),
           Active(h.flapping) => /\ FullRun(h.cycles) /\ h.flapping.last = t
                                 /\ h.flapping.first <= LastCycle(h.cycles)
    PROVE  /\ Sound(Flapped(h, t), t)
           /\ Flapped(h, t).phase = h.phase /\ Flapped(h, t).on = h.on
<1> DEFINE r == Flapped(h, t)
           flapping == IF FullRun(h.cycles) THEN Raised(h.flapping, t, LastCycle(h.cycles))
                       ELSE Ended(h.flapping, t)
<1>1. /\ h \in HealthType /\ h.flapping \in Warnings /\ h.cycles \in Seq(Times)
      /\ Ordered(h.flapping, t)
  BY DEF Base, HealthType
<1>2. /\ r \in [phase : Phases, on : Times \cup {NoTime}, stuck : Times \cup {NoTime},
                 cycles : Seq(Times), timeout : Warnings, flapping : {flapping},
                 jump : Warnings]
      /\ r.phase = h.phase /\ r.on = h.on /\ r.stuck = h.stuck /\ r.cycles = h.cycles
      /\ r.timeout = h.timeout /\ r.flapping = flapping /\ r.jump = h.jump
  BY <1>1 DEF Flapped, HealthType
<1>3. flapping \in Warnings /\ Ordered(flapping, t) /\ FlappingOK(r, t)
  <2>1. CASE FullRun(h.cycles)
    <3>1. Len(h.cycles) \in DOMAIN h.cycles
      BY <1>1, <2>1, LenProperties, TimeFacts DEF FullRun
    <3>2. LastCycle(h.cycles) \in Times /\ LastCycle(h.cycles) <= t
      BY <1>1, <3>1, ElementOfSeq, LenProperties DEF LastCycle, Base, CyclesOK
    <3>3. /\ flapping \in Warnings /\ Ordered(flapping, t) /\ Active(flapping)
          /\ flapping.last = t /\ flapping.first <= LastCycle(h.cycles)
      BY <1>1, <2>1, <3>2, RaisedRow, TimeFacts
    <3> HIDE DEF r, flapping
    <3> QED BY <1>2, <2>1, <3>3 DEF FlappingOK
  <2>2. CASE ~FullRun(h.cycles)
    <3>1. flapping \in Warnings /\ Ordered(flapping, t) /\ ~Active(flapping)
      BY <1>1, <2>2, EndedRow
    <3> HIDE DEF r, flapping
    <3> QED BY <1>2, <2>2, <3>1 DEF FlappingOK
  <2> QED BY <2>1, <2>2
<1> HIDE DEF r, flapping
<1>4. TimeoutOK(r, t) /\ JumpOK(r)
  BY <1>2 DEF TimeoutOK, Overdue, JumpOK
<1>5. r \in HealthType /\ RunsOK(r, t) /\ CyclesOK(r, t) /\ Len(r.cycles) <= CycleCount
  BY <1>2, <1>3 DEF HealthType, RunsOK, CyclesOK, Base
<1> QED BY <1>2, <1>3, <1>4, <1>5 DEF Sound, Base, r

-----------------------------------------------------------------------------
(* The calls of the reducer. *)

LEMMA AdvancedSound ==
    ASSUME NEW s \in Times, NEW t \in Times, s <= t, NEW h, Sound(h, s), NEW n, NEW cov
    PROVE  LET r == Advanced(h, t, n, cov)
           IN  Sound(r, t) /\ UpToDate(r, n, cov) /\ r.phase = h.phase /\ r.on = h.on
<1> DEFINE g == Progressed(h, t, FALSE)
           r == Supported(g, t, n, cov)
<1>1. /\ Base(g, t) /\ FlappingOK(g, t) /\ JumpOK(g) /\ TimeoutOK(g, t)
      /\ g.phase = h.phase /\ g.on = h.on
  BY ProgressedBase
<1>2. Unsettled(g, t)
  BY <1>1 DEF Unsettled
<1> HIDE DEF g
<1>3. /\ Base(r, t) /\ TimeoutOK(r, t) /\ JumpOK(r) /\ UpToDate(r, n, cov)
      /\ r.phase = g.phase /\ r.on = g.on /\ r.cycles = g.cycles /\ r.flapping = g.flapping
  BY <1>1, <1>2, SupportedBase
<1> HIDE DEF r
<1>4. FlappingOK(r, t)
  BY <1>1, <1>3 DEF FlappingOK
<1> QED BY <1>1, <1>3, <1>4 DEF Sound, Advanced, g, r

LEMMA ObservedSound ==
    ASSUME NEW s \in Times, NEW t \in Times, s <= t, NEW h, Sound(h, s),
           NEW phase \in Phases, NEW n, NEW cov, NEW b \in BOOLEAN
    PROVE  LET r == Observed(h, phase, t, n, cov, b)
           IN  Sound(r, t) /\ r.phase = phase
<1> DEFINE g == Progressed(h, t, b)
           e == Edge(g, phase, t, b)
           u == Supported(e, t, n, cov)
<1>1. /\ Base(g, t) /\ FlappingOK(g, t) /\ JumpOK(g) /\ (~b => TimeoutOK(g, t))
      /\ g.phase = h.phase /\ g.on = h.on
  BY ProgressedBase
<1> HIDE DEF g
<1>2. /\ Base(e, t) /\ Unsettled(e, t)
      /\ e.phase = phase /\ e.on = OnSince(g, phase, t, b)
      /\ Active(e.flapping) => /\ FullRun(e.cycles) /\ e.flapping.last = t
                               /\ e.flapping.first <= LastCycle(e.cycles)
  BY <1>1, EdgeBase
<1> HIDE DEF e
<1>3. /\ Base(u, t) /\ TimeoutOK(u, t) /\ JumpOK(u)
      /\ u.phase = e.phase /\ u.on = e.on /\ u.cycles = e.cycles /\ u.flapping = e.flapping
  BY <1>2, SupportedBase
<1> HIDE DEF u
<1>4. Sound(Flapped(u, t), t) /\ Flapped(u, t).phase = u.phase /\ Flapped(u, t).on = u.on
  BY <1>2, <1>3, FlappedSound
<1> QED BY <1>2, <1>3, <1>4 DEF Observed, g, e, u

\* An edge that is observed dates the ON.
LEMMA ObservedRise ==
    ASSUME NEW t, NEW h \in HealthType, h.phase # "on", NEW n, NEW cov
    PROVE  Observed(h, "on", t, n, cov, FALSE).on = t
<1> DEFINE g == Progressed(h, t, FALSE)
           e == Edge(g, "on", t, FALSE)
           u == Supported(e, t, n, cov)
<1>1. DOMAIN g = DOMAIN h /\ g.phase # "on" /\ "on" \in DOMAIN g
  BY DEF Progressed, HealthType
<1> HIDE DEF g
<1>2. e.on = t /\ "on" \in DOMAIN e
  BY <1>1 DEF Edge, OnSince
<1> HIDE DEF e
<1>3. u.on = t /\ "on" \in DOMAIN u
  BY <1>2 DEF Supported
<1> HIDE DEF u
<1>4. Flapped(u, t).on = t
  BY <1>3 DEF Flapped
<1> QED BY <1>4 DEF Observed, g, e, u

LEMMA JumpedSound ==
    ASSUME NEW t \in Times, NEW h, Sound(h, t), h.on = t, NEW n, NEW cov
    PROVE  Sound(Jumped(h, t, n, cov), t) /\ Jumped(h, t, n, cov).phase = h.phase
<1>1. CASE ~(h.phase = "on" /\ n \notin cov)
  BY <1>1 DEF Jumped
<1>2. CASE h.phase = "on" /\ n \notin cov
  <2> DEFINE jump == Raised(h.jump, t, t)
             r == Jumped(h, t, n, cov)
  <2>1. h \in HealthType /\ h.jump \in Warnings /\ Ordered(h.jump, t)
    BY DEF Sound, Base, HealthType
  <2>2. /\ r \in [phase : Phases, on : Times \cup {NoTime}, stuck : Times \cup {NoTime},
                   cycles : Seq(Times), timeout : Warnings, flapping : Warnings,
                   jump : {jump}]
        /\ r.phase = h.phase /\ r.on = h.on /\ r.stuck = h.stuck /\ r.cycles = h.cycles
        /\ r.timeout = h.timeout /\ r.flapping = h.flapping /\ r.jump = jump
    BY <1>2, <2>1 DEF Jumped, HealthType
  <2>3. /\ jump \in Warnings /\ Ordered(jump, t) /\ jump.last = t
        /\ jump.first = IF Active(h.jump) THEN h.jump.first ELSE t
    BY <2>1, RaisedRow, TimeFacts
  <2>4. Active(h.jump) => h.jump.first = t
    BY DEF Sound, JumpOK
  <2> HIDE DEF r, jump
  <2>5. JumpOK(r)
    BY <1>2, <2>2, <2>3, <2>4 DEF JumpOK
  <2>6. TimeoutOK(r, t) /\ FlappingOK(r, t)
    BY <2>2 DEF TimeoutOK, Overdue, FlappingOK, Sound
  <2>7. Base(r, t)
    BY <2>2, <2>3 DEF Base, HealthType, RunsOK, CyclesOK, Sound
  <2> QED BY <2>2, <2>5, <2>6, <2>7 DEF Sound, r
<1> QED BY <1>1, <1>2

LEMMA MovedSound ==
    ASSUME NEW s \in Times, NEW t \in Times, s <= t, NEW h, Sound(h, s), NEW n, NEW cov
    PROVE  LET r == Moved(h, n, t, cov)
           IN  Sound(r, t) /\ UpToDate(r, n, cov) /\ r.phase = h.phase
<1> DEFINE g == Advanced(h, t, n, covered)
<1>1. Sound(g, t) /\ g.phase = h.phase
  BY AdvancedSound
<1> HIDE DEF g
<1>2. /\ Sound(Advanced(g, t, n, cov), t) /\ UpToDate(Advanced(g, t, n, cov), n, cov)
      /\ Advanced(g, t, n, cov).phase = g.phase
  BY <1>1, AdvancedSound, TimeFacts
<1> QED BY <1>1, <1>2 DEF Moved, g

-----------------------------------------------------------------------------
(* The engine's calls. *)

IInv ==
    /\ now \in Times /\ raw \in [Aliases -> Levels] /\ covered \subseteq Nodes
    /\ DOMAIN health = Nodes /\ health = [n \in Nodes |-> health[n]]
    /\ \A n \in Nodes :
          /\ Sound(health[n], now)
          /\ health[n].phase = Aggregate(n, raw) /\ UpToDate(health[n], n, covered)

LEMMA InitIInv == Init => IInv
<1> SUFFICES ASSUME Init PROVE IInv
  OBVIOUS
<1>1. Sound(Fresh, 0)
  <2>1. Fresh \in HealthType
    BY EmptySeq DEF Fresh, HealthType, NoWarning, Warnings, Phases
  <2>2. Len(<<>>) = 0 /\ DOMAIN <<>> = {} /\ CycleCount > 0 /\ 0 <= CycleCount
    BY TimeFacts, EmptySeq
  <2> QED BY <2>1, <2>2, TimeFacts
      DEF Sound, Base, Fresh, NoWarning, Ordered, RunsOK, CyclesOK, TimeoutOK, Overdue, Active,
          FlappingOK, FullRun, JumpOK
<1>2. \A n \in Nodes : UpToDate(Fresh, n, {})
  BY DEF UpToDate, Fresh, NoWarning, Active
<1>3. \A n \in Nodes : Aggregate(n, raw) = "unknown"
  <2>1. \A a \in Aliases : raw[a] = "lost"
    BY DEF Init
  <2> QED BY <2>1, HealthAssumption DEF Aggregate, AliasesOf
<1>4. \A n \in Nodes : health[n] = Fresh
  BY DEF Init
<1>5. \A n \in Nodes : /\ Sound(health[n], now) /\ UpToDate(health[n], n, covered)
                       /\ health[n].phase = Aggregate(n, raw)
  BY <1>1, <1>2, <1>3, <1>4 DEF Init, Fresh
<1> QED BY <1>5, TimeFacts DEF Init, IInv, Levels

LEMMA AdvanceStep ==
    ASSUME IInv, NEW t \in now .. MaxTime, NEW cov \in SUBSET covered, Advance(t, cov)
    PROVE  IInv'
<1>1. now \in Times /\ t \in Times /\ now <= t
  BY HealthAssumption DEF IInv, Times
<1>2. \A n \in Nodes :
         /\ Sound(Moved(health[n], n, t, cov), t) /\ UpToDate(Moved(health[n], n, t, cov), n, cov)
         /\ Moved(health[n], n, t, cov).phase = health[n].phase
  BY <1>1, MovedSound DEF IInv
<1>3. \A n \in Nodes : health'[n] = Moved(health[n], n, t, cov)
  BY DEF Advance
<1> QED BY <1>1, <1>2, <1>3 DEF Advance, IInv

LEMMA ReportStep ==
    ASSUME IInv, NEW a \in Aliases, NEW level \in Levels, NEW cov \in SUBSET Nodes,
           NEW jumps \in SUBSET Nodes, Report(a, level, cov, jumps)
    PROVE  IInv'
<1> DEFINE levels == [raw EXCEPT ![a] = level]
           Seen(n) == Observed(Moved(health[n], n, now, cov), Aggregate(n, levels),
                               now, n, cov, FALSE)
           After(n) == IF n \in jumps THEN Jumped(Seen(n), now, n, cov) ELSE Seen(n)
<1>1. now \in Times /\ now <= now /\ levels \in [Aliases -> Levels]
  BY TimeFacts DEF IInv
<1>2. ASSUME NEW n \in Nodes
      PROVE  /\ Sound(Advanced(After(n), now, n, cov), now)
             /\ UpToDate(Advanced(After(n), now, n, cov), n, cov)
             /\ Advanced(After(n), now, n, cov).phase = Aggregate(n, levels)
  <2>1. /\ Sound(Moved(health[n], n, now, cov), now)
        /\ Moved(health[n], n, now, cov).phase = health[n].phase
    BY <1>1, MovedSound DEF IInv
  <2>2. Aggregate(n, levels) \in Phases
    BY DEF Aggregate, Phases
  <2> DEFINE m == Moved(health[n], n, now, cov)
             q == Aggregate(n, levels)
  <2> HIDE DEF m, q
  <2>3. Sound(Seen(n), now) /\ Seen(n).phase = Aggregate(n, levels)
    <3>1. Sound(m, now) /\ q \in Phases
      BY <2>1, <2>2 DEF m, q
    <3>2. \A b \in BOOLEAN : Sound(Observed(m, q, now, n, cov, b), now)
                           /\ Observed(m, q, now, n, cov, b).phase = q
      BY <1>1, <3>1, ObservedSound
    <3> QED BY <3>2 DEF m, q, Seen
  <2>4. ASSUME n \in jumps PROVE Seen(n).on = now
    <3>1. health[n].phase # "on" /\ Aggregate(n, levels) = "on"
      BY <2>4 DEF Report, Rises
    <3>2. m \in HealthType /\ m.phase # "on" /\ q = "on"
      BY <2>1, <3>1 DEF Sound, Base, m, q
    <3>3. Observed(m, "on", now, n, cov, FALSE).on = now
      BY <3>2, ObservedRise
    <3>4. Seen(n) = Observed(m, "on", now, n, cov, FALSE)
      BY <3>2 DEF m, q
    <3> QED BY <3>3, <3>4
  <2> HIDE DEF Seen
  <2>5. Sound(After(n), now) /\ After(n).phase = Aggregate(n, levels)
    BY <1>1, <2>3, <2>4, JumpedSound
  <2> HIDE DEF After
  <2> QED BY <1>1, <2>5, AdvancedSound
<1>3. \A n \in Nodes : health'[n] = Advanced(After(n), now, n, cov)
  BY DEF Report
<1>4. now' = now /\ raw' = levels /\ covered' = cov /\ DOMAIN health' = Nodes
      /\ health' = [n \in Nodes |-> health'[n]]
  BY DEF Report
<1> HIDE DEF After, levels
<1> QED BY <1>1, <1>2, <1>3, <1>4 DEF IInv

LEMMA RestartStep ==
    ASSUME IInv, NEW t \in now .. MaxTime, NEW levels \in [Aliases -> Levels],
           NEW cov \in SUBSET covered, Restart(t, levels, cov)
    PROVE  IInv'
<1> DEFINE Seen(n) == Observed(health[n], Aggregate(n, levels), t, n, cov, TRUE)
<1>1. now \in Times /\ t \in Times /\ now <= t /\ t <= t
  BY HealthAssumption DEF IInv, Times
<1>2. ASSUME NEW n \in Nodes
      PROVE  /\ Sound(Advanced(Seen(n), t, n, cov), t)
             /\ UpToDate(Advanced(Seen(n), t, n, cov), n, cov)
             /\ Advanced(Seen(n), t, n, cov).phase = Aggregate(n, levels)
  <2>1. Aggregate(n, levels) \in Phases
    BY DEF Aggregate, Phases
  <2> DEFINE h == health[n]
             q == Aggregate(n, levels)
  <2>2. Sound(Seen(n), t) /\ Seen(n).phase = Aggregate(n, levels)
    <3>1. Sound(h, now) /\ q \in Phases
      BY <2>1 DEF IInv
    <3> HIDE DEF h, q
    <3>2. \A b \in BOOLEAN : Sound(Observed(h, q, t, n, cov, b), t)
                           /\ Observed(h, q, t, n, cov, b).phase = q
      BY <1>1, <3>1, ObservedSound
    <3> QED BY <3>2 DEF h, q, Seen
  <2> HIDE DEF Seen
  <2> QED BY <1>1, <2>2, AdvancedSound
<1>3. \A n \in Nodes : health'[n] = Advanced(Seen(n), t, n, cov)
  BY DEF Restart
<1>4. now' = t /\ raw' = levels /\ covered' = cov /\ DOMAIN health' = Nodes
      /\ health' = [n \in Nodes |-> health'[n]]
  BY DEF Restart
<1> HIDE DEF Seen
<1> QED BY <1>1, <1>2, <1>3, <1>4 DEF IInv

LEMMA StepIInv == IInv /\ [Next]_vars => IInv'
<1> SUFFICES ASSUME IInv, [Next]_vars PROVE IInv'
  OBVIOUS
<1>1. ASSUME NEW t \in now .. MaxTime, NEW cov \in SUBSET covered, Advance(t, cov) PROVE IInv'
  BY <1>1, AdvanceStep
<1>2. ASSUME NEW a \in Aliases, NEW level \in Levels, NEW cov \in SUBSET Nodes,
             NEW jumps \in SUBSET Nodes, Report(a, level, cov, jumps)
      PROVE  IInv'
  BY <1>2, ReportStep
<1>3. ASSUME NEW t \in now .. MaxTime, NEW levels \in [Aliases -> Levels],
             NEW cov \in SUBSET covered, Restart(t, levels, cov)
      PROVE  IInv'
  BY <1>3, RestartStep
<1>4. CASE UNCHANGED vars
  BY <1>4 DEF vars, IInv
<1> QED BY <1>1, <1>2, <1>3, <1>4 DEF Next

-----------------------------------------------------------------------------
\* Every reachable health is typed, and no node keeps more completed cycles
\* than path_health.py allows.
THEOREM HealthTypeCorrect == Spec => []TypeOK
<1>1. IInv => TypeOK
  BY DEF IInv, TypeOK, Sound, Base
<1> QED BY <1>1, InitIInv, StepIInv, PTL DEF Spec

\* restore accepts the health of every reachable state: whatever the levels,
\* the coverage, the ticks and the restarts, warnings and aggregates agree.
THEOREM HealthAlwaysRestorable == Spec => []Restorable
<1>1. IInv => Restorable
  BY DEF IInv, Restorable, TypeOK, Coherent, Sound, Base
<1> QED BY <1>1, InitIInv, StepIInv, PTL DEF Spec

\* The health that is saved agrees with the levels and the coverage saved beside
\* it, however observations, ticks, losses of coverage and restarts interleave.
THEOREM HealthAgreesWithHouse == Spec => []HouseAgrees
<1>1. IInv => HouseAgrees
  BY DEF IInv, HouseAgrees
<1> QED BY <1>1, InitIInv, StepIInv, PTL DEF Spec

-----------------------------------------------------------------------------
(* How often advance is called.  Its effect has a normal form, and calling it *)
(* at u and at t has the one of calling it at t.                              *)

Expirations(cycles, t) == {i \in DOMAIN cycles : Expired(cycles[i], t)}

Ascending(cycles) == \A i, j \in DOMAIN cycles : i < j => cycles[i] <= cycles[j]

\* The expired cycles are the first ones.
LEMMA ExpiredFirst ==
    ASSUME NEW c \in Seq(Times), NEW t \in Int, Ascending(c)
    PROVE  \E k \in 0 .. Len(c) :
              /\ Expirations(c, t) = 1 .. k
              /\ Recent(c, t) = SubSeq(c, k + 1, Len(c))
<1> DEFINE E == Expirations(c, t)
           k == Cardinality(E)
<1>1. DOMAIN c = 1 .. Len(c) /\ Len(c) \in Nat /\ \A i \in DOMAIN c : c[i] \in Times
  BY LenProperties, ElementOfSeq
<1>2. IsFiniteSet(1 .. Len(c)) /\ Cardinality(1 .. Len(c)) = Len(c)
  BY <1>1, Initial
<1>3. IsFiniteSet(E) /\ k \in Nat /\ k <= Len(c) /\ E \subseteq 1 .. Len(c)
  <2>1. E \subseteq 1 .. Len(c)
    BY <1>1 DEF Expirations
  <2> QED BY <2>1, <1>2, FS_Subset, FS_CardinalityType
<1>4. ASSUME NEW i \in E, NEW j \in DOMAIN c, j <= i PROVE j \in E
  <2>1. c[j] <= c[i] /\ c[i] \in Int /\ c[j] \in Int /\ Expired(c[i], t)
    <3>1. CASE j = i
      BY <3>1, <1>1, TimeFacts DEF Expirations
    <3>2. CASE j # i
      BY <3>2, <1>1, <1>4, TimeFacts DEF Expirations, Ascending
    <3> QED BY <3>1, <3>2
  <2> QED BY <2>1, TimeFacts DEF Expired, Expirations
<1>5. E \subseteq 1 .. k
  <2> SUFFICES ASSUME NEW i \in E, ~(i <= k) PROVE FALSE
    BY <1>3
  <2>1. 1 .. k + 1 \subseteq E
    <3> SUFFICES ASSUME NEW j \in 1 .. k + 1 PROVE j \in E
      OBVIOUS
    <3>1. j \in DOMAIN c /\ j <= i
      BY <1>1, <1>3
    <3> QED BY <3>1, <1>4
  <2>2. Cardinality(1 .. k + 1) = k + 1
    <3>1. k + 1 \in Nat
      BY <1>3
    <3> QED BY <3>1, Initial
  <2>3. Cardinality(1 .. k + 1) <= k
    BY <2>1, <1>3, FS_Subset
  <2> QED BY <2>2, <2>3, <1>3
<1>6. E = 1 .. k
  <2>1. IsFiniteSet(1 .. k) /\ Cardinality(1 .. k) = k
    BY <1>3, Initial
  <2> QED BY <1>5, <2>1, FS_Subset
<1>7. Recent(c, t) = SubSeq(c, k + 1, Len(c))
  BY DEF Recent, Expirations
<1> HIDE DEF k, E
<1> QED BY <1>3, <1>6, <1>7 DEF E

\* What is recent at t was recent at an earlier u.
LEMMA RecentTwice ==
    ASSUME NEW c \in Seq(Times), NEW u \in Int, NEW t \in Int, u <= t, Ascending(c)
    PROVE  Recent(Recent(c, u), t) = Recent(c, t)
<1> DEFINE d == Recent(c, u)
<1>0. Len(c) \in Nat /\ \A i \in 1 .. Len(c) : c[i] \in Times
  BY LenProperties, ElementOfSeq
<1>1. PICK k \in 0 .. Len(c) : Expirations(c, u) = 1 .. k /\ d = SubSeq(c, k + 1, Len(c))
  BY ExpiredFirst
<1>2. PICK m \in 0 .. Len(c) : Expirations(c, t) = 1 .. m /\ Recent(c, t) = SubSeq(c, m + 1, Len(c))
  BY ExpiredFirst
<1> HIDE DEF d
<1>3. /\ d \in Seq(Times) /\ Len(d) = Len(c) - k /\ DOMAIN d = 1 .. Len(c) - k
      /\ \A i \in 1 .. Len(c) - k : d[i] = c[k + i]
  BY <1>1, Suffix
<1>4. k <= m
  <2>1. Expirations(c, u) \subseteq Expirations(c, t)
    <3> SUFFICES ASSUME NEW i \in DOMAIN c, Expired(c[i], u) PROVE Expired(c[i], t)
      BY DEF Expirations
    <3>1. c[i] \in Int
      BY <1>0, LenProperties, TimeFacts
    <3> QED BY <3>1, TimeFacts DEF Expired
  <2>2. 1 .. k \subseteq 1 .. m
    BY <1>1, <1>2, <2>1
  <2>3. CASE k = 0
    BY <2>3
  <2>4. CASE k > 0
    <3>1. k \in 1 .. k
      BY <2>4
    <3>2. k \in 1 .. m
      BY <2>2, <3>1
    <3> QED BY <3>2
  <2> QED BY <2>3, <2>4
<1>5. Ascending(d)
  <2> SUFFICES ASSUME NEW i \in DOMAIN d, NEW j \in DOMAIN d, i < j PROVE d[i] <= d[j]
    BY DEF Ascending
  <2>1. k + i \in DOMAIN c /\ k + j \in DOMAIN c /\ k + i < k + j
    BY <1>0, <1>3, LenProperties
  <2> QED BY <2>1, <1>3 DEF Ascending
<1>6. PICK j \in 0 .. Len(d) : Expirations(d, t) = 1 .. j /\ Recent(d, t) = SubSeq(d, j + 1, Len(d))
  BY <1>3, <1>5, ExpiredFirst
<1>7. j = m - k
  <2>1. \A i \in 1 .. Len(d) : i \in Expirations(d, t) <=> k + i \in Expirations(c, t)
    BY <1>0, <1>3, LenProperties DEF Expirations
  <2>2. \A i \in 1 .. Len(c) - k : i <= j <=> k + i <= m
    BY <1>0, <1>2, <1>3, <1>6, <2>1
  <2>3. j <= m - k
    <3>1. ASSUME j > 0 PROVE k + j <= m
      <4>1. j \in 1 .. Len(c) - k /\ j <= j
        BY <1>0, <1>3, <3>1
      <4> QED BY <4>1, <2>2
    <3> QED BY <3>1, <1>0, <1>3, <1>4
  <2>4. m - k <= j
    <3> DEFINE i == m - k
    <3>1. i \in Int /\ k + i = m
      BY <1>0
    <3>2. ASSUME i > 0 PROVE i <= j
      <4>1. i \in 1 .. Len(c) - k /\ k + i <= m
        BY <1>0, <3>1, <3>2
      <4> HIDE DEF i
      <4> QED BY <4>1, <2>2
    <3> QED BY <3>1, <3>2, <1>0, <1>3
  <2> QED BY <2>3, <2>4
<1> DEFINE r == SubSeq(d, j + 1, Len(d))
           s == SubSeq(c, m + 1, Len(c))
<1>8. /\ r \in Seq(Times) /\ Len(r) = Len(d) - j /\ \A i \in 1 .. Len(d) - j : r[i] = d[j + i]
      /\ s \in Seq(Times) /\ Len(s) = Len(c) - m /\ \A i \in 1 .. Len(c) - m : s[i] = c[m + i]
  BY <1>3, Suffix
<1> HIDE DEF r, s
<1>9. Len(r) = Len(s)
  BY <1>0, <1>3, <1>7, <1>8
<1>10. ASSUME NEW i \in 1 .. Len(r) PROVE r[i] = s[i]
  <2>1. j + i \in 1 .. Len(c) - k /\ i \in 1 .. Len(c) - m /\ k + (j + i) = m + i
    BY <1>0, <1>3, <1>7, <1>8
  <2> QED BY <2>1, <1>3, <1>8, <1>9
<1>11. r = s
  BY <1>8, <1>9, <1>10, SeqEqual
<1> QED BY <1>2, <1>6, <1>11 DEF d, r, s

Rows == [first : Int, last : Int, cleared : Int]

\* A health that is up to date, whose warnings are due.
Calm(h, n, cov, s) ==
    /\ h \in [phase : Phases, on : Int, stuck : Nat \cup {NoTime}, cycles : Seq(Times),
              timeout : Rows, flapping : Rows, jump : Rows]
    /\ Len(h.cycles) <= CycleCount /\ Ascending(h.cycles)
    /\ UpToDate(h, n, cov)
    /\ Active(h.jump) => h.phase = "on"
    /\ Active(h.timeout) => Overdue(h, s)
    /\ FullRun(h.cycles) => Active(h.flapping)

OnlyDue(h, t, n, cov) == Advanced(h, t, n, cov) = Progressed(h, t, FALSE)
Skipped(h, u, t) == Progressed(Progressed(h, u, FALSE), t, FALSE) = Progressed(h, t, FALSE)
Later(s, t) == s \in Int /\ t \in Int /\ s <= t /\ t >= 0

LEMMA SoundCalm ==
    ASSUME NEW s \in Times, NEW h, Sound(h, s), NEW n, NEW cov, UpToDate(h, n, cov)
    PROVE  Calm(h, n, cov, s)
<1>1. Times \cup {NoTime} \subseteq Int /\ Times \subseteq Int /\ Times \cup {NoTime} \subseteq Nat \cup {NoTime}
  BY TimeFacts
<1>2. Warnings \subseteq Rows
  BY <1>1 DEF Warnings, Rows
<1>3. h \in [phase : Phases, on : Int, stuck : Nat \cup {NoTime}, cycles : Seq(Times),
             timeout : Rows, flapping : Rows, jump : Rows]
  BY <1>1, <1>2 DEF Sound, Base, HealthType
<1>4. Ascending(h.cycles)
  BY DEF Sound, Base, CyclesOK, Ascending
<1> QED BY <1>3, <1>4 DEF Calm, Sound, Base, JumpOK, TimeoutOK, FlappingOK

LEMMA RowAgain ==
    ASSUME NEW w \in Rows, NEW u \in Int, NEW t \in Int, NEW q \in Int, q >= 0
    PROVE  /\ Raised(w, t, q) \in Rows /\ Active(Raised(w, t, q))
           /\ Raised(Raised(w, u, q), t, q) = Raised(w, t, q)
           /\ Active(w) => Ended(Raised(w, u, q), t) = Ended(w, t)
           /\ Ended(w, t) \in Rows /\ (t >= 0 => ~Active(Ended(w, t)))
<1> DEFINE f == IF Active(w) THEN w.first ELSE q
<1>1. w = [first |-> w.first, last |-> w.last, cleared |-> w.cleared]
      /\ w.first \in Int /\ w.last \in Int /\ w.cleared \in Int /\ NoTime \in Int
  BY DEF Rows, NoTime
<1>2. f \in Int /\ f # NoTime /\ (Active(w) => f = w.first)
  BY <1>1 DEF Active, NoTime
<1> HIDE DEF f
<1>3. /\ Raised(w, t, q) = [first |-> f, last |-> t, cleared |-> NoTime]
      /\ Raised(w, u, q) = [first |-> f, last |-> u, cleared |-> NoTime]
  BY DEF Raised, f
<1> DEFINE g == [first |-> f, last |-> u, cleared |-> NoTime]
<1>4. Active(Raised(w, t, q)) /\ Active(g) /\ Raised(w, t, q) \in Rows
  BY <1>1, <1>2, <1>3 DEF Active, Rows
<1>5. Raised(g, t, q) = [first |-> f, last |-> t, cleared |-> NoTime]
  BY <1>4 DEF Raised
<1>6. Ended(g, t) = [first |-> f, last |-> t, cleared |-> t]
  BY <1>4 DEF Ended
<1>7. CASE Active(w)
  <2>1. Ended(w, t) = [first |-> f, last |-> t, cleared |-> t]
    <3>1. Ended(w, t) = [w EXCEPT !.last = t, !.cleared = t]
      BY <1>7 DEF Ended
    <3> QED BY <1>1, <1>2, <1>7, <3>1
  <2>2. Ended(w, t) \in Rows /\ (t >= 0 => ~Active(Ended(w, t)))
    BY <1>2, <2>1 DEF Rows, Active, NoTime
  <2> QED BY <1>3, <1>4, <1>5, <1>6, <2>1, <2>2
<1>8. CASE ~Active(w)
  <2>1. Ended(w, t) = w
    BY <1>8 DEF Ended
  <2> QED BY <1>3, <1>4, <1>5, <1>8, <2>1
<1> QED BY <1>7, <1>8

Shaped(r, p, o, k, c, w, v, j) ==
    r = [phase |-> p, on |-> o, stuck |-> k, cycles |-> c, timeout |-> w, flapping |-> v, jump |-> j]

LEMMA Replaced ==
    \A p, o, k, c, w, v, j, c2, w2, v2, r : Shaped(r, p, o, k, c, w, v, j) =>
        Shaped([r EXCEPT !.timeout = w2, !.flapping = v2, !.cycles = c2], p, o, k, c2, w2, v2, j)
<1> SUFFICES ASSUME NEW P, NEW O, NEW K, NEW C, NEW W, NEW V, NEW J, NEW c2, NEW w2, NEW v2,
                    NEW r, Shaped(r, P, O, K, C, W, V, J)
             PROVE  Shaped([r EXCEPT !.timeout = w2, !.flapping = v2, !.cycles = c2],
                           P, O, K, c2, w2, v2, J)
  OBVIOUS
<1>0. /\ r \in [phase : {P}, on : {O}, stuck : {K}, cycles : {C}, timeout : {W}, flapping : {V}, jump : {J}]
      /\ r.phase = P /\ r.on = O /\ r.stuck = K /\ r.jump = J
  BY DEF Shaped
<1> DEFINE a == [r EXCEPT !.timeout = w2]
           b == [a EXCEPT !.flapping = v2]
           c == [b EXCEPT !.cycles = c2]
<1>1. /\ a \in [phase : {P}, on : {O}, stuck : {K}, cycles : {C}, timeout : {w2}, flapping : {V}, jump : {J}]
      /\ a.phase = r.phase /\ a.on = r.on /\ a.stuck = r.stuck /\ a.jump = r.jump
  BY <1>0
<1> HIDE DEF a
<1>2. /\ b \in [phase : {P}, on : {O}, stuck : {K}, cycles : {C}, timeout : {w2}, flapping : {v2}, jump : {J}]
      /\ b.phase = r.phase /\ b.on = r.on /\ b.stuck = r.stuck /\ b.jump = r.jump
  BY <1>1
<1> HIDE DEF b
<1>3. /\ c \in [phase : {P}, on : {O}, stuck : {K}, cycles : {c2}, timeout : {w2}, flapping : {v2}, jump : {J}]
      /\ c.phase = r.phase /\ c.on = r.on /\ c.stuck = r.stuck /\ c.jump = r.jump
  BY <1>2
<1> HIDE DEF c
<1>4. c = [phase |-> c.phase, on |-> c.on, stuck |-> c.stuck, cycles |-> c.cycles,
           timeout |-> c.timeout, flapping |-> c.flapping, jump |-> c.jump]
  BY <1>3
<1>5. c = [phase |-> r.phase, on |-> r.on, stuck |-> r.stuck, cycles |-> c2,
           timeout |-> w2, flapping |-> v2, jump |-> r.jump]
  BY <1>3, <1>4
<1> QED BY <1>0, <1>5 DEF a, b, c, Shaped

\* Nothing but what falls due changes.
LEMMA AdvancedDue ==
    \A s, t, n, cov, h : Later(s, t) /\ Calm(h, n, cov, s) =>
        /\ OnlyDue(h, t, n, cov)
        /\ Calm(Progressed(h, t, FALSE), n, cov, t)
<1> SUFFICES ASSUME NEW s, NEW t, NEW n, NEW cov, NEW h, Later(s, t), Calm(h, n, cov, s)
             PROVE  /\ Advanced(h, t, n, cov) = Progressed(h, t, FALSE)
                    /\ Calm(Progressed(h, t, FALSE), n, cov, t)
  BY DEF OnlyDue
<1> DEFINE g == Progressed(h, t, FALSE)
           due == h.stuck + StuckWindow
           timeout == IF Overdue(h, t) THEN Raised(h.timeout, t, due) ELSE h.timeout
           flapping == IF FullRun(h.cycles) THEN FlappingBy(h.flapping, h.cycles, t) ELSE h.flapping
           cycles == Recent(h.cycles, t)
<1> USE DEF Later
<1>0. /\ h.stuck \in Nat \cup {NoTime} /\ h.on \in Int /\ h.phase \in Phases /\ h.cycles \in Seq(Times)
      /\ h.timeout \in Rows /\ h.flapping \in Rows /\ h.jump \in Rows
      /\ Len(h.cycles) <= CycleCount /\ Ascending(h.cycles) /\ UpToDate(h, n, cov)
      /\ Len(h.cycles) \in Nat /\ due \in Int /\ (h.stuck # NoTime => due >= 0)
  BY TimeFacts, LenProperties DEF Calm
<1>1. /\ timeout \in Rows
      /\ Overdue(h, t) => timeout = Raised(h.timeout, t, due) /\ Active(timeout) /\ due >= 0
      /\ ~Overdue(h, t) => ~Active(timeout) /\ timeout = h.timeout
  <2>1. CASE Overdue(h, t)
    <3>1. due >= 0
      BY <1>0, <2>1 DEF Overdue
    <3>2. Raised(h.timeout, t, due) \in Rows /\ Active(Raised(h.timeout, t, due))
      BY <1>0, <3>1, RowAgain
    <3> QED BY <2>1, <3>1, <3>2
  <2>2. CASE ~Overdue(h, t)
    <3>1. ~Overdue(h, s)
      BY <1>0, <2>2, TimeFacts DEF Overdue
    <3> QED BY <1>0, <2>2, <3>1 DEF Calm
  <2> QED BY <2>1, <2>2
<1>2. /\ flapping \in Rows
      /\ cycles \in Seq(Times) /\ Len(cycles) <= Len(h.cycles) /\ Ascending(cycles)
      /\ FullRun(cycles) => Active(flapping)
  <2>1. PICK k \in 0 .. Len(h.cycles) :
           /\ Expirations(h.cycles, t) = 1 .. k /\ cycles = SubSeq(h.cycles, k + 1, Len(h.cycles))
    BY <1>0, ExpiredFirst
  <2> HIDE DEF cycles
  <2>2. /\ cycles \in Seq(Times) /\ Len(cycles) = Len(h.cycles) - k /\ DOMAIN cycles = 1 .. Len(h.cycles) - k
        /\ \A i \in 1 .. Len(h.cycles) - k : cycles[i] = h.cycles[k + i]
        /\ k = 0 => cycles = h.cycles
    BY <1>0, <2>1, Suffix
  <2>3. Ascending(cycles)
    <3> SUFFICES ASSUME NEW i \in DOMAIN cycles, NEW j \in DOMAIN cycles, i < j PROVE cycles[i] <= cycles[j]
      BY DEF Ascending
    <3>1. k + i \in DOMAIN h.cycles /\ k + j \in DOMAIN h.cycles /\ k + i < k + j
      BY <1>0, <2>2, LenProperties
    <3> QED BY <3>1, <1>0, <2>2 DEF Ascending
  <2>4. CASE ~FullRun(h.cycles)
    <3>1. flapping = h.flapping /\ ~FullRun(cycles)
      BY <1>0, <2>2, <2>4, TimeFacts DEF FullRun
    <3> QED BY <1>0, <2>2, <2>3, <3>1
  <2>5. CASE FullRun(h.cycles)
    <3>1. 1 \in DOMAIN h.cycles /\ Len(h.cycles) \in DOMAIN h.cycles
      BY <1>0, <2>5, LenProperties, TimeFacts DEF FullRun
    <3>2. Expiry(h.cycles) \in Int /\ LastCycle(h.cycles) \in Int /\ LastCycle(h.cycles) >= 0
          /\ Active(h.flapping)
      BY <1>0, <2>5, <3>1, ElementOfSeq, LenProperties, TimeFacts DEF Expiry, LastCycle, Calm
    <3>3. CASE Expiry(h.cycles) <= t
      <4>1. flapping = Ended(h.flapping, Expiry(h.cycles))
        BY <2>5, <3>3 DEF FlappingBy
      <4>2. Expired(h.cycles[1], t)
        <5>1. h.cycles[1] \in Int
          BY <1>0, <3>1, TimeFacts
        <5> QED BY <3>3, <5>1, TimeFacts DEF Expiry, Expired
      <4>3. 1 \in 1 .. k
        BY <2>1, <3>1, <4>2 DEF Expirations
      <4>4. ~FullRun(cycles)
        BY <1>0, <2>2, <4>3, TimeFacts DEF FullRun
      <4>5. Ended(h.flapping, Expiry(h.cycles)) \in Rows
        BY <1>0, <3>2, RowAgain
      <4> QED BY <2>2, <2>3, <4>1, <4>4, <4>5
    <3>4. CASE ~(Expiry(h.cycles) <= t)
      <4>1. flapping = Raised(h.flapping, t, LastCycle(h.cycles))
        BY <2>5, <3>4 DEF FlappingBy
      <4>2. flapping \in Rows /\ Active(flapping)
        BY <1>0, <3>2, <4>1, RowAgain
      <4> QED BY <2>2, <2>3, <4>2
    <3> QED BY <3>3, <3>4
  <2> QED BY <2>4, <2>5
<1>3. /\ g \in [phase : Phases, on : Int, stuck : Nat \cup {NoTime}, cycles : {cycles},
                 timeout : {timeout}, flapping : {flapping}, jump : Rows]
      /\ g.phase = h.phase /\ g.on = h.on /\ g.stuck = h.stuck /\ g.jump = h.jump
      /\ g.cycles = cycles /\ g.timeout = timeout /\ g.flapping = flapping
  BY DEF Progressed, Calm
<1> HIDE DEF g, timeout, flapping, cycles
<1>4. UpToDate(g, n, cov) /\ (Active(g.jump) => g.phase = "on") /\ (Overdue(g, t) <=> Overdue(h, t))
  BY <1>0, <1>3 DEF UpToDate, Overdue, Calm
<1>5. Calm(g, n, cov, t)
  <2>1. g \in [phase : Phases, on : Int, stuck : Nat \cup {NoTime}, cycles : Seq(Times),
               timeout : Rows, flapping : Rows, jump : Rows]
    BY <1>1, <1>2, <1>3
  <2>2. Len(g.cycles) <= CycleCount /\ Ascending(g.cycles) /\ (FullRun(g.cycles) => Active(g.flapping))
    BY <1>0, <1>2, <1>3, LenProperties, TimeFacts
  <2>3. Active(g.timeout) => Overdue(g, t)
    BY <1>1, <1>3, <1>4
  <2> QED BY <1>4, <2>1, <2>2, <2>3 DEF Calm
<1>6. UnsupportedSince(g, t, n, cov) = g.stuck
  BY <1>4 DEF UnsupportedSince, UpToDate
<1>7. (IF g.phase # "on" \/ n \in cov THEN Ended(g.jump, t) ELSE g.jump) = g.jump
  BY <1>4 DEF UpToDate, Ended
<1>8. Judged(g.timeout, t, Overdue(g, t), g.stuck + StuckWindow) = g.timeout
  <2>1. CASE Overdue(h, t)
    <3>1. g.timeout = Raised(h.timeout, t, due) /\ g.stuck + StuckWindow = due /\ Overdue(g, t)
      BY <1>1, <1>3, <1>4, <2>1
    <3>2. Raised(Raised(h.timeout, t, due), t, due) = Raised(h.timeout, t, due)
      BY <1>0, <1>1, <2>1, RowAgain
    <3> QED BY <3>1, <3>2 DEF Judged
  <2>2. CASE ~Overdue(h, t)
    BY <1>1, <1>3, <1>4, <2>2 DEF Judged, Ended
  <2> QED BY <2>1, <2>2
<1>9. Supported(g, t, n, cov) = [g EXCEPT !.stuck = g.stuck, !.jump = g.jump, !.timeout = g.timeout]
  BY <1>6, <1>7, <1>8 DEF Supported, Overdue
<1>10. Supported(g, t, n, cov) = g
  BY <1>3, <1>9
<1> QED BY <1>3, <1>5, <1>10 DEF Advanced, g

\* What fell due by u and then by t is what fell due by t.
LEMMA ProgressedTwice ==
    \A s, u, t, n, cov, h : Later(s, u) /\ Later(u, t) /\ Calm(h, n, cov, s) => Skipped(h, u, t)
<1> SUFFICES ASSUME NEW s, NEW u, NEW t, NEW n, NEW cov, NEW h,
                    Later(s, u), Later(u, t), Calm(h, n, cov, s)
             PROVE  Skipped(h, u, t)
  OBVIOUS
<1>a. s \in Int /\ u \in Int /\ t \in Int /\ s <= u /\ u <= t /\ u >= 0
  BY DEF Later
<1> DEFINE g == Progressed(h, u, FALSE)
           due == h.stuck + StuckWindow
           TimeoutBy(v, w) == IF Overdue(h, v) THEN Raised(w, v, due) ELSE w
           FlapBy(v, w, c) == IF FullRun(c) THEN FlappingBy(w, c, v) ELSE w
           c == h.cycles
           d == Recent(c, u)
<1> USE DEF Later
<1>0. /\ h.stuck \in Nat \cup {NoTime} /\ h.on \in Int /\ h.phase \in Phases /\ c \in Seq(Times)
      /\ h.timeout \in Rows /\ h.flapping \in Rows /\ h.jump \in Rows
      /\ Len(c) <= CycleCount /\ Ascending(c) /\ Len(c) \in Nat
      /\ due \in Int /\ (h.stuck # NoTime => due >= 0)
      /\ FullRun(c) => Active(h.flapping)
  BY TimeFacts, LenProperties DEF Calm
<1>1. Recent(d, t) = Recent(c, t)
  BY <1>0, RecentTwice
<1>2. TimeoutBy(t, TimeoutBy(u, h.timeout)) = TimeoutBy(t, h.timeout)
  <2>1. CASE Overdue(h, u)
    <3>1. Overdue(h, t) /\ due >= 0
      BY <1>0, <2>1, TimeFacts DEF Overdue
    <3>2. Raised(Raised(h.timeout, u, due), t, due) = Raised(h.timeout, t, due)
      BY <1>0, <3>1, RowAgain
    <3> QED BY <2>1, <3>1, <3>2
  <2>2. CASE ~Overdue(h, u)
    BY <2>2
  <2> QED BY <2>1, <2>2
<1>3. FlapBy(t, FlapBy(u, h.flapping, c), d) = FlapBy(t, h.flapping, c)
  <2>0. PICK k \in 0 .. Len(c) : Expirations(c, u) = 1 .. k /\ d = SubSeq(c, k + 1, Len(c))
    BY <1>0, ExpiredFirst
  <2> HIDE DEF d
  <2>1. Len(d) = Len(c) - k /\ (k = 0 => d = c)
    BY <1>0, <2>0, Suffix
  <2>2. CASE ~FullRun(c)
    <3>1. ~FullRun(d)
      BY <1>0, <2>1, <2>2, TimeFacts DEF FullRun
    <3> QED BY <2>2, <3>1
  <2>3. CASE FullRun(c)
    <3>1. 1 \in DOMAIN c /\ Len(c) \in DOMAIN c
      BY <1>0, <2>3, LenProperties, TimeFacts DEF FullRun
    <3>2. c[1] \in Int /\ Expiry(c) \in Int /\ LastCycle(c) \in Int /\ LastCycle(c) >= 0
      BY <1>0, <3>1, ElementOfSeq, LenProperties, TimeFacts DEF Expiry, LastCycle
    <3>3. Expired(c[1], u) <=> (Expiry(c) <= u)
      BY <1>a, <3>2, TimeFacts, SMTT(30) DEF Expiry, Expired
    <3>4. CASE Expiry(c) <= u
      <4>1. 1 \in 1 .. k
        BY <2>0, <3>1, <3>3, <3>4 DEF Expirations
      <4>2. ~FullRun(d)
        BY <1>0, <2>1, <4>1, TimeFacts DEF FullRun
      <4>3. Expiry(c) <= t
        BY <3>2, <3>4
      <4> QED BY <2>3, <3>4, <4>2, <4>3 DEF FlappingBy
    <3>5. CASE ~(Expiry(c) <= u)
      <4>1. k = 0
        <5> SUFFICES ASSUME k # 0 PROVE FALSE
          OBVIOUS
        <5>1. 1 \in Expirations(c, u)
          BY <2>0
        <5> QED BY <3>3, <3>5, <5>1 DEF Expirations
      <4>2. d = c
        BY <2>1, <4>1
      <4> DEFINE q == LastCycle(c)
                 x == Expiry(c)
                 w == h.flapping
      <4>3. q \in Int /\ q >= 0 /\ x \in Int /\ w \in Rows /\ Active(w)
        BY <1>0, <2>3, <3>2
      <4>4. FlapBy(u, w, c) = Raised(w, u, q)
        BY <2>3, <3>5 DEF FlappingBy
      <4>5. /\ FlapBy(t, Raised(w, u, q), c) =
                  IF x <= t THEN Ended(Raised(w, u, q), x) ELSE Raised(Raised(w, u, q), t, q)
            /\ FlapBy(t, w, c) = IF x <= t THEN Ended(w, x) ELSE Raised(w, t, q)
        BY <2>3 DEF FlappingBy
      <4> HIDE DEF q, x, w
      <4>6. Raised(Raised(w, u, q), t, q) = Raised(w, t, q)
        BY <4>3, RowAgain
      <4>7. Ended(Raised(w, u, q), x) = Ended(w, x)
        BY <4>3, RowAgain
      <4>8. FlapBy(t, Raised(w, u, q), c) = FlapBy(t, w, c)
        BY <4>5, <4>6, <4>7
      <4> QED BY <4>2, <4>4, <4>8 DEF w
    <3> QED BY <3>4, <3>5
  <2> QED BY <2>2, <2>3
<1>4. \A v \in Int : Progressed(h, v, FALSE) =
         [h EXCEPT !.timeout = TimeoutBy(v, h.timeout), !.flapping = FlapBy(v, h.flapping, c),
                   !.cycles = Recent(c, v)]
  BY DEF Progressed
<1> DEFINE timeout == TimeoutBy(u, h.timeout)
           flapping == FlapBy(u, h.flapping, c)
<1>5. g = [h EXCEPT !.timeout = timeout, !.flapping = flapping, !.cycles = d]
  BY <1>4
<1> HIDE DEF g, timeout, flapping, d
<1>6. h = [phase |-> h.phase, on |-> h.on, stuck |-> h.stuck, cycles |-> h.cycles,
           timeout |-> h.timeout, flapping |-> h.flapping, jump |-> h.jump]
  BY DEF Calm
<1>7. g = [phase |-> h.phase, on |-> h.on, stuck |-> h.stuck, cycles |-> d,
           timeout |-> timeout, flapping |-> flapping, jump |-> h.jump]
  BY <1>5, <1>6
<1> DEFINE timeout2 == TimeoutBy(t, h.timeout)
           flapping2 == FlapBy(t, h.flapping, c)
           e == Recent(c, t)
<1>8. Overdue(g, t) <=> Overdue(h, t)
  BY <1>7 DEF Overdue
<1>9. Progressed(g, t, FALSE) = [g EXCEPT !.timeout = timeout2, !.flapping = flapping2, !.cycles = e]
  <2>1. (IF ~FALSE /\ Overdue(g, t) THEN Raised(g.timeout, t, g.stuck + StuckWindow) ELSE g.timeout) = timeout2
    BY <1>2, <1>7, <1>8 DEF timeout
  <2>2. (IF FullRun(g.cycles) THEN FlappingBy(g.flapping, g.cycles, t) ELSE g.flapping) = flapping2
    BY <1>3, <1>7 DEF flapping
  <2>3. Recent(g.cycles, t) = e
    BY <1>1, <1>7
  <2> HIDE DEF timeout2, flapping2, e
  <2> QED BY <2>1, <2>2, <2>3 DEF Progressed
<1>10. Progressed(h, t, FALSE) = [h EXCEPT !.timeout = timeout2, !.flapping = flapping2, !.cycles = e]
  BY <1>4
<1> HIDE DEF timeout2, flapping2, e
<1> DEFINE p == h.phase
           o == h.on
           k == h.stuck
           j == h.jump
           ft == h.timeout
           ff == h.flapping
<1>13. /\ g = [phase |-> p, on |-> o, stuck |-> k, cycles |-> d, timeout |-> timeout,
                flapping |-> flapping, jump |-> j]
       /\ h = [phase |-> p, on |-> o, stuck |-> k, cycles |-> c, timeout |-> ft,
                flapping |-> ff, jump |-> j]
  BY <1>6, <1>7
<1> HIDE DEF p, o, k, j, ft, ff, c
<1>14. /\ Shaped(g, p, o, k, d, timeout, flapping, j)
       /\ Shaped(h, p, o, k, c, ft, ff, j)
  BY <1>13 DEF Shaped
<1>11. /\ Shaped([g EXCEPT !.timeout = timeout2, !.flapping = flapping2, !.cycles = e],
                  p, o, k, e, timeout2, flapping2, j)
       /\ Shaped([h EXCEPT !.timeout = timeout2, !.flapping = flapping2, !.cycles = e],
                  p, o, k, e, timeout2, flapping2, j)
  BY <1>14, Replaced, Zenon
<1>12. [g EXCEPT !.timeout = timeout2, !.flapping = flapping2, !.cycles = e] =
       [h EXCEPT !.timeout = timeout2, !.flapping = flapping2, !.cycles = e]
  BY <1>11 DEF Shaped
<1> QED BY <1>9, <1>10, <1>12 DEF g, Skipped

\* A warning qualifies and clears at its own time: any number of ticks on the way
\* to a later time leave the health of that time.
THEOREM HealthTicksInvisible == Spec => []TicksInvisible
<1>1. ASSUME IInv, NEW n \in Nodes, NEW t \in now .. MaxTime + CycleWindow, NEW u \in now .. t
      PROVE  Advanced(Advanced(health[n], u, n, covered), t, n, covered)
                = Advanced(health[n], t, n, covered)
  <2> DEFINE h == health[n]
             s == now
             cov == covered
  <2>0. Later(s, u) /\ Later(u, t) /\ Later(s, t)
    BY <1>1, TimeFacts, HealthAssumption DEF IInv, Later
  <2>1. Calm(h, n, cov, s)
    BY <1>1, SoundCalm DEF IInv
  <2> HIDE DEF h, s, cov
  <2>2. OnlyDue(h, u, n, cov) /\ Calm(Progressed(h, u, FALSE), n, cov, u)
    BY <2>0, <2>1, AdvancedDue
  <2>3. OnlyDue(h, t, n, cov)
    BY <2>0, <2>1, AdvancedDue
  <2>4. OnlyDue(Progressed(h, u, FALSE), t, n, cov)
    BY <2>0, <2>2, AdvancedDue
  <2>5. Skipped(h, u, t)
    BY <2>0, <2>1, ProgressedTwice
  <2>6. Advanced(Advanced(h, u, n, cov), t, n, cov) = Advanced(h, t, n, cov)
    BY <2>2, <2>3, <2>4, <2>5 DEF OnlyDue, Skipped
  <2> QED BY <2>6 DEF h, s, cov
<1>2. IInv => TicksInvisible
  BY <1>1 DEF TicksInvisible
<1> QED BY <1>2, InitIInv, StepIInv, PTL DEF Spec

-----------------------------------------------------------------------------
(* A session of observation.  From(h, s): no run of h began before s; Formed *)
(* says that h has the fields of a run.                                      *)

From(h, s) == (h.on # NoTime => h.on >= s) /\ (h.stuck # NoTime => h.stuck >= s)

Formed(h) == {"phase", "on", "stuck", "jump"} \subseteq DOMAIN h

LEMMA ProgressedFrom ==
    ASSUME NEW s, NEW t, NEW b, NEW h, Formed(h), From(h, s)
    PROVE  Formed(Progressed(h, t, b)) /\ From(Progressed(h, t, b), s)
<1> DEFINE g == Progressed(h, t, b)
<1>1. DOMAIN g = DOMAIN h /\ g.on = h.on /\ g.stuck = h.stuck
  BY DEF Progressed, Formed
<1> HIDE DEF g
<1> QED BY <1>1 DEF Formed, From, g

LEMMA SupportedFrom ==
    ASSUME NEW s, NEW t, t >= s, NEW n, NEW cov, NEW h, Formed(h), From(h, s)
    PROVE  Formed(Supported(h, t, n, cov)) /\ From(Supported(h, t, n, cov), s)
<1> DEFINE r == Supported(h, t, n, cov)
           stuck == UnsupportedSince(h, t, n, cov)
<1>1. DOMAIN r = DOMAIN h /\ r.on = h.on /\ r.stuck = stuck
  <2> HIDE DEF stuck
  <2>1. Supported(h, t, n, cov) =
          [h EXCEPT !.stuck = stuck,
                    !.jump = IF h.phase # "on" \/ n \in cov THEN Ended(@, t) ELSE @,
                    !.timeout = Judged(@, t, stuck # NoTime /\ stuck + StuckWindow <= t,
                                       stuck + StuckWindow)]
    BY DEF Supported, stuck
  <2> QED BY <2>1 DEF Formed
<1>2. stuck # NoTime => stuck >= s
  BY DEF UnsupportedSince, From
<1> HIDE DEF r, stuck
<1> QED BY <1>1, <1>2 DEF Formed, From, r

LEMMA AdvancedFrom ==
    ASSUME NEW s, NEW t, t >= s, NEW n, NEW cov, NEW h, Formed(h), From(h, s)
    PROVE  Formed(Advanced(h, t, n, cov)) /\ From(Advanced(h, t, n, cov), s)
<1> DEFINE g == Progressed(h, t, FALSE)
<1>1. Formed(g) /\ From(g, s)
  BY ProgressedFrom
<1> HIDE DEF g
<1>2. Formed(Supported(g, t, n, cov)) /\ From(Supported(g, t, n, cov), s)
  BY <1>1, SupportedFrom
<1> QED BY <1>2 DEF Advanced, g

\* What is observed at t begins at t, or is what went on; across a gap, the former.
LEMMA ObservedFrom ==
    ASSUME NEW s, NEW t, t >= s, NEW n, NEW cov, NEW phase, NEW b \in BOOLEAN, NEW h, Formed(h),
           b \/ From(h, s)
    PROVE  Formed(Observed(h, phase, t, n, cov, b)) /\ From(Observed(h, phase, t, n, cov, b), s)
<1> DEFINE g == Progressed(h, t, b)
           e == Edge(g, phase, t, b)
           u == Supported(e, t, n, cov)
           r == Flapped(u, t)
<1>1. DOMAIN g = DOMAIN h /\ g.on = h.on /\ g.stuck = h.stuck
  BY DEF Progressed, Formed
<1> HIDE DEF g
<1>2. Formed(e) /\ From(e, s)
  <2> DEFINE on == OnSince(g, phase, t, b)
             stuck == IF phase = "on" /\ ~b THEN g.stuck ELSE NoTime
  <2>1. DOMAIN e = DOMAIN h /\ e.on = on /\ e.stuck = stuck
    <3> HIDE DEF on
    <3>1. e = [g EXCEPT !.phase = phase, !.on = on, !.stuck = stuck,
                        !.cycles = Completed(g, phase, t, b),
                        !.timeout = IF b THEN Ended(@, t) ELSE @,
                        !.jump = IF b THEN Ended(@, t) ELSE @]
      BY DEF Edge, on
    <3> HIDE DEF stuck, e
    <3> QED BY <1>1, <3>1 DEF Formed, stuck
  <2>2. on # NoTime => on >= s
    BY <1>1 DEF OnSince, From
  <2>3. stuck # NoTime => stuck >= s
    BY <1>1 DEF From
  <2> HIDE DEF on, stuck, e
  <2> QED BY <2>1, <2>2, <2>3 DEF Formed, From
<1> HIDE DEF e
<1>3. Formed(u) /\ From(u, s)
  BY <1>2, SupportedFrom
<1> HIDE DEF u
<1>4. DOMAIN r = DOMAIN u /\ r.on = u.on /\ r.stuck = u.stuck
  BY <1>3 DEF Flapped, Formed
<1> HIDE DEF r
<1>5. Formed(r) /\ From(r, s)
  BY <1>3, <1>4 DEF Formed, From
<1> QED BY <1>5 DEF Observed, r, u, e, g

LEMMA JumpedFrom ==
    ASSUME NEW s, NEW t, NEW n, NEW cov, NEW h, Formed(h), From(h, s)
    PROVE  Formed(Jumped(h, t, n, cov)) /\ From(Jumped(h, t, n, cov), s)
<1> DEFINE r == Jumped(h, t, n, cov)
<1>1. DOMAIN r = DOMAIN h /\ r.on = h.on /\ r.stuck = h.stuck
  BY DEF Jumped, Formed
<1> HIDE DEF r
<1> QED BY <1>1 DEF Formed, From, r

LEMMA MovedFrom ==
    ASSUME NEW s, NEW t, t >= s, NEW n, NEW cov, NEW h, Formed(h), From(h, s)
    PROVE  Formed(Moved(h, n, t, cov)) /\ From(Moved(h, n, t, cov), s)
<1> DEFINE g == Advanced(h, t, n, covered)
<1>1. Formed(g) /\ From(g, s)
  BY AdvancedFrom
<1> HIDE DEF g
<1>2. Formed(Advanced(g, t, n, cov)) /\ From(Advanced(g, t, n, cov), s)
  BY <1>1, AdvancedFrom
<1> QED BY <1>2 DEF Moved, g

InSession ==
    /\ session \in Times /\ session <= now
    /\ From(health[node], session)

LEMMA SessionStep ==
    ASSUME node \in Nodes, IInv, InSession, HNext
    PROVE  InSession'
<1> DEFINE h == health[node]
           s == session
<1>1. Formed(h) /\ From(h, s) /\ s \in Times /\ now \in Times /\ s \in Int /\ now \in Int /\ s <= now
  BY TimeFacts DEF InSession, IInv, Sound, Base, HealthType, Formed
<1>2. ASSUME NEW t \in now .. MaxTime, NEW cov \in SUBSET covered,
             Advance(t, cov), UNCHANGED history
      PROVE  InSession'
  <2>1. health'[node] = Moved(h, node, t, cov) /\ now' = t /\ session' = s /\ t >= s /\ t \in Int
    BY <1>1, <1>2, HealthAssumption DEF Advance, history
  <2> HIDE DEF h, s
  <2>2. From(Moved(h, node, t, cov), s)
    BY <1>1, <2>1, MovedFrom
  <2>3. session' \in Times /\ session' <= now'
    BY <1>1, <2>1
  <2> QED BY <2>1, <2>2, <2>3 DEF InSession, From
<1>3. ASSUME NEW a \in Aliases, NEW level \in Levels, NEW cov \in SUBSET Nodes,
             NEW jumps \in SUBSET Nodes, Report(a, level, cov, jumps), HReport
      PROVE  InSession'
  <2> DEFINE levels == [raw EXCEPT ![a] = level]
             p == Aggregate(node, levels)
             m == Moved(h, node, now, cov)
             o == Observed(m, p, now, node, cov, FALSE)
             j == IF node \in jumps THEN Jumped(o, now, node, cov) ELSE o
             r == Advanced(j, now, node, cov)
  <2>1. health'[node] = r /\ now' = now /\ session' = s
    BY <1>3 DEF Report, HReport
  <2> HIDE DEF h, s, p
  <2>2. now >= s
    BY <1>1
  <2>3. Formed(m) /\ From(m, s)
    BY <1>1, <2>2, MovedFrom
  <2> HIDE DEF m
  <2>4. Formed(o) /\ From(o, s)
    BY <2>2, <2>3, ObservedFrom
  <2> HIDE DEF o
  <2>5. Formed(j) /\ From(j, s)
    BY <2>4, JumpedFrom
  <2> HIDE DEF j
  <2>6. From(r, s)
    BY <2>2, <2>5, AdvancedFrom
  <2> HIDE DEF r
  <2> QED BY <1>1, <2>1, <2>6 DEF InSession, From, s
<1>4. ASSUME NEW t \in now .. MaxTime, NEW levels \in [Aliases -> Levels],
             NEW cov \in SUBSET covered, Restart(t, levels, cov), session' = t
      PROVE  InSession'
  <2> DEFINE p == Aggregate(node, levels)
             o == Observed(h, p, t, node, cov, TRUE)
             r == Advanced(o, t, node, cov)
  <2>1. health'[node] = r /\ now' = t /\ t \in Times /\ t >= t /\ t <= t
    BY <1>1, <1>4, HealthAssumption DEF Restart, Times
  <2> HIDE DEF h, p
  <2>2. Formed(o) /\ From(o, t)
    BY <1>1, <2>1, ObservedFrom
  <2> HIDE DEF o
  <2>3. From(r, t)
    BY <2>1, <2>2, AdvancedFrom
  <2> HIDE DEF r
  <2> QED BY <1>4, <2>1, <2>3 DEF InSession, From
<1> QED BY <1>2, <1>3, <1>4 DEF HNext

LEMMA StepHInv == IInv /\ [HNext]_<<vars, history>> => IInv'
<1>1. HNext => Next
  BY DEF HNext, Next
<1>2. UNCHANGED <<vars, history>> => UNCHANGED vars
  OBVIOUS
<1> QED BY <1>1, <1>2, StepIInv

\* Nothing that was not observed counts: a timeout is of a whole window within the
\* session of observation, and a jump is of a positive of that session.
THEOREM HealthGapNotCounted ==
    ASSUME node \in Nodes PROVE HSpec => []GapNotCounted
<1>1. HInit => IInv /\ InSession
  <2> SUFFICES ASSUME HInit PROVE IInv /\ InSession
    OBVIOUS
  <2>1. health[node] = Fresh /\ session = 0 /\ now = 0
    BY DEF HInit, Init
  <2>2. From(Fresh, 0)
    BY DEF From, Fresh
  <2> QED BY <2>1, <2>2, InitIInv, TimeFacts DEF HInit, InSession
<1>2. IInv /\ InSession /\ [HNext]_<<vars, history>> => (IInv /\ InSession)'
  <2>1. ASSUME InSession, UNCHANGED <<vars, history>> PROVE InSession'
    BY <2>1 DEF vars, history, InSession, From
  <2> QED BY <2>1, SessionStep, StepHInv
<1>3. IInv /\ InSession => GapNotCounted
  <2> SUFFICES ASSUME IInv, InSession PROVE GapNotCounted
    OBVIOUS
  <2> DEFINE h == health[node]
  <2>1. /\ TimeoutOK(h, now) /\ JumpOK(h) /\ From(h, session) /\ session \in Int
        /\ h.stuck \in Times \cup {NoTime} /\ h.jump \in Warnings
    BY TimeFacts DEF IInv, InSession, Sound, Base, HealthType
  <2>2. Active(h.timeout) => h.timeout.first >= session + StuckWindow
    <3> SUFFICES ASSUME Active(h.timeout) PROVE h.timeout.first >= session + StuckWindow
      OBVIOUS
    <3>1. h.stuck # NoTime /\ h.timeout.first = h.stuck + StuckWindow /\ h.stuck >= session
      BY <2>1 DEF TimeoutOK, Overdue, From
    <3> HIDE DEF h
    <3> QED BY <2>1, <3>1, TimeFacts
  <2>3. Active(h.jump) => h.jump.first >= session
    BY <2>1 DEF JumpOK, From, Active
  <2> QED BY <2>2, <2>3 DEF GapNotCounted
<1> QED BY <1>1, <1>2, <1>3, PTL DEF HSpec

-----------------------------------------------------------------------------
(* The completions that are retained are the last ones of the history: all    *)
(* that have not expired, or the ten latest.                                  *)

TailOf(F, c, t) ==
    \E k \in 0 .. Len(F) :
        /\ Len(c) = Len(F) - k /\ \A i \in 1 .. Len(c) : c[i] = F[k + i]
        /\ Len(c) = CycleCount \/ \A i \in 1 .. k : Expired(F[i], t)

LEMMA TailAscends ==
    ASSUME NEW F \in Seq(Times), Ascending(F), NEW t, NEW c \in Seq(Times), TailOf(F, c, t)
    PROVE  Ascending(c)
<1>1. PICK k \in 0 .. Len(F) : Len(c) = Len(F) - k /\ \A i \in 1 .. Len(c) : c[i] = F[k + i]
  BY DEF TailOf
<1>2. DOMAIN F = 1 .. Len(F) /\ Len(F) \in Nat /\ DOMAIN c = 1 .. Len(c) /\ Len(c) \in Nat
  BY LenProperties
<1> SUFFICES ASSUME NEW i \in DOMAIN c, NEW j \in DOMAIN c, i < j PROVE c[i] <= c[j]
  BY DEF Ascending
<1>3. k + i \in DOMAIN F /\ k + j \in DOMAIN F /\ k + i < k + j
  BY <1>1, <1>2
<1>4. c[i] = F[k + i] /\ c[j] = F[k + j]
  BY <1>1, <1>2
<1> QED BY <1>3, <1>4 DEF Ascending

LEMMA RecentTail ==
    ASSUME NEW F \in Seq(Times), Ascending(F), NEW s \in Int, NEW t \in Int, s <= t,
           NEW c \in Seq(Times), TailOf(F, c, s)
    PROVE  TailOf(F, Recent(c, t), t) /\ Recent(c, t) \in Seq(Times) /\ Len(Recent(c, t)) <= Len(c)
<1> DEFINE r == Recent(c, t)
<1>1. PICK k \in 0 .. Len(F) :
         /\ Len(c) = Len(F) - k /\ \A i \in 1 .. Len(c) : c[i] = F[k + i]
         /\ Len(c) = CycleCount \/ \A i \in 1 .. k : Expired(F[i], s)
  BY DEF TailOf
<1>2. PICK m \in 0 .. Len(c) : Expirations(c, t) = 1 .. m /\ r = SubSeq(c, m + 1, Len(c))
  BY TailAscends, ExpiredFirst
<1>3. /\ DOMAIN F = 1 .. Len(F) /\ Len(F) \in Nat /\ DOMAIN c = 1 .. Len(c) /\ Len(c) \in Nat
      /\ \A i \in 1 .. Len(F) : F[i] \in Int
  BY LenProperties, ElementOfSeq, TimeFacts
<1> HIDE DEF r
<1>4. r \in Seq(Times) /\ Len(r) = Len(c) - m /\ \A i \in 1 .. Len(c) - m : r[i] = c[m + i]
  BY <1>2, Suffix
<1> DEFINE q == k + m
<1>5. q \in 0 .. Len(F) /\ Len(r) = Len(F) - q
  BY <1>1, <1>3, <1>4
<1>6. \A i \in 1 .. Len(r) : r[i] = F[q + i]
  <2> SUFFICES ASSUME NEW i \in 1 .. Len(r) PROVE r[i] = F[q + i]
    OBVIOUS
  <2>1. i \in 1 .. Len(c) - m /\ m + i \in 1 .. Len(c) /\ k + (m + i) = q + i
    BY <1>1, <1>3, <1>4
  <2>2. r[i] = c[m + i] /\ c[m + i] = F[k + (m + i)]
    BY <2>1, <1>1, <1>4
  <2> QED BY <2>1, <2>2
<1>7. Len(r) = CycleCount \/ \A i \in 1 .. q : Expired(F[i], t)
  <2>1. CASE m = 0
    <3>1. q = k /\ Len(r) = Len(c)
      BY <2>1, <1>1, <1>3, <1>4
    <3>2. ASSUME \A i \in 1 .. k : Expired(F[i], s), NEW i \in 1 .. k PROVE Expired(F[i], t)
      <4>1. F[i] \in Int /\ Expired(F[i], s)
        BY <3>2, <1>1, <1>3
      <4> QED BY <4>1, TimeFacts DEF Expired
    <3> HIDE DEF q
    <3> QED BY <3>1, <3>2, <1>1
  <2>2. CASE m > 0
    <3>1. m \in Expirations(c, t) /\ m \in 1 .. Len(c)
      BY <2>2, <1>2, <1>3
    <3>2. Expired(F[q], t) /\ q \in 1 .. Len(F)
      <4>1. Expired(c[m], t)
        BY <3>1 DEF Expirations
      <4>2. c[m] = F[k + m]
        BY <3>1, <1>1
      <4>3. k + m \in 1 .. Len(F)
        BY <3>1, <1>1, <1>3
      <4> QED BY <4>1, <4>2, <4>3
    <3>3. ASSUME NEW i \in 1 .. q PROVE Expired(F[i], t)
      <4>1. i \in 1 .. Len(F) /\ F[i] \in Int /\ F[q] \in Int /\ (i < q \/ i = q)
        BY <3>2, <1>3
      <4> HIDE DEF q
      <4>2. F[i] <= F[q]
        <5>1. CASE i < q
          BY <5>1, <3>2, <4>1, <1>3 DEF Ascending
        <5>2. CASE i = q
          BY <5>2, <4>1
        <5> QED BY <5>1, <5>2, <4>1
      <4> QED BY <4>1, <4>2, <3>2, TimeFacts, SMTT(30) DEF Expired
    <3> QED BY <3>3
  <2> QED BY <2>1, <2>2, <1>2
<1> HIDE DEF q
<1>8. TailOf(F, r, t)
  BY <1>5, <1>6, <1>7 DEF TailOf
<1>9. Len(r) <= Len(c)
  <2>1. m >= 0 /\ m \in Int /\ Len(c) \in Int /\ Len(r) = Len(c) - m
    BY <1>3, <1>4
  <2> QED BY <2>1
<1> QED BY <1>4, <1>8, <1>9 DEF r

LEMMA AppendTail ==
    ASSUME NEW F \in Seq(Times), NEW t \in Times, NEW c \in Seq(Times), Len(c) <= CycleCount,
           TailOf(F, c, t)
    PROVE  LET r == LastCycles(Append(c, t))
           IN  r \in Seq(Times) /\ Len(r) <= CycleCount /\ TailOf(Append(F, t), r, t)
<1> DEFINE G == Append(F, t)
           d == Append(c, t)
           r == LastCycles(d)
<1>1. PICK k \in 0 .. Len(F) :
         /\ Len(c) = Len(F) - k /\ \A i \in 1 .. Len(c) : c[i] = F[k + i]
         /\ Len(c) = CycleCount \/ \A i \in 1 .. k : Expired(F[i], t)
  BY DEF TailOf
<1>2. /\ G \in Seq(Times) /\ Len(G) = Len(F) + 1 /\ G[Len(F) + 1] = t
      /\ \A i \in 1 .. Len(F) : G[i] = F[i]
      /\ d \in Seq(Times) /\ Len(d) = Len(c) + 1 /\ d[Len(c) + 1] = t
      /\ \A i \in 1 .. Len(c) : d[i] = c[i]
      /\ Len(F) \in Nat /\ Len(c) \in Nat
  BY AppendProperties, LenProperties
<1> HIDE DEF G, d
<1>3. \A i \in 1 .. Len(d) : d[i] = G[k + i]
  <2> SUFFICES ASSUME NEW i \in 1 .. Len(d) PROVE d[i] = G[k + i]
    OBVIOUS
  <2>1. CASE i = Len(c) + 1
    <3>1. k + i = Len(F) + 1
      BY <2>1, <1>1, <1>2
    <3> QED BY <3>1, <2>1, <1>2
  <2>2. CASE i # Len(c) + 1
    <3>1. i \in 1 .. Len(c) /\ k + i \in 1 .. Len(F)
      BY <2>2, <1>1, <1>2
    <3> QED BY <3>1, <1>1, <1>2
  <2> QED BY <2>1, <2>2
<1>4. CASE Len(d) > CycleCount
  <2>1. r = SubSeq(d, 2, Len(d))
    BY <1>4 DEF LastCycles
  <2>2. 1 \in 0 .. Len(d) /\ 1 + 1 = 2
    BY <1>2
  <2> HIDE DEF r
  <2>3. r \in Seq(Times) /\ Len(r) = Len(d) - 1 /\ \A i \in 1 .. Len(d) - 1 : r[i] = d[1 + i]
    BY <1>2, <2>1, <2>2, Suffix
  <2>4. Len(r) = CycleCount
    BY <2>3, <1>2, <1>4, TimeFacts
  <2> DEFINE q == k + 1
  <2>5. q \in 0 .. Len(G) /\ Len(r) = Len(G) - q
    BY <2>3, <1>1, <1>2
  <2>6. \A i \in 1 .. Len(r) : r[i] = G[q + i]
    <3> SUFFICES ASSUME NEW i \in 1 .. Len(r) PROVE r[i] = G[q + i]
      OBVIOUS
    <3>1. i \in 1 .. Len(d) - 1 /\ 1 + i \in 1 .. Len(d) /\ k + (1 + i) = q + i
      BY <2>3, <1>1, <1>2
    <3> QED BY <3>1, <2>3, <1>3
  <2> HIDE DEF q
  <2>7. TailOf(G, r, t)
    BY <2>4, <2>5, <2>6 DEF TailOf
  <2>8. Len(r) <= CycleCount
    BY <2>4, TimeFacts
  <2> QED BY <2>3, <2>7, <2>8 DEF r, d, G
<1>5. CASE ~(Len(d) > CycleCount)
  <2>1. r = d
    <3>1. r = SubSeq(d, 1, Len(d))
      BY <1>5 DEF LastCycles
    <3>2. 0 \in 0 .. Len(d) /\ 0 + 1 = 1
      BY <1>2
    <3> HIDE DEF r
    <3> QED BY <1>2, <3>1, <3>2, Suffix
  <2> HIDE DEF r
  <2>2. Len(d) <= CycleCount /\ Len(c) # CycleCount
    BY <1>2, <1>5, TimeFacts
  <2>5. k \in 0 .. Len(G) /\ Len(d) = Len(G) - k
    <3>1. k \in Int /\ k >= 0 /\ k <= Len(F) /\ Len(c) = Len(F) - k
      BY <1>1, <1>2
    <3> QED BY <3>1, <1>2
  <2>3. \A i \in 1 .. k : Expired(G[i], t)
    <3> SUFFICES ASSUME NEW i \in 1 .. k PROVE Expired(G[i], t)
      OBVIOUS
    <3>1. i \in 1 .. Len(F)
      BY <1>1, <1>2
    <3>2. Expired(F[i], t)
      BY <1>1, <2>2
    <3> QED BY <3>1, <3>2, <1>2
  <2>4. TailOf(G, d, t)
    BY <1>3, <2>3, <2>5 DEF TailOf
  <2> QED BY <1>2, <2>1, <2>2, <2>4 DEF r, d, G
<1> QED BY <1>4, <1>5

\* h retains the end of F, and its fields are those of a health.
Retains(F, h, t) ==
    /\ {"phase", "on", "stuck", "cycles", "jump", "flapping"} \subseteq DOMAIN h
    /\ h.cycles \in Seq(Times) /\ Len(h.cycles) <= CycleCount
    /\ TailOf(F, h.cycles, t)

LEMMA ProgressedRetains ==
    ASSUME NEW F \in Seq(Times), Ascending(F), NEW s \in Int, NEW t \in Int, s <= t, NEW b,
           NEW h, Retains(F, h, s)
    PROVE  /\ Retains(F, Progressed(h, t, b), t)
           /\ Progressed(h, t, b).phase = h.phase /\ Progressed(h, t, b).on = h.on
<1> DEFINE g == Progressed(h, t, b)
           c == Recent(h.cycles, t)
<1>1. c \in Seq(Times) /\ Len(c) <= Len(h.cycles) /\ TailOf(F, c, t)
  BY RecentTail DEF Retains
<1> HIDE DEF c
<1>2. DOMAIN g = DOMAIN h /\ g.phase = h.phase /\ g.on = h.on /\ g.cycles = c
  BY DEF Progressed, Retains, c
<1> HIDE DEF g
<1>3. Len(c) <= CycleCount
  BY <1>1, TimeFacts, LenProperties DEF Retains
<1> QED BY <1>1, <1>2, <1>3 DEF Retains, g

LEMMA SupportedRetains ==
    ASSUME NEW F, NEW t, NEW n, NEW cov, NEW h, Retains(F, h, t)
    PROVE  /\ Retains(F, Supported(h, t, n, cov), t)
           /\ Supported(h, t, n, cov).phase = h.phase /\ Supported(h, t, n, cov).on = h.on
<1> DEFINE r == Supported(h, t, n, cov)
           stuck == UnsupportedSince(h, t, n, cov)
<1>1. DOMAIN r = DOMAIN h /\ r.on = h.on /\ r.phase = h.phase /\ r.cycles = h.cycles
  <2> HIDE DEF stuck
  <2>1. Supported(h, t, n, cov) =
          [h EXCEPT !.stuck = stuck,
                    !.jump = IF h.phase # "on" \/ n \in cov THEN Ended(@, t) ELSE @,
                    !.timeout = Judged(@, t, stuck # NoTime /\ stuck + StuckWindow <= t,
                                       stuck + StuckWindow)]
    BY DEF Supported, stuck
  <2> QED BY <2>1 DEF Retains
<1> HIDE DEF r
<1> QED BY <1>1 DEF Retains, r

LEMMA AdvancedRetains ==
    ASSUME NEW F \in Seq(Times), Ascending(F), NEW s \in Int, NEW t \in Int, s <= t,
           NEW n, NEW cov, NEW h, Retains(F, h, s)
    PROVE  /\ Retains(F, Advanced(h, t, n, cov), t)
           /\ Advanced(h, t, n, cov).phase = h.phase /\ Advanced(h, t, n, cov).on = h.on
<1> DEFINE g == Progressed(h, t, FALSE)
           r == Supported(g, t, n, cov)
<1>1. Retains(F, g, t) /\ g.phase = h.phase /\ g.on = h.on
  <2>1. \A b \in BOOLEAN :
          LET p == Progressed(h, t, b) IN Retains(F, p, t) /\ p.phase = h.phase /\ p.on = h.on
    BY ProgressedRetains
  <2> QED BY <2>1
<1> HIDE DEF g
<1>2. Retains(F, r, t) /\ r.phase = g.phase /\ r.on = g.on
  BY <1>1, SupportedRetains
<1> QED BY <1>1, <1>2 DEF Advanced, g

LEMMA MovedRetains ==
    ASSUME NEW F \in Seq(Times), Ascending(F), NEW s \in Int, NEW t \in Int, s <= t,
           NEW n, NEW cov, NEW h, Retains(F, h, s)
    PROVE  /\ Retains(F, Moved(h, n, t, cov), t)
           /\ Moved(h, n, t, cov).phase = h.phase /\ Moved(h, n, t, cov).on = h.on
<1> DEFINE g == Advanced(h, t, n, covered)
           r == Advanced(g, t, n, cov)
<1>1. Retains(F, g, t) /\ g.phase = h.phase /\ g.on = h.on
  BY AdvancedRetains
<1> HIDE DEF g
<1>2. Retains(F, r, t) /\ r.phase = g.phase /\ r.on = g.on
  BY <1>1, AdvancedRetains
<1> QED BY <1>1, <1>2 DEF Moved, g

\* The history after an observation of phase at t.
Grown(F, h, phase, t, b) == IF QuickCycle(h, phase, t, b) THEN Append(F, t) ELSE F

LEMMA ObservedRetains ==
    ASSUME NEW F \in Seq(Times), Ascending(F), NEW s \in Int, NEW t \in Times, s <= t,
           NEW n, NEW cov, NEW phase, NEW b, NEW h, Retains(F, h, s)
    PROVE  LET r == Observed(h, phase, t, n, cov, b)
           IN  /\ Retains(Grown(F, h, phase, t, b), r, t)
               /\ r.phase = phase /\ r.on = OnSince(h, phase, t, b)
<1> DEFINE G == Grown(F, h, phase, t, b)
           on == OnSince(h, phase, t, b)
           g == Progressed(h, t, b)
           e == Edge(g, phase, t, b)
           u == Supported(e, t, n, cov)
           r == Flapped(u, t)
           c == Completed(g, phase, t, b)
<1>1. Retains(F, g, t) /\ g.phase = h.phase /\ g.on = h.on
  BY ProgressedRetains, TimeFacts
<1> HIDE DEF g
<1>2. (QuickCycle(g, phase, t, b) <=> QuickCycle(h, phase, t, b)) /\ OnSince(g, phase, t, b) = on
  BY <1>1 DEF QuickCycle, OnSince
<1>3. c \in Seq(Times) /\ Len(c) <= CycleCount /\ TailOf(G, c, t)
  <2>1. CASE QuickCycle(h, phase, t, b)
    <3>1. c = LastCycles(Append(g.cycles, t)) /\ G = Append(F, t)
      BY <1>2, <2>1 DEF Completed, Grown
    <3>2. g.cycles \in Seq(Times) /\ Len(g.cycles) <= CycleCount /\ TailOf(F, g.cycles, t)
      BY <1>1 DEF Retains
    <3> HIDE DEF c, G
    <3> QED BY <3>1, <3>2, AppendTail
  <2>2. CASE ~QuickCycle(h, phase, t, b)
    <3>1. c = g.cycles /\ G = F
      BY <1>2, <2>2 DEF Completed, Grown
    <3> QED BY <1>1, <3>1 DEF Retains
  <2> QED BY <2>1, <2>2
<1> HIDE DEF c, G, on
<1>4. DOMAIN e = DOMAIN g /\ e.phase = phase /\ e.on = on /\ e.cycles = c
  <2> DEFINE stuck == IF phase = "on" /\ ~b THEN g.stuck ELSE NoTime
             jump == IF b THEN Ended(g.jump, t) ELSE g.jump
  <2>1. e = [g EXCEPT !.phase = phase, !.on = on, !.stuck = stuck, !.cycles = c,
                      !.timeout = IF b THEN Ended(@, t) ELSE @, !.jump = jump]
    BY <1>2 DEF Edge, c
  <2> HIDE DEF stuck, jump, e
  <2> QED BY <1>1, <2>1 DEF Retains
<1>5. Retains(G, e, t)
  <2> HIDE DEF e
  <2> QED BY <1>1, <1>3, <1>4 DEF Retains
<1> HIDE DEF e
<1>6. Retains(G, u, t) /\ u.phase = phase /\ u.on = on
  <2>1. Retains(G, u, t) /\ u.phase = e.phase /\ u.on = e.on
    BY <1>5, SupportedRetains
  <2> QED BY <1>4, <2>1
<1> HIDE DEF u
<1>7. DOMAIN r = DOMAIN u /\ r.phase = u.phase /\ r.on = u.on /\ r.cycles = u.cycles
  BY <1>6 DEF Flapped, Retains
<1> HIDE DEF r
<1>8. Retains(G, r, t)
  BY <1>6, <1>7 DEF Retains
<1>9. Observed(h, phase, t, n, cov, b) = r
  BY DEF Observed, r, u, e, g
<1> QED BY <1>6, <1>7, <1>8, <1>9 DEF G, on

LEMMA JumpedRetains ==
    ASSUME NEW F, NEW t, NEW n, NEW cov, NEW h, Retains(F, h, t)
    PROVE  /\ Retains(F, Jumped(h, t, n, cov), t)
           /\ Jumped(h, t, n, cov).phase = h.phase /\ Jumped(h, t, n, cov).on = h.on
<1> DEFINE r == Jumped(h, t, n, cov)
<1>1. DOMAIN r = DOMAIN h /\ r.on = h.on /\ r.phase = h.phase /\ r.cycles = h.cycles
  BY DEF Jumped, Retains
<1> HIDE DEF r
<1> QED BY <1>1 DEF Retains, r

Remembered ==
    /\ finished \in Seq(Times) /\ Ascending(finished)
    /\ \A i \in 1 .. Len(finished) : finished[i] <= now
    /\ Retains(finished, health[node], now)
    /\ health[node].on = risen

LEMMA GrownHistory ==
    ASSUME NEW F \in Seq(Times), Ascending(F), NEW t \in Times,
           \A i \in 1 .. Len(F) : F[i] <= t
    PROVE  /\ Append(F, t) \in Seq(Times) /\ Ascending(Append(F, t))
           /\ \A i \in 1 .. Len(Append(F, t)) : Append(F, t)[i] <= t
<1> DEFINE G == Append(F, t)
<1>1. /\ G \in Seq(Times) /\ Len(G) = Len(F) + 1 /\ G[Len(F) + 1] = t
      /\ \A i \in 1 .. Len(F) : G[i] = F[i]
      /\ Len(F) \in Nat /\ DOMAIN G = 1 .. Len(G) /\ DOMAIN F = 1 .. Len(F)
  BY AppendProperties, LenProperties
<1> HIDE DEF G
<1>2. ASSUME NEW i \in 1 .. Len(G) PROVE G[i] <= t
  <2>1. CASE i = Len(F) + 1
    BY <1>1, <2>1, TimeFacts
  <2>2. CASE i # Len(F) + 1
    BY <1>1, <2>2
  <2> QED BY <2>1, <2>2
<1>3. ASSUME NEW i \in 1 .. Len(G), NEW j \in 1 .. Len(G), i < j PROVE G[i] <= G[j]
  <2>1. i \in 1 .. Len(F) /\ G[i] = F[i]
    BY <1>1, <1>3
  <2>2. CASE j = Len(F) + 1
    BY <1>1, <1>2, <2>2
  <2>3. CASE j # Len(F) + 1
    <3>1. j \in 1 .. Len(F) /\ G[j] = F[j]
      BY <1>1, <2>3
    <3> QED BY <1>1, <1>3, <2>1, <3>1 DEF Ascending
  <2> QED BY <2>2, <2>3
<1> QED BY <1>1, <1>2, <1>3 DEF Ascending, G

LEMMA RememberedStep ==
    ASSUME node \in Nodes, IInv, Remembered, HNext
    PROVE  Remembered'
<1> DEFINE h == health[node]
           F == finished
           s == now
<1>1. /\ F \in Seq(Times) /\ Ascending(F) /\ (\A i \in 1 .. Len(F) : F[i] <= s)
      /\ Retains(F, h, s) /\ h.on = risen
      /\ s \in Times /\ s \in Int /\ s <= s
      /\ \A i \in 1 .. Len(F) : F[i] \in Int
  BY TimeFacts, ElementOfSeq DEF Remembered, IInv
<1>2. ASSUME NEW t \in now .. MaxTime, NEW cov \in SUBSET covered,
             Advance(t, cov), UNCHANGED history
      PROVE  Remembered'
  <2>1. /\ health'[node] = Moved(h, node, t, cov) /\ now' = t /\ finished' = F /\ risen' = risen
        /\ t \in Int /\ s <= t
    BY <1>1, <1>2, HealthAssumption DEF Advance, history
  <2> HIDE DEF h, s, F
  <2>2. Retains(F, Moved(h, node, t, cov), t) /\ Moved(h, node, t, cov).on = h.on
    BY <1>1, <2>1, MovedRetains
  <2>3. \A i \in 1 .. Len(F) : F[i] <= t
    BY <1>1, <2>1
  <2> QED BY <1>1, <2>1, <2>2, <2>3 DEF Remembered
<1>3. ASSUME NEW a \in Aliases, NEW level \in Levels, NEW cov \in SUBSET Nodes,
             NEW jumps \in SUBSET Nodes, Report(a, level, cov, jumps), HReport
      PROVE  Remembered'
  <2> DEFINE levels == [raw EXCEPT ![a] = level]
             p == Aggregate(node, levels)
             m == Moved(h, node, s, cov)
             o == Observed(m, p, s, node, cov, FALSE)
             j == IF node \in jumps THEN Jumped(o, s, node, cov) ELSE o
             r == Advanced(j, s, node, cov)
             G == Grown(F, m, p, s, FALSE)
  <2>1. /\ health'[node] = r /\ now' = s /\ p = Aggregate(node, raw')
        /\ h.phase = Aggregate(node, raw)
    BY <1>3 DEF Report, IInv
  <2>2. /\ risen' = IF p = "on" THEN (IF h.phase = "on" THEN risen ELSE s) ELSE NoTime
        /\ finished' = IF h.phase = "on" /\ p = "off" /\ risen # NoTime /\ s - risen <= MaxOn
                       THEN Append(F, s) ELSE F
    BY <1>3, <2>1 DEF HReport, IsOn, IsOff, WasOn
  <2> HIDE DEF h, s, F, p
  <2>3. Retains(F, m, s) /\ m.phase = h.phase /\ m.on = h.on
    BY <1>1, MovedRetains
  <2> HIDE DEF m
  <2>4. G = finished'
    <3>1. QuickCycle(m, p, s, FALSE) <=> h.phase = "on" /\ p = "off" /\ risen # NoTime /\ s - risen <= MaxOn
      BY <1>1, <2>3 DEF QuickCycle
    <3> QED BY <2>2, <3>1 DEF Grown
  <2>5. G \in Seq(Times) /\ Ascending(G) /\ (\A i \in 1 .. Len(G) : G[i] <= s)
    <3>1. G = F \/ G = Append(F, s)
      BY DEF Grown
    <3> HIDE DEF G
    <3> QED BY <3>1, <1>1, GrownHistory
  <2>6. Retains(G, o, s) /\ o.phase = p /\ o.on = OnSince(m, p, s, FALSE)
    <3>1. \A b \in BOOLEAN :
            LET x == Observed(m, p, s, node, cov, b)
            IN  /\ Retains(Grown(F, m, p, s, b), x, s)
                /\ x.phase = p /\ x.on = OnSince(m, p, s, b)
      BY <1>1, <2>3, ObservedRetains
    <3> QED BY <3>1
  <2>7. OnSince(m, p, s, FALSE) = risen'
    BY <1>1, <2>2, <2>3 DEF OnSince
  <2> HIDE DEF o, G
  <2>8. Retains(G, j, s) /\ j.on = o.on
    <3>1. Retains(G, o, s)
      BY <2>6
    <3>2. Retains(G, Jumped(o, s, node, cov), s)
      BY <3>1, JumpedRetains, Zenon
    <3>3. Jumped(o, s, node, cov).on = o.on
      BY <3>1, JumpedRetains
    <3> QED BY <3>1, <3>2, <3>3
  <2> HIDE DEF j
  <2>9. Retains(G, r, s) /\ r.on = j.on
    BY <1>1, <2>5, <2>8, AdvancedRetains
  <2> HIDE DEF r
  <2> QED BY <2>1, <2>4, <2>5, <2>6, <2>7, <2>8, <2>9 DEF Remembered
<1>4. ASSUME NEW t \in now .. MaxTime, NEW levels \in [Aliases -> Levels],
             NEW cov \in SUBSET covered, Restart(t, levels, cov), risen' = NoTime,
             UNCHANGED finished
      PROVE  Remembered'
  <2> DEFINE p == Aggregate(node, levels)
             o == Observed(h, p, t, node, cov, TRUE)
             r == Advanced(o, t, node, cov)
  <2>1. health'[node] = r /\ now' = t /\ t \in Times /\ t \in Int /\ s <= t /\ t <= t
    BY <1>1, <1>4, HealthAssumption DEF Restart, Times
  <2>2. finished' = F
    BY <1>4
  <2> HIDE DEF h, p, s, F
  <2>3. Retains(F, o, t) /\ o.on = NoTime
    <3>1. \A b \in BOOLEAN :
            LET x == Observed(h, p, t, node, cov, b)
            IN  Retains(Grown(F, h, p, t, b), x, t) /\ x.on = OnSince(h, p, t, b)
      BY <1>1, <2>1, ObservedRetains
    <3>2. Grown(F, h, p, t, TRUE) = F /\ OnSince(h, p, t, TRUE) = NoTime
      BY DEF Grown, QuickCycle, OnSince
    <3> QED BY <3>1, <3>2
  <2> HIDE DEF o
  <2>4. Retains(F, r, t) /\ r.on = o.on
    BY <1>1, <2>1, <2>3, AdvancedRetains
  <2>5. \A i \in 1 .. Len(F) : F[i] <= t
    BY <1>1, <2>1
  <2> HIDE DEF r
  <2> QED BY <1>1, <1>4, <2>1, <2>2, <2>3, <2>4, <2>5 DEF Remembered
<1> QED BY <1>2, <1>3, <1>4 DEF HNext

\* The ten completions that are retained judge as the whole history does.
LEMMA RetainedDecide ==
    ASSUME node \in Nodes, IInv, Remembered
    PROVE  FlappingExact
<1> DEFINE c == health[node].cycles
           F == finished
           W == Within(now)
<1>1. /\ F \in Seq(Times) /\ c \in Seq(Times) /\ Len(c) <= CycleCount /\ TailOf(F, c, now)
      /\ FlappingOK(health[node], now) /\ CyclesOK(health[node], now) /\ now \in Int
  BY TimeFacts DEF Remembered, Retains, IInv, Sound, Base
<1>2. PICK k \in 0 .. Len(F) :
         /\ Len(c) = Len(F) - k /\ \A i \in 1 .. Len(c) : c[i] = F[k + i]
         /\ Len(c) = CycleCount \/ \A i \in 1 .. k : Expired(F[i], now)
  BY <1>1 DEF TailOf
<1>3. /\ Len(F) \in Nat /\ Len(c) \in Nat /\ DOMAIN F = 1 .. Len(F) /\ DOMAIN c = 1 .. Len(c)
      /\ \A i \in 1 .. Len(F) : F[i] \in Int
  BY <1>1, LenProperties, ElementOfSeq, TimeFacts
<1> DEFINE lc == Len(c)
           lf == Len(F)
<1>a. k \in Int /\ 0 <= k /\ k <= lf /\ lc = lf - k /\ lc \in Int /\ lf \in Int
  <2>1. lc \in Nat /\ lf \in Nat /\ lc = lf - k /\ k \in 0 .. lf
    BY <1>2, <1>3
  <2> HIDE DEF lc, lf
  <2> QED BY <2>1
<1>4. \A i \in k + 1 .. Len(F) : now - F[i] < CycleWindow
  <2> SUFFICES ASSUME NEW i \in k + 1 .. Len(F) PROVE now - F[i] < CycleWindow
    OBVIOUS
  <2>1. i - k \in 1 .. Len(c) /\ k + (i - k) = i
    <3> HIDE DEF lc, lf
    <3>1. i \in k + 1 .. lf
      BY DEF lf
    <3>2. i - k \in 1 .. lc /\ k + (i - k) = i
      BY <1>a, <3>1
    <3> QED BY <3>2 DEF lc
  <2>2. now - c[i - k] < CycleWindow
    BY <1>1, <1>3, <2>1 DEF CyclesOK
  <2> QED BY <1>2, <2>1, <2>2
<1>5. Cardinality(k + 1 .. Len(F)) = Len(c) /\ IsFiniteSet(k + 1 .. Len(F))
  <2>1. k + 1 \in Int /\ Len(F) \in Int
    BY <1>3
  <2>2. (IF k + 1 > Len(F) THEN 0 ELSE Len(F) - (k + 1) + 1) = Len(c)
    <3> HIDE DEF lc, lf
    <3>1. (IF k + 1 > lf THEN 0 ELSE lf - (k + 1) + 1) = lc
      BY <1>a
    <3> QED BY <3>1 DEF lc, lf
  <2> QED BY <2>1, <2>2, FS_Interval
<1>6. k + 1 .. Len(F) \subseteq W /\ W \subseteq 1 .. Len(F)
  BY <1>3, <1>4 DEF Within
<1>7. IsFiniteSet(W) /\ Cardinality(W) \in Nat /\ Cardinality(W) >= Len(c)
  <2>1. IsFiniteSet(1 .. Len(F))
    BY <1>3, Initial
  <2>2. IsFiniteSet(W) /\ Cardinality(W) \in Nat
    BY <1>6, <2>1, FS_Subset, FS_CardinalityType
  <2>3. Cardinality(k + 1 .. Len(F)) <= Cardinality(W)
    BY <1>6, <2>2, FS_Subset
  <2> QED BY <1>3, <1>5, <2>2, <2>3
<1>8. CASE Len(c) = CycleCount
  <2>1. Active(health[node].flapping)
    BY <1>1, <1>8 DEF FlappingOK, FullRun
  <2>2. Cardinality(W) >= CycleCount
    BY <1>7, <1>8
  <2> QED BY <2>1, <2>2 DEF FlappingExact
<1>9. CASE Len(c) # CycleCount
  <2>1. ~Active(health[node].flapping)
    BY <1>1, <1>9 DEF FlappingOK, FullRun
  <2>2. W \subseteq k + 1 .. Len(F)
    <3> SUFFICES ASSUME NEW i \in W PROVE i \in k + 1 .. Len(F)
      OBVIOUS
    <3>1. i \in 1 .. Len(F) /\ now - F[i] < CycleWindow
      BY <1>3 DEF Within
    <3>2. ~Expired(F[i], now)
      BY <1>1, <1>3, <3>1, TimeFacts DEF Expired
    <3>3. i \notin 1 .. k
      BY <1>2, <1>9, <3>2
    <3> QED BY <1>3, <3>1, <3>3
  <2>3. Cardinality(W) <= Len(c)
    BY <1>5, <2>2, FS_Subset
  <2>4. ~(Cardinality(W) >= CycleCount)
    BY <1>1, <1>3, <1>7, <1>9, <2>3, TimeFacts
  <2> QED BY <2>1, <2>4 DEF FlappingExact
<1> QED BY <1>8, <1>9

\* Flapping is reported exactly while the sensors have completed enough quick cycles
\* within the window, counted over all that was ever observed.
THEOREM HealthFlappingExact ==
    ASSUME node \in Nodes PROVE HSpec => []FlappingExact
<1>1. HInit => IInv /\ Remembered
  <2> SUFFICES ASSUME HInit PROVE IInv /\ Remembered
    OBVIOUS
  <2>1. health[node] = Fresh /\ finished = <<>> /\ risen = NoTime /\ now = 0
    BY DEF HInit, Init
  <2>2. <<>> \in Seq(Times) /\ Len(<<>>) = 0 /\ DOMAIN <<>> = {}
    BY EmptySeq
  <2>3. TailOf(<<>>, <<>>, 0)
    BY <2>2 DEF TailOf
  <2>4. Retains(<<>>, Fresh, 0)
    BY <2>2, <2>3, TimeFacts DEF Retains, Fresh
  <2>5. Ascending(<<>>) /\ \A i \in 1 .. Len(<<>>) : <<>>[i] <= 0
    BY <2>2 DEF Ascending
  <2>6. Fresh.on = NoTime
    BY DEF Fresh
  <2> QED BY <2>1, <2>2, <2>4, <2>5, <2>6, InitIInv DEF HInit, Remembered
<1>2. IInv /\ Remembered /\ [HNext]_<<vars, history>> => (IInv /\ Remembered)'
  <2>1. ASSUME Remembered, UNCHANGED <<vars, history>> PROVE Remembered'
    BY <2>1 DEF vars, history, Remembered
  <2> QED BY <2>1, RememberedStep, StepHInv
<1>3. IInv /\ Remembered => FlappingExact
  BY RetainedDecide
<1> QED BY <1>1, <1>2, <1>3, PTL DEF HSpec
=============================================================================
