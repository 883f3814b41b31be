------------------------- MODULE RuntimeCallsProofs --------------------------
(***************************************************************************)
(* What the callbacks of the runtime promise, proved for any readings,     *)
(* clock, audit limits and number of moves, policy events and callbacks.   *)
(*                                                                         *)
(* PublicationAtomic needs little beside itself: the shape of the callback *)
(* in progress, that none runs while the entry is not loaded, and that the *)
(* queues are counted in integers.  The log stays opaque: whatever logging *)
(* does, deferring it changes nothing.                                     *)
(*                                                                         *)
(* HeardInForce rests on Heard: the count is one that can be restored, the *)
(* count asked for is the one in force unless it is not supported, no      *)
(* report taken is later than the last change of the entity, and the last  *)
(* state that a callback took before it can change nothing any more.       *)
(*                                                                         *)
(* Restorable adds Queued: the queues, and the audit log, which stays in   *)
(* the order of time because its rows are of the model's frontier.         *)
(***************************************************************************)
EXTENDS MCRuntimeCalls, SequenceTheorems, WellFoundedInduction, TLAPS

(***************************************************************************)
(* The transaction of an observation                                       *)
(***************************************************************************)
PublishCalls == [stage : {"publish"}, left : Int, rows : UNION {Rows(t) : t \in Times},
                 prior : Int, failed : BOOLEAN]

Atomic ==
    /\ call \in {NoCall, Dispatching, Finishing} \cup PublishCalls
    /\ ~up => call = NoCall
    /\ {pending, learned, accepted} \subseteq Int
    /\ PublicationAtomic

LEMMA PublishShape ==
  ASSUME call \in PublishCalls, NEW raises \in BOOLEAN, Publish(raises)
  PROVE  call' \in PublishCalls /\ call'.rows = call.rows /\ call'.prior = call.prior
<1> DEFINE R == UNION {Rows(t) : t \in Times}
           less == call.left - 1
<1>1. call' = [call EXCEPT !.left = less, !.failed = raises]
  BY DEF Publish
<1>2. call \in [stage : {"publish"}, left : Int, rows : R, prior : Int, failed : BOOLEAN]
  BY DEF PublishCalls
<1>3. less \in Int
  BY <1>2
<1> HIDE DEF R, less
<1>4. /\ call' \in [stage : {"publish"}, left : Int, rows : R, prior : Int, failed : BOOLEAN]
      /\ call'.rows = call.rows /\ call'.prior = call.prior
  BY <1>1, <1>2, <1>3
<1> QED BY <1>4 DEF PublishCalls, R

LEMMA AtomicInit == HInit => Atomic
  BY DEF HInit, Init, Atomic, PublicationAtomic, NoCall

LEMMA AtomicStep == ASSUME Atomic, [HNext]_hvars PROVE Atomic'
<1> USE DEF Atomic
<1>0. /\ NoCall.stage = "none" /\ Dispatching.stage = "dispatch" /\ Finishing.stage = "finish"
      /\ \A c \in PublishCalls : c.stage = "publish" /\ c.prior \in Int
  BY DEF NoCall, Dispatching, Finishing, PublishCalls
<1>1. CASE UNCHANGED hvars
  BY <1>1 DEF hvars, vars, PublicationAtomic
<1>2. CASE HNext
  <2>0. /\ Next
        /\ accepted' = accepted + (learned' + pending' - learned - pending) *
                          (IF call = NoCall /\ call'.stage = "publish" THEN 1 ELSE 0)
        /\ direct' = Decided
        /\ committed' = IF call.stage = "publish" THEN committed ELSE tracker'
    BY <1>2 DEF HNext
  \* A step that neither begins nor is part of a publication.
  <2>q. ASSUME call.stage # "publish", call'.stage # "publish", pending' \in Int, learned' \in Int,
               pending' + learned' = pending + learned,
               call' \in {NoCall, Dispatching, Finishing}, ~up' => call' = NoCall,
               log' = log \/ call = NoCall
        PROVE  Atomic'
    <3>1. accepted' = accepted
      BY <2>0, <2>q
    <3>2. direct' = log'
      BY <2>0, <2>q DEF Decided, PublicationAtomic
    <3>3. committed' = tracker'
      BY <2>0, <2>q
    <3> QED BY <2>q, <3>1, <3>2, <3>3 DEF PublicationAtomic
  <2>1. CASE Tick
    BY <2>1, <2>q, <1>0 DEF Tick
  <2>2. ASSUME NEW v \in Readings, CountChanges(v) PROVE Atomic'
    <3>1. CASE call.stage = "publish"
      <4>1. UNCHANGED <<up, tracker, log, pending, learned, call>>
        BY <2>2, <3>1, <1>0 DEF CountChanges, MutationAllowed, Idle
      <4>2. accepted' = accepted /\ direct' = direct /\ committed' = committed
        BY <2>0, <4>1, <3>1, <1>0 DEF Decided
      <4> QED BY <4>1, <4>2 DEF PublicationAtomic
    <3>2. CASE call.stage # "publish"
      BY <2>2, <3>2, <2>q, <1>0 DEF CountChanges, Idle
    <3> QED BY <3>1, <3>2
  <2>3. CASE RepeatedReport
    BY <2>3, <2>q, <1>0 DEF RepeatedReport, Idle
  <2>4. ASSUME NEW t \in Times, NEW events \in 0 .. MaxEvents,
               NEW moves \in 0 .. MaxLearned - (learned + pending),
               NEW rows \in Rows(t), Observe(t, rows, moves, events)
        PROVE  Atomic'
    <3>1. PICK folds \in BOOLEAN :
             call' = [stage |-> "publish", left |-> events, rows |-> rows,
                      prior |-> IF folds THEN pending ELSE 0, failed |-> FALSE]
      BY <2>4 DEF Observe
    <3>2. call' \in PublishCalls
      BY <3>1, CallsAssumption DEF PublishCalls
    <3>3. call = NoCall /\ up /\ up' /\ pending' = pending + moves /\ UNCHANGED <<log, learned>>
      BY <2>4 DEF Observe, Idle
    <3>4. accepted' = accepted + moves
      BY <2>0, <3>2, <3>3, <1>0
    <3>5. direct' = LoggedAll(log', call'.rows)
      BY <2>0, <3>2, <3>3, <1>0 DEF Decided, PublicationAtomic
    <3>6. committed' = tracker'
      BY <2>0, <3>3, <1>0
    <3> QED BY <3>2, <3>3, <3>4, <3>5, <3>6, <1>0 DEF PublicationAtomic
  <2>5. CASE ObserveFails
    BY <2>5, <2>q, <1>0 DEF ObserveFails, Idle
  <2>6. ASSUME NEW raises \in BOOLEAN, Publish(raises) PROVE Atomic'
    <3>1. call \in PublishCalls
      BY <2>6, <1>0 DEF Publish
    <3>2. call' \in PublishCalls /\ call'.rows = call.rows
      BY <2>6, <3>1, PublishShape
    <3>3. up' = up /\ up /\ UNCHANGED <<tracker, log, pending, learned>>
      BY <2>6, <3>1, <1>0 DEF Publish
    <3>4. accepted' = accepted /\ direct' = direct /\ committed' = committed
      BY <2>0, <3>1, <3>3, <1>0 DEF Decided
    <3> QED BY <3>1, <3>2, <3>3, <3>4, <1>0 DEF PublicationAtomic
  <2>7. CASE HandOver
    <3>1. call \in PublishCalls
      BY <2>7, <1>0 DEF HandOver
    <3>2. /\ up' = up /\ up /\ tracker' = tracker /\ log' = LoggedAll(log, call.rows)
          /\ learned' = learned + call.prior /\ pending' = pending - call.prior
          /\ call' \in {Finishing, Dispatching}
      BY <2>7, <3>1, <1>0 DEF HandOver, Handed, Remaining
    <3>3. accepted' = accepted /\ direct' = direct /\ committed' = committed
      BY <2>0, <3>1, <3>2, <1>0 DEF Decided
    <3> QED BY <3>1, <3>2, <3>3, <1>0 DEF PublicationAtomic
  <2>8. CASE Dispatch
    BY <2>8, <2>q, <1>0 DEF Dispatch
  <2>9. CASE Finish
    BY <2>9, <2>q, <1>0 DEF Finish, Remaining
  <2>10. ASSUME NEW syncs \in BOOLEAN, NEW publishes \in BOOLEAN, NEW rows \in Rows(now),
                Timer(syncs, rows, publishes)
         PROVE  Atomic'
    BY <2>10, <2>q, <1>0 DEF Timer, Idle
  <2>11. CASE Stop
    BY <2>11, <2>q, <1>0 DEF Stop, Idle
  <2>12. CASE Start
    BY <2>12, <2>q, <1>0 DEF Start
  <2> QED BY <2>0, <2>1, <2>2, <2>3, <2>4, <2>5, <2>6, <2>7, <2>8, <2>9, <2>10, <2>11, <2>12 DEF Next
<1> QED BY <1>1, <1>2

\* An observation is one transaction, whatever its subscribers do: the model they
\* read is the one it committed, the moves are queued or learned and never both,
\* and its audit rows reach the log as if they had not been deferred.
THEOREM CallsAtomic == HSpec => []PublicationAtomic
<1>1. Atomic => PublicationAtomic
  BY DEF Atomic
<1> QED BY AtomicInit, AtomicStep, <1>1, PTL DEF HSpec

(***************************************************************************)
(* The count entity is heard                                               *)
(***************************************************************************)
Supported == (Readings \ {Invalid}) \cap 0 .. MaxOccupants

Counts == [value : Supported, last : Reports \cup {NoReport}, enteredAt : {NoTime} \cup Times,
           seen : Seq(Reports)]

\* A count that can be restored, whose accepted report is the one in force.
CountKept(c) ==
    /\ c \in Counts
    /\ c.last # NoReport => Contains(c.seen, c.last) /\ c.last.value = c.value
    /\ Len(c.seen) <= SeenLimit
    /\ \A i, j \in DOMAIN c.seen : c.seen[i] = c.seen[j] => i = j
    /\ c.enteredAt # NoTime => c.value > 0

\* The model behind it: nothing it took is later than its frontier, and the count
\* it was asked for is the one in force, unless that is not supported.
TrackerKept(t) ==
    /\ t \in [count : Counts, requested : Readings \ {Invalid}, at : Times]
    /\ CountKept(t.count)
    /\ t.count.last.at <= t.at /\ t.count.enteredAt <= t.at
    /\ t.requested <= MaxOccupants => t.requested = t.count.value

\* A report that can change nothing any more.
Spent(c, r) == r.value \in Supported => r.value = c.value \/ Stale(c, r)

\* The count entity and the states of it that callbacks took.
Heard ==
    /\ now \in Times /\ up \in BOOLEAN /\ ran \in BOOLEAN
    /\ entity \in [value : Readings, at : 0 .. now]
    /\ earlier \in [value : Readings, at : 0 .. now] \cup {NoReport}
    /\ TrackerKept(tracker) /\ tracker.at <= now
    /\ \A i \in DOMAIN tracker.count.seen : tracker.count.seen[i].at <= entity.at
    /\ ~up => ~ran
    /\ earlier # NoReport => earlier.at < entity.at /\ Spent(tracker.count, earlier)
    /\ up /\ ran /\ entity.value \in Supported => tracker.count.value = entity.value

\* The end of a sequence.
LEMMA LastOfFacts ==
  ASSUME NEW S, NEW s \in Seq(S), NEW n \in Nat
  PROVE  /\ LastOf(s, n) \in Seq(S)
         /\ Len(LastOf(s, n)) = (IF Len(s) > n THEN n ELSE Len(s))
         /\ \A i \in 1 .. Len(LastOf(s, n)) : LastOf(s, n)[i] = s[i + Len(s) - Len(LastOf(s, n))]
<1> DEFINE m == IF Len(s) > n THEN Len(s) - n + 1 ELSE 1
<1>0. Len(s) \in Nat /\ m \in Nat /\ 1 <= m /\ m <= Len(s) + 1
  OBVIOUS
<1>1. LastOf(s, n) = SubSeq(s, m, Len(s))
  BY DEF LastOf
<1>2. CASE m = Len(s) + 1
  <2> HIDE DEF m
  <2>1. LastOf(s, n) = <<>>
    BY <1>0, <1>1, <1>2, SubSeqEmpty
  <2>2. (IF Len(s) > n THEN n ELSE Len(s)) = 0
    BY <1>0, <1>2 DEF m
  <2> QED BY <2>1, <2>2
<1>3. CASE m <= Len(s)
  <2> HIDE DEF m
  <2>1. /\ SubSeq(s, m, Len(s)) \in Seq(S)
        /\ Len(SubSeq(s, m, Len(s))) = Len(s) - m + 1
        /\ \A i \in 1 .. Len(s) - m + 1 : SubSeq(s, m, Len(s))[i] = s[m + i - 1]
    BY <1>0, <1>3, SubSeqProperties
  <2>2. Len(s) - m + 1 = (IF Len(s) > n THEN n ELSE Len(s))
    BY <1>0 DEF m
  <2> QED BY <1>0, <1>1, <2>1, <2>2
<1> QED BY <1>0, <1>2, <1>3

LEMMA CountParts ==
  ASSUME NEW c \in Counts
  PROVE  /\ c.value \in Supported /\ c.last \in Reports \cup {NoReport}
         /\ c.enteredAt \in {NoTime} \cup Times /\ c.seen \in Seq(Reports)
  BY DEF Counts

\* Every report is remembered once, among the others; the accepted one stays.
LEMMA AppendedKept ==
  ASSUME NEW c, CountKept(c), NEW r \in Reports, ~Contains(c.seen, r)
  PROVE  /\ Appended(c, r) \in Seq(Reports)
         /\ Len(Appended(c, r)) <= SeenLimit
         /\ \A i, j \in DOMAIN Appended(c, r) : Appended(c, r)[i] = Appended(c, r)[j] => i = j
         /\ Contains(Appended(c, r), r)
         /\ c.last # NoReport => Contains(Appended(c, r), c.last)
         /\ \A i \in DOMAIN Appended(c, r) : Appended(c, r)[i] = r \/ Contains(c.seen, Appended(c, r)[i])
<1> DEFINE all == Append(c.seen, r)
           recent == LastOf(all, SeenLimit)
           rest == LastOf(recent, SeenLimit - 1)
<1>0. /\ c \in Counts /\ c.seen \in Seq(Reports) /\ c.last \in Reports \cup {NoReport}
      /\ Len(c.seen) <= SeenLimit /\ SeenLimit \in Nat /\ SeenLimit > 1
      /\ \A i, j \in DOMAIN c.seen : c.seen[i] = c.seen[j] => i = j
  BY CountParts, ControlAssumption DEF CountKept
<1>1. /\ all \in Seq(Reports) /\ Len(all) = Len(c.seen) + 1 /\ all[Len(c.seen) + 1] = r
      /\ \A i \in 1 .. Len(c.seen) : all[i] = c.seen[i]
  BY <1>0, AppendProperties
<1>2. \A i, j \in 1 .. Len(all) : all[i] = all[j] => i = j
  BY <1>0, <1>1 DEF Contains
<1>3. /\ recent \in Seq(Reports) /\ Len(recent) <= SeenLimit /\ Len(recent) <= Len(all)
      /\ Len(recent) >= 1 /\ recent[Len(recent)] = r
      /\ \A i \in 1 .. Len(recent) : recent[i] = all[i + Len(all) - Len(recent)]
  <2> HIDE DEF all
  <2>1. /\ recent \in Seq(Reports) /\ Len(recent) = (IF Len(all) > SeenLimit THEN SeenLimit ELSE Len(all))
        /\ \A i \in 1 .. Len(recent) : recent[i] = all[i + Len(all) - Len(recent)]
    BY <1>0, <1>1, LastOfFacts
  <2> HIDE DEF recent
  <2>2. Len(all) \in Nat /\ Len(all) >= 1 /\ Len(recent) \in Nat
    BY <1>0, <1>1, <2>1
  <2>3. Len(recent) >= 1 /\ Len(recent) <= SeenLimit /\ Len(recent) <= Len(all)
    BY <1>0, <2>1, <2>2
  <2>4. recent[Len(recent)] = r
    <3>1. recent[Len(recent)] = all[Len(recent) + Len(all) - Len(recent)]
      BY <2>1, <2>2, <2>3
    <3>2. Len(recent) + Len(all) - Len(recent) = Len(c.seen) + 1
      BY <1>1, <2>2
    <3> QED BY <3>1, <3>2, <1>1
  <2> QED BY <2>1, <2>3, <2>4
<1>4. /\ \A i, j \in 1 .. Len(recent) : recent[i] = recent[j] => i = j
      /\ \A i \in 1 .. Len(recent) : recent[i] = r \/ Contains(c.seen, recent[i])
  <2> HIDE DEF all, recent
  <2>0. Len(all) \in Nat /\ Len(recent) \in Nat
    BY <1>1, <1>3
  <2>1. \A i \in 1 .. Len(recent) : i + Len(all) - Len(recent) \in 1 .. Len(all)
    BY <2>0, <1>3
  <2>2. ASSUME NEW i \in 1 .. Len(recent), NEW j \in 1 .. Len(recent), recent[i] = recent[j] PROVE i = j
    <3>1. i + Len(all) - Len(recent) = j + Len(all) - Len(recent)
      BY <2>1, <2>2, <1>2, <1>3
    <3> QED BY <3>1, <2>0
  <2>3. ASSUME NEW i \in 1 .. Len(recent) PROVE recent[i] = r \/ Contains(c.seen, recent[i])
    <3> DEFINE k == i + Len(all) - Len(recent)
    <3>1. k \in 1 .. Len(all) /\ recent[i] = all[k]
      BY <2>1, <1>3
    <3> HIDE DEF k
    <3> QED BY <3>1, <1>1, <1>0 DEF Contains
  <2> QED BY <2>2, <2>3
<1>5. /\ rest \in Seq(Reports) /\ Len(rest) <= SeenLimit - 1 /\ Len(rest) <= Len(recent)
      /\ Len(rest) >= 1 /\ rest[Len(rest)] = r
      /\ \A i \in 1 .. Len(rest) : rest[i] = recent[i + Len(recent) - Len(rest)]
  <2> DEFINE n == SeenLimit - 1
  <2> HIDE DEF recent
  <2>0. n \in Nat /\ n >= 1 /\ Len(recent) \in Nat
    BY <1>0, <1>3
  <2>1. /\ rest \in Seq(Reports) /\ Len(rest) = (IF Len(recent) > n THEN n ELSE Len(recent))
        /\ \A i \in 1 .. Len(rest) : rest[i] = recent[i + Len(recent) - Len(rest)]
    BY <2>0, <1>3, LastOfFacts
  <2> HIDE DEF rest, n
  <2>2. Len(rest) \in Nat
    BY <2>1
  <2>3. Len(rest) <= n /\ Len(rest) <= Len(recent) /\ Len(rest) >= 1
    BY <1>3, <2>0, <2>1, <2>2
  <2>4. rest[Len(rest)] = r
    <3>1. rest[Len(rest)] = recent[Len(rest) + Len(recent) - Len(rest)]
      BY <2>1, <2>2, <2>3
    <3>2. Len(rest) + Len(recent) - Len(rest) = Len(recent)
      BY <2>0, <2>2
    <3> QED BY <3>1, <3>2, <1>3
  <2> QED BY <2>1, <2>3, <2>4 DEF n
<1>6. CASE c.last = NoReport \/ Contains(recent, c.last)
  <2>1. Appended(c, r) = recent
    BY <1>6 DEF Appended
  <2> HIDE DEF recent
  <2>2. Contains(recent, r)
    BY <1>3 DEF Contains
  <2> QED BY <1>3, <1>4, <1>6, <2>1, <2>2
<1>7. CASE c.last # NoReport /\ ~Contains(recent, c.last)
  <2> DEFINE kept == <<c.last>> \o rest
  <2>1. Appended(c, r) = kept
    BY <1>7 DEF Appended
  <2> HIDE DEF recent, rest
  <2>2. /\ kept \in Seq(Reports) /\ Len(kept) = Len(rest) + 1 /\ kept[1] = c.last
        /\ \A i \in 2 .. Len(kept) : kept[i] = rest[i - 1] /\ i - 1 \in 1 .. Len(rest)
    <3>1. <<c.last>> \in Seq(Reports) /\ Len(<<c.last>>) = 1 /\ <<c.last>>[1] = c.last
      BY <1>0, <1>7
    <3> DEFINE one == <<c.last>>
    <3> HIDE DEF one
    <3>2. /\ one \o rest \in Seq(Reports) /\ Len(one \o rest) = Len(one) + Len(rest)
          /\ \A i \in 1 .. Len(one) + Len(rest) : (one \o rest)[i] = IF i <= Len(one) THEN one[i] ELSE rest[i - Len(one)]
      BY <3>1, <1>5, ConcatProperties DEF one
    <3> QED BY <3>1, <3>2, <1>5 DEF one
  <2> HIDE DEF kept
  <2>3. \A i \in 1 .. Len(rest) : rest[i] # c.last /\ (rest[i] = r \/ Contains(c.seen, rest[i]))
    <3>1. Len(rest) \in Nat /\ Len(recent) \in Nat
      BY <1>3, <1>5
    <3>2. \A i \in 1 .. Len(rest) : i + Len(recent) - Len(rest) \in 1 .. Len(recent)
      BY <3>1, <1>5
    <3>3. ASSUME NEW i \in 1 .. Len(rest)
          PROVE  rest[i] # c.last /\ (rest[i] = r \/ Contains(c.seen, rest[i]))
      <4>1. PICK k \in 1 .. Len(recent) : rest[i] = recent[k]
        BY <3>2, <1>5
      <4>2. recent[k] # c.last
        BY <1>7 DEF Contains
      <4> QED BY <4>1, <4>2, <1>4
    <3> QED BY <3>3
  <2>4. \A i, j \in 1 .. Len(rest) : rest[i] = rest[j] => i = j
    <3>1. Len(rest) \in Nat /\ Len(recent) \in Nat
      BY <1>3, <1>5
    <3>2. \A i \in 1 .. Len(rest) : i + Len(recent) - Len(rest) \in 1 .. Len(recent)
      BY <3>1, <1>5
    <3>3. ASSUME NEW i \in 1 .. Len(rest), NEW j \in 1 .. Len(rest), rest[i] = rest[j] PROVE i = j
      <4>1. i + Len(recent) - Len(rest) = j + Len(recent) - Len(rest)
        BY <3>2, <3>3, <1>4, <1>5
      <4> QED BY <4>1, <3>1
    <3> QED BY <3>3
  <2>5. ASSUME NEW i \in 1 .. Len(kept), NEW j \in 1 .. Len(kept), kept[i] = kept[j] PROVE i = j
    <3>0. Len(kept) \in Nat /\ Len(rest) \in Nat
      BY <2>2, <1>5
    <3>1. CASE i = 1 /\ j \in 2 .. Len(kept)
      BY <3>1, <2>2, <2>3, <2>5
    <3>2. CASE j = 1 /\ i \in 2 .. Len(kept)
      BY <3>2, <2>2, <2>3, <2>5
    <3>3. CASE i \in 2 .. Len(kept) /\ j \in 2 .. Len(kept)
      <4>1. i - 1 = j - 1
        BY <3>3, <2>2, <2>4, <2>5
      <4> QED BY <4>1
    <3> QED BY <3>0, <3>1, <3>2, <3>3
  <2>6. \A i \in 1 .. Len(kept) : kept[i] = r \/ Contains(c.seen, kept[i])
    <3>1. Contains(c.seen, c.last)
      BY <1>7 DEF CountKept
    <3>2. \A i \in 1 .. Len(kept) : i = 1 \/ i \in 2 .. Len(kept)
      BY <2>2
    <3> QED BY <3>1, <3>2, <2>2, <2>3
  <2>7. Contains(kept, r) /\ Contains(kept, c.last)
    <3>1. Len(kept) \in 1 .. Len(kept) /\ Len(kept) \in 2 .. Len(kept) /\ 1 \in 1 .. Len(kept) /\ Len(kept) - 1 = Len(rest)
      BY <2>2, <1>5
    <3>2. kept[Len(kept)] = r
      BY <3>1, <2>2, <1>5
    <3> QED BY <3>1, <3>2, <2>2 DEF Contains
  <2>8. Len(kept) <= SeenLimit
    BY <1>0, <1>5, <2>2
  <2> QED BY <2>1, <2>2, <2>5, <2>6, <2>7, <2>8
<1> QED BY <1>6, <1>7

\* A report is accepted when it is new, later than the one in force and different.
LEMMA Accepted ==
  ASSUME NEW c, NEW r
  PROVE  Disposition(c, r) = "accepted" <=> ~Contains(c.seen, r) /\ ~Stale(c, r) /\ r.value # c.value
<1>1. CASE Contains(c.seen, r)
  BY <1>1 DEF Disposition, Contains, Stale
<1>2. CASE ~Contains(c.seen, r)
  BY <1>2 DEF Disposition, Contains, Stale
<1> QED BY <1>1, <1>2

\* What one report makes of a count.
LEMMA CountingKept ==
  ASSUME NEW c, CountKept(c), NEW r \in Reports, r.value \in Supported
  PROVE  /\ CountKept(Counting(c, r))
         /\ \A i \in DOMAIN Counting(c, r).seen :
               Counting(c, r).seen[i] = r \/ Contains(c.seen, Counting(c, r).seen[i])
         /\ Disposition(c, r) # "accepted" =>
               /\ Counting(c, r).value = c.value /\ Counting(c, r).last = c.last
               /\ Counting(c, r).enteredAt = c.enteredAt
         /\ Disposition(c, r) = "accepted" =>
               /\ Counting(c, r).value = r.value /\ Counting(c, r).last = r
               /\ Counting(c, r).enteredAt \in {r.at, NoTime}
<1> DEFINE d == Counting(c, r)
           seen == IF Contains(c.seen, r) THEN c.seen ELSE Appended(c, r)
<1>0. /\ c \in Counts /\ c.value \in Supported /\ c.last \in Reports \cup {NoReport}
      /\ c.enteredAt \in {NoTime} \cup Times /\ c.seen \in Seq(Reports)
  BY CountParts DEF CountKept
<1>1. /\ seen \in Seq(Reports) /\ Len(seen) <= SeenLimit
      /\ \A i, j \in DOMAIN seen : seen[i] = seen[j] => i = j
      /\ \A i \in DOMAIN seen : seen[i] = r \/ Contains(c.seen, seen[i])
      /\ c.last # NoReport => Contains(seen, c.last)
      /\ Contains(seen, r)
  <2>1. CASE Contains(c.seen, r)
    <3>1. \A i \in DOMAIN c.seen : Contains(c.seen, c.seen[i])
      BY <1>0 DEF Contains
    <3> QED BY <2>1, <3>1, <1>0 DEF CountKept
  <2>2. CASE ~Contains(c.seen, r)
    BY <2>2, AppendedKept
  <2> QED BY <2>1, <2>2
<1>2. CASE Disposition(c, r) # "accepted"
  <2>1. d = [c EXCEPT !.seen = seen]
    BY <1>2 DEF Counting
  <2> HIDE DEF d, seen
  <2>2. /\ d \in Counts /\ d.value = c.value /\ d.last = c.last /\ d.enteredAt = c.enteredAt /\ d.seen = seen
    BY <1>0, <1>1, <2>1 DEF Counts
  <2>3. CountKept(d)
    BY <1>1, <2>2 DEF CountKept
  <2> QED BY <1>1, <1>2, <2>2, <2>3 DEF d
<1>3. CASE Disposition(c, r) = "accepted"
  <2> DEFINE e == IF c.value = 0 THEN r.at ELSE NoTime
  <2>0. ~Contains(c.seen, r) /\ r.value # c.value
    BY <1>3, Accepted
  <2>1. d = [value |-> r.value, last |-> r, seen |-> seen, enteredAt |-> e]
    BY <1>3, <2>0 DEF Counting
  <2>2. e \in {r.at, NoTime} /\ e \in {NoTime} \cup Times /\ (e # NoTime => c.value = 0)
    BY DEF Reports
  <2> HIDE DEF d, seen, e
  <2>3. /\ d \in Counts /\ d.value = r.value /\ d.last = r /\ d.enteredAt = e /\ d.seen = seen
    BY <1>1, <2>1, <2>2 DEF Counts
  <2>4. e # NoTime => r.value > 0
    BY <2>0, <2>2 DEF Supported
  <2>5. CountKept(d)
    BY <1>1, <2>3, <2>4 DEF CountKept
  <2> QED BY <1>1, <1>3, <2>2, <2>3, <2>5 DEF d
<1> QED BY <1>2, <1>3

LEMMA ReadingNumber == \A v \in Readings \ {Invalid} : v \in Nat
  BY CallsAssumption

\* What synchronizing the count with a state of the entity makes of the model.
LEMMA SyncedKept ==
  ASSUME NEW t, TrackerKept(t), NEW r \in [value : Readings, at : Times],
         NEW last \in Times, r.at <= last, \A i \in DOMAIN t.count.seen : t.count.seen[i].at <= last
  PROVE  /\ TrackerKept(Synced(t, r))
         /\ Synced(t, r).at \in {t.at, r.at} /\ Synced(t, r).at >= t.at
         /\ \A i \in DOMAIN Synced(t, r).count.seen : Synced(t, r).count.seen[i].at <= last
         /\ \/ Synced(t, r).count.value = t.count.value /\ Synced(t, r).count.last = t.count.last
            \/ /\ r.value \in Supported /\ r.value # t.count.value /\ ~Stale(t.count, r)
               /\ Synced(t, r).count.value = r.value /\ Synced(t, r).count.last = r
         /\ r.value \in Supported /\ r.at >= t.at /\ ~Contains(t.count.seen, r) /\ ~Stale(t.count, r)
               => Synced(t, r).count.value = r.value
<1> DEFINE u == Synced(t, r)
           c == t.count
           d == Counting(c, r)
<1>0. /\ t \in [count : Counts, requested : Readings \ {Invalid}, at : Times]
      /\ CountKept(c) /\ c.last.at <= t.at /\ c.enteredAt <= t.at
      /\ t.requested <= MaxOccupants => t.requested = c.value
      /\ c \in Counts /\ c.value \in Supported /\ t.requested \in Nat /\ t.at \in Times
      /\ MaxOccupants \in Nat
  BY CountParts, ReadingNumber, ControlAssumption DEF TrackerKept
<1>1. CASE r.value \in {Invalid, t.requested}
  <2>1. u = t
    BY <1>1 DEF Synced
  <2>2. r.value \in Supported => r.value = c.value
    BY <1>0, <1>1 DEF Supported
  <2>3. t.at \in Int
    BY <1>0 DEF Times
  <2> QED BY <2>1, <2>2, <2>3
<1>2. CASE r.value \notin {Invalid, t.requested}
  <2>0. r.value \in Nat /\ r.value \in Readings \ {Invalid} /\ r \in Reports /\ t.at \in Int /\ r.at \in Int /\ r.at \in Times
    BY <1>0, <1>2, ReadingNumber DEF Reports, Times
  <2>1. u = Reconciled(t, r)
    BY <1>2 DEF Synced
  <2>2. CASE r.value > MaxOccupants
    <3>1. u = [t EXCEPT !.requested = r.value]
      BY <2>1, <2>2 DEF Reconciled
    <3>2. /\ u \in [count : Counts, requested : Readings \ {Invalid}, at : Times]
          /\ u.count = c /\ u.at = t.at /\ u.requested = r.value
      BY <1>0, <2>0, <3>1
    <3>3. TrackerKept(u)
      BY <1>0, <2>0, <2>2, <3>2 DEF TrackerKept
    <3>4. r.value \notin Supported
      BY <2>0, <2>2, <1>0 DEF Supported
    <3> HIDE DEF u
    <3>5. u.at \in {t.at, r.at} /\ u.at >= t.at /\ (\A i \in DOMAIN u.count.seen : u.count.seen[i].at <= last)
      BY <2>0, <3>2
    <3> QED BY <3>2, <3>3, <3>4, <3>5 DEF u
  <2>3. CASE ~(r.value > MaxOccupants) /\ Behind(t, r)
    <3>1. u = t
      BY <2>1, <2>3 DEF Reconciled
    <3>2. ~(r.at >= t.at)
      BY <2>0, <2>3 DEF Behind
    <3> QED BY <2>0, <3>1, <3>2
  <2>4. CASE ~(r.value > MaxOccupants) /\ ~Behind(t, r)
    <3>0. r.value \in Supported /\ r.at >= t.at
      BY <2>0, <2>4, <1>0 DEF Behind, Supported
    <3> DEFINE how == Disposition(c, r)
               adopts == how = "accepted" \/ (how = "duplicate" /\ r.value = d.value)
               q == IF adopts THEN d.value ELSE t.requested
    <3>1. u = [count |-> d, at |-> r.at, requested |-> q]
      BY <2>1, <2>4 DEF Reconciled
    <3>2. /\ CountKept(d)
          /\ \A i \in DOMAIN d.seen : d.seen[i] = r \/ Contains(c.seen, d.seen[i])
          /\ how # "accepted" => d.value = c.value /\ d.last = c.last /\ d.enteredAt = c.enteredAt
          /\ how = "accepted" => d.value = r.value /\ d.last = r /\ d.enteredAt \in {r.at, NoTime}
      BY <1>0, <2>0, <3>0, CountingKept
    <3>3. how = "accepted" <=> ~Contains(c.seen, r) /\ ~Stale(c, r) /\ r.value # c.value
      BY Accepted
    <3> HIDE DEF d, how
    <3>4. d \in Counts /\ d.value \in Supported /\ d.seen \in Seq(Reports)
      BY <3>2, CountParts DEF CountKept
    <3>5. q \in Readings \ {Invalid} /\ (q <= MaxOccupants => q = d.value)
      <4>1. CASE adopts
        BY <4>1, <3>4 DEF Supported
      <4>2. CASE ~adopts
        BY <4>2, <3>2, <1>0
      <4> QED BY <4>1, <4>2
    <3> HIDE DEF q, u
    <3>6. /\ u \in [count : Counts, requested : Readings \ {Invalid}, at : Times]
          /\ u.count = d /\ u.at = r.at /\ u.requested = q
      BY <2>0, <3>1, <3>4, <3>5
    <3>7. d.last.at <= r.at /\ d.enteredAt <= r.at
      <4>1. CASE how = "accepted"
        BY <4>1, <3>2, <2>0 DEF NoTime, Times
      <4>2. CASE how # "accepted"
        <5>1. c.last.at \in Int /\ c.enteredAt \in Int
          BY <1>0, CountParts DEF Reports, NoReport, NoTime, Times
        <5> QED BY <4>2, <3>2, <5>1, <1>0, <2>0, <3>0
      <4> QED BY <4>1, <4>2
    <3>8. TrackerKept(u)
      BY <3>2, <3>5, <3>6, <3>7 DEF TrackerKept
    <3>9. \A i \in DOMAIN d.seen : d.seen[i].at <= last
      <4>1. c.seen \in Seq(Reports)
        BY <1>0, CountParts
      <4>2. \A x : Contains(c.seen, x) => x.at <= last
        BY <4>1 DEF Contains
      <4> QED BY <4>2, <3>2
    <3>10. how # "accepted" /\ ~Contains(c.seen, r) /\ ~Stale(c, r) => d.value = r.value
      BY <3>2, <3>3
    <3> QED BY <2>0, <3>0, <3>2, <3>3, <3>6, <3>8, <3>9, <3>10 DEF u
  <2> QED BY <2>2, <2>3, <2>4
<1> QED BY <1>1, <1>2

LEMMA HeardInit == Init => Heard
<1> SUFFICES ASSUME Init PROVE Heard
  OBVIOUS
<1>1. PICK c \in Starts :
         /\ entity = IF c.seen = <<>> THEN [value |-> c.value, at |-> StartTime] ELSE Last(c.seen)
         /\ tracker = [count |-> c, requested |-> c.value, at |-> StartTime]
  BY DEF Init
<1>2. /\ c \in [value : (Readings \ {Invalid}) \cap 0 .. MaxOccupants, last : Reports \cup {NoReport},
                enteredAt : {NoTime} \cup 0 .. StartTime, seen : Seq(Reports)]
      /\ c.enteredAt # NoTime => c.value > 0
      /\ c.last # NoReport => Contains(c.seen, c.last) /\ c.last.value = c.value
      /\ Len(c.seen) <= SeenLimit
      /\ \A i, j \in DOMAIN c.seen : c.seen[i] = c.seen[j] => i = j
      /\ \A i \in DOMAIN c.seen : c.seen[i].at <= Last(c.seen).at
      /\ c.seen # <<>> => Last(c.seen).value = c.value /\ Last(c.seen).at <= StartTime
  BY StartsAssumption DEF IsInjective
<1>3. /\ StartTime \in Nat /\ MaxTime \in Nat /\ StartTime \in Times /\ StartTime \in 0 .. StartTime
      /\ 0 .. StartTime \subseteq Times /\ now = StartTime /\ up = TRUE /\ ran = TRUE /\ earlier = NoReport
  BY CallsAssumption DEF Init, Times
<1>4. /\ c.value \in Supported /\ c.value \in Readings \ {Invalid} /\ c.last \in Reports \cup {NoReport}
      /\ c.enteredAt \in {NoTime} \cup 0 .. StartTime /\ c.seen \in Seq(Reports)
  BY <1>2 DEF Supported
<1>5. c \in Counts
  BY <1>2, <1>3 DEF Counts, Supported
<1>6. CountKept(c)
  BY <1>2, <1>5 DEF CountKept
<1>7. /\ entity \in [value : Readings, at : 0 .. now] /\ entity.value = c.value
      /\ \A i \in DOMAIN c.seen : c.seen[i].at <= entity.at
  <2>1. CASE c.seen = <<>>
    <3>1. entity = [value |-> c.value, at |-> StartTime]
      BY <1>1, <2>1
    <3> QED BY <2>1, <3>1, <1>3, <1>4
  <2>2. CASE c.seen # <<>>
    <3>1. Len(c.seen) \in 1 .. Len(c.seen) /\ entity = c.seen[Len(c.seen)]
      BY <1>1, <1>4, <2>2 DEF Last
    <3>2. entity \in Reports /\ entity = Last(c.seen)
      BY <1>4, <3>1 DEF Last
    <3> QED BY <1>2, <1>3, <2>2, <3>2 DEF Reports, Times
  <2> QED BY <2>1, <2>2
<1>8. c.last.at <= StartTime /\ c.enteredAt <= StartTime
  <2>1. c.enteredAt <= StartTime
    BY <1>3, <1>4 DEF NoTime
  <2>2. CASE c.last = NoReport
    BY <2>1, <2>2, <1>3 DEF NoReport, NoTime
  <2>3. CASE c.last # NoReport
    <3>1. c.last.at <= entity.at
      BY <1>2, <1>4, <1>7, <2>3 DEF Contains
    <3>2. c.last.at \in Int
      BY <1>4, <2>3 DEF Reports, Times
    <3> QED BY <2>1, <3>1, <3>2, <1>3, <1>7
  <2> QED BY <2>2, <2>3
<1>9. /\ tracker \in [count : Counts, requested : Readings \ {Invalid}, at : Times]
      /\ tracker.count = c /\ tracker.requested = c.value /\ tracker.at = StartTime
  BY <1>1, <1>3, <1>4, <1>5
<1>10. TrackerKept(tracker)
  BY <1>6, <1>8, <1>9 DEF TrackerKept
<1>11. StartTime <= now
  BY <1>3
<1> QED BY <1>3, <1>7, <1>9, <1>10, <1>11 DEF Heard

LEMMA StaysSpent ==
  ASSUME NEW c, NEW r, NEW d, NEW e,
         Spent(c, r), r \in [value : Readings, at : Times], e \in [value : Readings, at : Times], r.at < e.at,
         \/ d.value = c.value /\ d.last = c.last
         \/ d.value = e.value /\ d.last = e
  PROVE  Spent(d, r)
<1>1. CASE d.value = c.value /\ d.last = c.last
  BY <1>1 DEF Spent, Stale
<1>2. CASE d.value = e.value /\ d.last = e
  <2>1. e # NoReport /\ r.at <= e.at
    BY DEF NoReport, NoTime, Times
  <2> QED BY <1>2, <2>1 DEF Spent, Stale
<1> QED BY <1>1, <1>2

\* What Heard says of a model t, at the present clock and states of the entity.
Hears(t) ==
    /\ TrackerKept(t) /\ t.at <= now
    /\ \A i \in DOMAIN t.count.seen : t.count.seen[i].at <= entity.at
    /\ earlier # NoReport => Spent(t.count, earlier)
    /\ up /\ ran /\ entity.value \in Supported => t.count.value = entity.value

LEMMA HeardStates ==
  ASSUME Heard
  PROVE  /\ now \in Times /\ now \in Nat /\ entity \in [value : Readings, at : Times] /\ entity.at \in 0 .. now
         /\ earlier # NoReport => earlier \in [value : Readings, at : Times] /\ earlier.at < entity.at
         /\ earlier # NoReport => earlier.at <= entity.at
         /\ Hears(tracker) /\ tracker.at \in Times /\ tracker.count.value \in Supported
<1>1. now \in Nat /\ 0 .. now \subseteq Times
  BY CallsAssumption DEF Heard, Times
<1>2. earlier # NoReport => earlier \in [value : Readings, at : Times] /\ earlier.at < entity.at
  BY <1>1 DEF Heard
<1>3. earlier # NoReport => earlier.at <= entity.at
  BY <1>1 DEF Heard
<1>4. tracker.at \in Times /\ tracker.count.value \in Supported
  BY CountParts DEF Heard, TrackerKept
<1> QED BY <1>1, <1>2, <1>3, <1>4 DEF Heard, Hears

\* Synchronizing with the entity keeps what it says in force.
LEMMA SyncedHears ==
  ASSUME Heard, NEW t, Hears(t)
  PROVE  Hears(Synced(t, entity)) /\ Synced(t, entity).at >= t.at
<1> DEFINE u == Synced(t, entity)
<1>0. /\ now \in Nat /\ entity \in [value : Readings, at : Times] /\ entity.at \in 0 .. now
      /\ earlier # NoReport => earlier \in [value : Readings, at : Times] /\ earlier.at < entity.at
  BY HeardStates
<1>1. /\ TrackerKept(u) /\ u.at \in {t.at, entity.at} /\ u.at >= t.at
      /\ \A i \in DOMAIN u.count.seen : u.count.seen[i].at <= entity.at
      /\ \/ u.count.value = t.count.value /\ u.count.last = t.count.last
         \/ u.count.value = entity.value /\ u.count.last = entity
  <2>1. entity.at \in Times /\ entity.at <= entity.at
    BY <1>0
  <2> QED BY <1>0, <2>1, SyncedKept DEF Hears
<1> HIDE DEF u
<1>2. u.at <= now
  BY <1>0, <1>1 DEF Hears
<1>3. earlier # NoReport => Spent(u.count, earlier)
  BY <1>0, <1>1, StaysSpent DEF Hears
<1>4. up /\ ran /\ entity.value \in Supported => u.count.value = entity.value
  BY <1>1 DEF Hears
<1> QED BY <1>1, <1>2, <1>3, <1>4 DEF Hears, u

\* The callback of an earlier state changes nothing that is in force.
LEMMA EarlierHears ==
  ASSUME Heard, earlier # NoReport
  PROVE  Hears(Synced(tracker, earlier)) /\ Synced(tracker, earlier).at >= tracker.at
<1> DEFINE u == Synced(tracker, earlier)
<1>0. /\ now \in Nat /\ entity \in [value : Readings, at : Times] /\ entity.at \in 0 .. now
      /\ earlier \in [value : Readings, at : Times] /\ earlier.at < entity.at /\ earlier.at <= entity.at
      /\ Hears(tracker)
  BY HeardStates
<1>1. /\ TrackerKept(u) /\ u.at \in {tracker.at, earlier.at} /\ u.at >= tracker.at
      /\ \A i \in DOMAIN u.count.seen : u.count.seen[i].at <= entity.at
      /\ \/ u.count.value = tracker.count.value /\ u.count.last = tracker.count.last
         \/ earlier.value \in Supported /\ earlier.value # tracker.count.value /\ ~Stale(tracker.count, earlier)
  BY <1>0, SyncedKept DEF Hears
<1> HIDE DEF u
<1>2. u.count.value = tracker.count.value /\ u.count.last = tracker.count.last
  BY <1>0, <1>1 DEF Hears, Spent
<1>3. u.at <= now
  <2>1. earlier.at \in Nat /\ entity.at \in Nat
    BY <1>0 DEF Times
  <2> QED BY <1>0, <1>1, <2>1 DEF Hears
<1>4. Spent(u.count, earlier)
  BY <1>0, <1>2 DEF Hears, Spent, Stale
<1> QED BY <1>0, <1>1, <1>2, <1>3, <1>4 DEF Hears, u

\* The frontier of the model moves on.
LEMMA AdvancedHears ==
  ASSUME Heard, NEW t, Hears(t), NEW at \in Times, t.at <= at, at <= now
  PROVE  Hears([t EXCEPT !.at = at]) /\ [t EXCEPT !.at = at].at = at
<1> DEFINE u == [t EXCEPT !.at = at]
<1>1. /\ t \in [count : Counts, requested : Readings \ {Invalid}, at : Times]
      /\ t.count.last.at <= t.at /\ t.count.enteredAt <= t.at
  BY DEF Hears, TrackerKept
<1>2. /\ u \in [count : Counts, requested : Readings \ {Invalid}, at : Times]
      /\ u.count = t.count /\ u.requested = t.requested /\ u.at = at
  BY <1>1
<1> HIDE DEF u
<1>3. t.at \in Int /\ at \in Int /\ t.count.last.at \in Int /\ t.count.enteredAt \in Int
  BY <1>1, CountParts DEF Reports, Times, NoReport, NoTime
<1>4. u.count.last.at <= at /\ u.count.enteredAt <= at
  BY <1>1, <1>2, <1>3
<1> QED BY <1>2, <1>4 DEF Hears, TrackerKept, u

\* A loaded entry starts from its stored count, at the present time.
LEMMA StartHears ==
  ASSUME Heard
  PROVE  /\ Hears([tracker EXCEPT !.at = now, !.requested = tracker.count.value])
         /\ [tracker EXCEPT !.at = now, !.requested = tracker.count.value].at = now
<1> DEFINE t == [tracker EXCEPT !.at = now, !.requested = tracker.count.value]
<1>0. now \in Times /\ now \in Nat /\ Hears(tracker) /\ tracker.at \in Nat /\ tracker.at <= now
  BY HeardStates DEF Hears, Times
<1>1. /\ tracker \in [count : Counts, requested : Readings \ {Invalid}, at : Times]
      /\ tracker.count.last.at <= tracker.at /\ tracker.count.enteredAt <= tracker.at
      /\ tracker.count.value \in Supported /\ tracker.count.value \in Readings \ {Invalid}
  BY <1>0, HeardStates DEF Hears, TrackerKept, Supported
<1>2. /\ t \in [count : Counts, requested : Readings \ {Invalid}, at : Times]
      /\ t.count = tracker.count /\ t.requested = tracker.count.value /\ t.at = now
  BY <1>0, <1>1
<1> HIDE DEF t
<1>3. tracker.count.last.at \in Int /\ tracker.count.enteredAt \in Int
  BY <1>1, CountParts DEF Reports, Times, NoReport, NoTime
<1>4. t.count.last.at <= now /\ t.count.enteredAt <= now /\ t.at <= now
  BY <1>0, <1>1, <1>2, <1>3
<1> QED BY <1>0, <1>2, <1>4 DEF Hears, TrackerKept, t

\* A step that leaves the entity and its states alone.
LEMMA HeardKept ==
  ASSUME Heard, Hears(tracker'), UNCHANGED <<now, up, entity, ran, earlier>>
  PROVE  Heard'
<1>1. Hears(tracker)'
  BY DEF Hears
<1> QED BY <1>1 DEF Heard, Hears

\* What the entity newly says is later than all that the model took, so it is taken.
LEMMA HeardChange ==
  ASSUME Heard, ~up => call = NoCall, NEW v \in Readings, CountChanges(v)
  PROVE  Heard'
<1> DEFINE e == [value |-> v, at |-> now]
           c == tracker.count
<1>0. /\ now \in Times /\ now \in Nat /\ entity \in [value : Readings, at : Times] /\ entity.at \in 0 .. now
      /\ earlier # NoReport => earlier \in [value : Readings, at : Times] /\ earlier.at < entity.at
      /\ Hears(tracker)
  BY HeardStates
<1>1. /\ v # entity.value /\ entity.at < now /\ entity' = e
      /\ ran' = Idle /\ earlier' = (IF ran THEN entity ELSE earlier)
      /\ tracker' = (IF up /\ MutationAllowed THEN Synced(tracker, entity') ELSE tracker)
      /\ now' = now /\ up' = up
  BY DEF CountChanges
<1>2. /\ e \in [value : Readings, at : 0 .. now] /\ e \in [value : Readings, at : Times]
      /\ e.at = now /\ e.value = v
  BY <1>0
<1>3. /\ earlier' # NoReport => earlier' \in [value : Readings, at : Times] /\ earlier'.at < e.at
      /\ earlier' \in [value : Readings, at : 0 .. now] \cup {NoReport}
  <2>1. CASE ran
    BY <2>1, <1>0, <1>1, <1>2 DEF Heard
  <2>2. CASE ~ran
    <3>1. earlier' = earlier
      BY <2>2, <1>1
    <3>2. earlier # NoReport => earlier.at < now
      BY <1>0, <1>1 DEF Times
    <3> QED BY <3>1, <3>2, <1>0, <1>2 DEF Heard
  <2> QED BY <2>1, <2>2
<1>4. earlier' # NoReport => Spent(c, earlier')
  <2>1. CASE ran
    <3>1. earlier' = entity /\ (entity.value \in Supported => c.value = entity.value)
      BY <2>1, <1>1 DEF Heard
    <3> QED BY <3>1 DEF Spent
  <2>2. CASE ~ran
    <3>1. earlier' = earlier /\ (earlier # NoReport => Spent(c, earlier))
      BY <2>2, <1>0, <1>1 DEF Hears
    <3> HIDE DEF c
    <3> QED BY <3>1
  <2> QED BY <2>1, <2>2
<1>5. /\ \A i \in DOMAIN c.seen : c.seen[i].at <= now
      /\ ~Contains(c.seen, e) /\ ~Stale(c, e)
  <2>1. c.seen \in Seq(Reports) /\ CountKept(c)
    BY <1>0, CountParts DEF Hears, TrackerKept
  <2>2. \A i \in DOMAIN c.seen : c.seen[i].at < now /\ c.seen[i].at <= now
    <3>1. ASSUME NEW i \in DOMAIN c.seen PROVE c.seen[i].at < now /\ c.seen[i].at <= now
      <4>1. c.seen[i] \in Reports /\ c.seen[i].at <= entity.at
        BY <2>1, <1>0 DEF Hears
      <4>2. c.seen[i].at \in Int /\ entity.at \in Int
        BY <4>1, <1>0 DEF Reports, Times
      <4> QED BY <4>1, <4>2, <1>0, <1>1
    <3> QED BY <3>1
  <2>3. \A x : Contains(c.seen, x) => x.at < now /\ x.at \in Int
    <3>1. ASSUME NEW i \in 1 .. Len(c.seen) PROVE c.seen[i].at < now /\ c.seen[i].at \in Int
      <4>1. i \in DOMAIN c.seen /\ c.seen[i] \in Reports
        BY <2>1
      <4>2. c.seen[i].at \in Int
        BY <4>1 DEF Reports, Times
      <4> QED BY <2>2, <4>1, <4>2
    <3> QED BY <3>1 DEF Contains
  <2>4. ~Contains(c.seen, e)
    BY <2>3, <1>0, <1>2
  <2>5. ~Stale(c, e)
    BY <2>1, <2>3, <1>0, <1>2 DEF Stale, CountKept
  <2> QED BY <2>2, <2>4, <2>5
<1> DEFINE u == Synced(tracker, e)
<1>6. /\ TrackerKept(u) /\ u.at \in {tracker.at, now} /\ u.at >= tracker.at
      /\ \A i \in DOMAIN u.count.seen : u.count.seen[i].at <= now
      /\ \/ u.count.value = c.value /\ u.count.last = c.last
         \/ u.count.value = e.value /\ u.count.last = e
      /\ v \in Supported => u.count.value = v
  <2>1. now <= now /\ now >= tracker.at /\ tracker.at \in Times
    BY <1>0, HeardStates DEF Hears, Times
  <2>2. TrackerKept(tracker)
    BY <1>0 DEF Hears
  <2> HIDE DEF e
  <2> QED BY <1>0, <1>2, <1>5, <2>1, <2>2, SyncedKept
<1> HIDE DEF e
<1>7. CASE up /\ MutationAllowed
  <2>1. tracker' = u
    BY <1>1, <1>7
  <2> HIDE DEF u
  <2>2. u.at <= now
    BY <1>0, <1>6 DEF Hears
  <2>3. earlier' # NoReport => Spent(u.count, earlier')
    BY <1>2, <1>3, <1>4, <1>6, StaysSpent
  <2> QED BY <1>0, <1>1, <1>2, <1>3, <1>6, <1>7, <2>1, <2>2, <2>3 DEF Heard, Idle
<1>8. CASE ~(up /\ MutationAllowed)
  <2>1. tracker' = tracker /\ ~ran'
    BY <1>1, <1>8 DEF Idle, MutationAllowed
  <2>2. ran' \in BOOLEAN
    BY <1>1 DEF Idle
  <2> QED BY <1>0, <1>1, <1>2, <1>3, <1>4, <1>5, <2>1, <2>2 DEF Heard, Hears
<1> QED BY <1>7, <1>8

LEMMA HeardStep == ASSUME Heard, ~up => call = NoCall, [Next]_vars PROVE Heard'
<1>0. /\ now \in Times /\ now \in Nat /\ Hears(tracker) /\ tracker.at \in Times /\ MaxTime \in Nat
      /\ tracker.at \in Nat /\ tracker.at <= now
  BY HeardStates, CallsAssumption DEF Hears, Times
<1>1. Hears(Synced(tracker, entity)) /\ Synced(tracker, entity).at >= tracker.at
  BY <1>0, SyncedHears
<1>2. Synced(tracker, entity).at \in Times /\ Synced(tracker, entity).at <= now
  BY <1>1 DEF Hears, TrackerKept
<1>3. CASE UNCHANGED vars
  BY <1>0, <1>3, HeardKept DEF vars
<1>4. CASE Tick
  <2>1. now' = now + 1 /\ now' \in Times /\ 0 .. now \subseteq 0 .. now'
    BY <1>0, <1>4 DEF Tick, Times
  <2>2. UNCHANGED <<up, entity, ran, earlier, tracker>>
    BY <1>4 DEF Tick
  <2>3. tracker'.at <= now'
    BY <1>0, <2>1, <2>2
  <2>4. /\ entity' \in [value : Readings, at : 0 .. now']
        /\ earlier' \in [value : Readings, at : 0 .. now'] \cup {NoReport}
    BY <2>1, <2>2 DEF Heard
  <2>5. TrackerKept(tracker)' /\ (earlier' # NoReport => Spent(tracker.count, earlier)')
    BY <2>2 DEF Heard
  <2> QED BY <2>1, <2>2, <2>3, <2>4, <2>5 DEF Heard
<1>5. ASSUME NEW v \in Readings, CountChanges(v) PROVE Heard'
  BY <1>5, HeardChange
<1>6. CASE RepeatedReport
  BY <1>6, EarlierHears, HeardKept DEF RepeatedReport
<1>7. ASSUME NEW t \in Times, NEW events \in 0 .. MaxEvents,
             NEW moves \in 0 .. MaxLearned - (learned + pending),
             NEW rows \in Rows(t), Observe(t, rows, moves, events)
      PROVE  Heard'
  <2> DEFINE synced == Synced(tracker, entity)
  <2>1. /\ t <= now /\ tracker' = (IF t < synced.at THEN synced ELSE [synced EXCEPT !.at = t])
        /\ UNCHANGED <<now, up, entity, ran, earlier>>
    BY <1>7 DEF Observe
  <2>2. CASE t < synced.at
    BY <2>1, <2>2, <1>1, HeardKept
  <2>3. CASE ~(t < synced.at)
    <3>1. synced.at <= t
      BY <2>3, <1>2 DEF Times
    <3>2. Hears([synced EXCEPT !.at = t])
      BY <3>1, <2>1, <1>1, AdvancedHears
    <3> QED BY <3>2, <2>1, <2>3, HeardKept
  <2> QED BY <2>2, <2>3
<1>8. CASE ObserveFails
  BY <1>8, <1>1, HeardKept DEF ObserveFails
<1>9. ASSUME NEW raises \in BOOLEAN, Publish(raises) PROVE Heard'
  BY <1>9, <1>0, HeardKept DEF Publish
<1>10. CASE HandOver
  BY <1>10, <1>0, HeardKept DEF HandOver
<1>11. CASE Dispatch
  BY <1>11, <1>0, HeardKept DEF Dispatch
<1>12. CASE Finish
  BY <1>12, <1>0, HeardKept DEF Finish
<1>13. ASSUME NEW syncs \in BOOLEAN, NEW publishes \in BOOLEAN, NEW rows \in Rows(now),
              Timer(syncs, rows, publishes)
       PROVE  Heard'
  <2> DEFINE t == IF syncs THEN Synced(tracker, entity) ELSE tracker
  <2>1. Hears(t) /\ t.at <= now /\ now <= now
    BY <1>0, <1>1, <1>2
  <2>2. tracker' = [t EXCEPT !.at = now] /\ UNCHANGED <<now, up, entity, ran, earlier>>
    BY <1>13 DEF Timer
  <2> HIDE DEF t
  <2> QED BY <2>1, <2>2, <1>0, AdvancedHears, HeardKept
<1>14. CASE Stop
  <2>1. /\ up' = FALSE /\ ran' = FALSE /\ earlier' = NoReport
        /\ UNCHANGED <<now, entity, tracker>>
    BY <1>14 DEF Stop
  <2>2. TrackerKept(tracker)'
    BY <2>1 DEF Heard
  <2> QED BY <2>1, <2>2 DEF Heard
<1>15. CASE Start
  <2> DEFINE t == [tracker EXCEPT !.at = now, !.requested = tracker.count.value]
  <2>1. /\ up' = TRUE /\ ~up /\ ~ran /\ tracker' = Synced(t, entity)
        /\ UNCHANGED <<now, entity, ran, earlier>>
    BY <1>15 DEF Start, Heard
  <2>2. Hears(t)
    BY <2>1, StartHears
  <2> HIDE DEF t
  <2>3. Hears(tracker')
    BY <2>1, <2>2, SyncedHears
  <2>4. TrackerKept(tracker') /\ tracker'.at <= now
    BY <2>3 DEF Hears
  <2> QED BY <2>1, <2>3, <2>4 DEF Heard, Hears
<1> QED BY <1>3, <1>4, <1>5, <1>6, <1>7, <1>8, <1>9, <1>10, <1>11, <1>12, <1>13, <1>14, <1>15 DEF Next

\* The last report the count took is in force in any case; a state that the running
\* entry's callback took is by Heard.
LEMMA HeardNow == Heard => HeardInForce
<1> SUFFICES ASSUME Heard, up, ran \/ tracker.count.last = entity,
                    entity.value # Invalid, entity.value <= MaxOccupants
             PROVE  tracker.count.value = entity.value
  BY DEF HeardInForce
<1>1. entity.value \in Supported /\ entity # NoReport
  <2>1. entity.value \in Readings /\ entity.value \in Nat /\ entity.at \in 0 .. now
    BY ReadingNumber DEF Heard
  <2> QED BY <2>1, ControlAssumption DEF Supported, NoReport, NoTime
<1>2. tracker.count.last # NoReport => tracker.count.last.value = tracker.count.value
  BY DEF Heard, TrackerKept, CountKept
<1> QED BY <1>1, <1>2 DEF Heard

\* No callback runs while the entry is not loaded.
Loaded == ~up => call = NoCall

LEMMA LoadedStep == ASSUME Loaded, [Next]_vars PROVE Loaded'
<1>1. NoCall.stage = "none"
  BY DEF NoCall
<1>2. CASE up
  <2>1. up' = up \/ Stop
    BY <1>2 DEF Next, vars, Tick, CountChanges, RepeatedReport, Observe, ObserveFails, Publish, HandOver,
                Dispatch, Finish, Timer, Start
  <2> QED BY <1>2, <2>1 DEF Loaded, Stop, Idle
<1>3. CASE ~up
  <2>1. call.stage = "none" /\ call = NoCall
    BY <1>1, <1>3 DEF Loaded
  <2>2. call' = call \/ Start
    BY <1>3, <2>1 DEF Next, vars, Tick, CountChanges, RepeatedReport, Observe, ObserveFails, Publish,
                      HandOver, Dispatch, Finish, Timer, Stop, Idle
  <2> QED BY <2>1, <2>2 DEF Loaded, Start
<1> QED BY <1>2, <1>3

\* A supported count that the callback of the running entry took stays in force,
\* whatever reports, observations, timers and subscribers come in between.
THEOREM CountHeard == Spec => []HeardInForce
<1>1. Init => Heard /\ Loaded
  BY HeardInit DEF Init, Loaded
<1>2. Heard /\ Loaded /\ [Next]_vars => Heard' /\ Loaded'
  BY HeardStep, LoadedStep DEF Loaded
<1> QED BY <1>1, <1>2, HeardNow, PTL DEF Spec

(***************************************************************************)
(* The audit log stays within its bounds                                   *)
(***************************************************************************)
RowsUntil(t) == [at : 0 .. t, size : 1 .. AuditRowBytes]

InOrder(rows) ==
    \A i, j \in DOMAIN rows : i < j => rows[i].at <= rows[j].at /\ rows[j].at - rows[i].at < AuditAge

\* A log whose last row is not later than t.
LogKept(rows, t) ==
    /\ rows \in Seq(RowsUntil(t))
    /\ Len(rows) <= AuditRows /\ Bytes(rows) <= AuditBytes
    /\ InOrder(rows)

\* A set of numbers that is not empty has a least one.
LEMMA LeastIn ==
  ASSUME NEW S \in SUBSET Nat, S # {}
  PROVE  /\ (CHOOSE i \in S : \A j \in S : i <= j) \in S
         /\ \A j \in S : (CHOOSE i \in S : \A j1 \in S : i <= j1) <= j
<1>1. PICK i \in S : \A j \in S : ~(<<j, i>> \in OpToRel(<, Nat))
  BY WFMin, NatLessThanWellFounded
<1>2. \A j \in S : i <= j
  <2> SUFFICES ASSUME NEW j \in S, ~(i <= j) PROVE FALSE
    OBVIOUS
  <2>1. i \in Nat /\ j \in Nat /\ j < i
    OBVIOUS
  <2>2. <<j, i>> \in OpToRel(<, Nat)
    BY <2>1 DEF OpToRel
  <2> QED BY <1>1, <2>2
<1> QED BY <1>2

\* The folds over no row and over one.
LEMMA BytesEmpty == Bytes(<<>>) = 0
<1> DEFINE F(f) == [s \in SUBSET {} |-> IF s = {} THEN 0
                     ELSE LET x == Max(s) IN f[s \ {x}] + <<>>[x].size]
           g == [s \in SUBSET {} |-> 0]
           it == CHOOSE f : f = F(f)
<1>1. Bytes(<<>>) = it[{}]
  BY DEF Bytes, FoldLeft, MapThenFoldSet
<1>2. \A s \in SUBSET {} : s = {}
  OBVIOUS
<1>3. g = F(g)
  BY <1>2
<1>4. it = F(it)
  BY <1>3
<1>5. it[{}] = 0
  BY <1>4
<1> QED BY <1>1, <1>5

LEMMA LoggedNone == ASSUME NEW l PROVE LoggedAll(l, <<>>) = l
<1> DEFINE F(f) == [s \in SUBSET {} |-> IF s = {} THEN l
                     ELSE LET x == Max(s) IN Logged(f[s \ {x}], <<>>[x])]
           g == [s \in SUBSET {} |-> l]
           it == CHOOSE f : f = F(f)
<1>1. LoggedAll(l, <<>>) = it[{}]
  BY DEF LoggedAll, FoldLeft, MapThenFoldSet
<1>2. \A s \in SUBSET {} : s = {}
  OBVIOUS
<1>3. g = F(g)
  BY <1>2
<1>4. it = F(it)
  BY <1>3
<1>5. it[{}] = l
  BY <1>4
<1> QED BY <1>1, <1>5

LEMMA LoggedOne == ASSUME NEW l, NEW row PROVE LoggedAll(l, <<row>>) = Logged(l, row)
<1> DEFINE rows == <<row>>
           D == {1}
           F(f) == [s \in SUBSET D |-> IF s = {} THEN l
                     ELSE LET x == Max(s) IN Logged(f[s \ {x}], rows[x])]
           g == [s \in SUBSET D |-> IF s = {} THEN l ELSE Logged(l, row)]
           it == CHOOSE f : f = F(f)
<1>0. DOMAIN rows = D /\ rows[1] = row
  OBVIOUS
<1>1. LoggedAll(l, rows) = it[D]
  <2> HIDE DEF rows
  <2> QED BY <1>0 DEF LoggedAll, FoldLeft, MapThenFoldSet
<1>2. \A s \in SUBSET D : s = {} \/ s = D
  OBVIOUS
<1>3. Max(D) = 1 /\ D \ {1} = {} /\ D # {} /\ {} \in SUBSET D /\ D \in SUBSET D
  BY DEF Max
<1>4. \A f : F(f)[{}] = l /\ F(f)[D] = Logged(f[{}], row)
  BY <1>0, <1>3
<1>5. g = F(g)
  <2>1. g[{}] = l /\ g[D] = Logged(l, row) /\ F(g)[{}] = l /\ F(g)[D] = Logged(l, row)
    BY <1>3, <1>4
  <2>2. g = [s \in SUBSET D |-> g[s]] /\ F(g) = [s \in SUBSET D |-> F(g)[s]]
    OBVIOUS
  <2>3. \A s \in SUBSET D : g[s] = F(g)[s]
    BY <1>2, <2>1
  <2> QED BY <2>2, <2>3
<1>6. it = F(it)
  BY <1>5
<1> HIDE DEF it, F, D
<1>7. it[{}] = l /\ it[D] = Logged(it[{}], row)
  BY <1>4, <1>6
<1> QED BY <1>1, <1>7 DEF D

\* Evicting the oldest rows leaves an end of the log, and one that was asked for.
LEMMA EvictedIsEnd ==
  ASSUME NEW S, NEW l \in Seq(S), NEW ok \in SUBSET (1 .. Len(l))
  PROVE  \/ EvictedTo(l, ok) = <<>>
         \/ \E k \in ok :
               /\ EvictedTo(l, ok) = SubSeq(l, k, Len(l))
               /\ EvictedTo(l, ok) \in Seq(S)
               /\ Len(EvictedTo(l, ok)) = Len(l) - k + 1
               /\ \A i \in 1 .. Len(l) - k + 1 : EvictedTo(l, ok)[i] = l[k + i - 1]
<1>1. CASE ok = {}
  BY <1>1 DEF EvictedTo
<1>2. CASE ok # {}
  <2> DEFINE k == CHOOSE i \in ok : \A j \in ok : i <= j
  <2>1. k \in ok
    <3>1. ok \in SUBSET Nat
      OBVIOUS
    <3> QED BY <1>2, <3>1, LeastIn
  <2>2. EvictedTo(l, ok) = SubSeq(l, k, Len(l))
    BY <1>2 DEF EvictedTo
  <2> HIDE DEF k
  <2>3. k \in Int /\ Len(l) \in Int /\ k <= Len(l) /\ \A i \in k .. Len(l) : l[i] \in S
    BY <2>1
  <2> QED BY <2>1, <2>2, <2>3, SubSeqProperties
<1> QED BY <1>1, <1>2

LEMMA NoneKept == ASSUME NEW t PROVE LogKept(<<>>, t)
<1>1. AuditRows \in Nat /\ AuditBytes \in Nat
  BY ControlAssumption
<1> QED BY <1>1, BytesEmpty DEF LogKept, InOrder

LEMMA RowType ==
  ASSUME NEW t \in Nat, NEW row \in RowsUntil(t)
  PROVE  row.at \in Nat /\ row.at <= t
  BY DEF RowsUntil

\* An end of rows in order is in order.
LEMMA EndInOrder ==
  ASSUME NEW S, NEW l \in Seq(S), InOrder(l), NEW k \in 1 .. Len(l), NEW e \in Seq(S),
         Len(e) = Len(l) - k + 1, \A i \in 1 .. Len(l) - k + 1 : e[i] = l[k + i - 1]
  PROVE  InOrder(e)
<1> SUFFICES ASSUME NEW i \in DOMAIN e, NEW j \in DOMAIN e, i < j
             PROVE  e[i].at <= e[j].at /\ e[j].at - e[i].at < AuditAge
  BY DEF InOrder
<1>1. i \in 1 .. Len(l) - k + 1 /\ j \in 1 .. Len(l) - k + 1
  OBVIOUS
<1>2. k + i - 1 \in DOMAIN l /\ k + j - 1 \in DOMAIN l /\ k + i - 1 < k + j - 1
  BY <1>1
<1> QED BY <1>1, <1>2 DEF InOrder

LEMMA LaterKept ==
  ASSUME NEW t \in Nat, NEW l, LogKept(l, t), NEW u \in Nat, t <= u
  PROVE  LogKept(l, u)
<1>1. RowsUntil(t) \subseteq RowsUntil(u)
  BY DEF RowsUntil
<1>2. l \in Seq(RowsUntil(u))
  BY <1>1 DEF LogKept
<1> QED BY <1>2 DEF LogKept

\* A row that is not earlier than the others comes to them.
LEMMA AppendedInOrder ==
  ASSUME NEW t \in Nat, NEW l \in Seq(RowsUntil(t)), InOrder(l),
         NEW row \in RowsUntil(t), row.at = t, \A i \in 1 .. Len(l) : t - l[i].at < AuditAge
  PROVE  Append(l, row) \in Seq(RowsUntil(t)) /\ InOrder(Append(l, row))
<1> DEFINE a == Append(l, row)
<1>1. /\ a \in Seq(RowsUntil(t)) /\ Len(a) = Len(l) + 1 /\ a[Len(l) + 1] = row
      /\ \A i \in 1 .. Len(l) : a[i] = l[i]
  BY AppendProperties
<1> HIDE DEF a
<1> SUFFICES ASSUME NEW i \in DOMAIN a, NEW j \in DOMAIN a, i < j
             PROVE  a[i].at <= a[j].at /\ a[j].at - a[i].at < AuditAge
  BY <1>1 DEF InOrder, a
<1>2. Len(l) \in Nat /\ i \in 1 .. Len(l) /\ j \in 1 .. Len(l) + 1
  BY <1>1
<1>3. CASE j \in 1 .. Len(l)
  BY <1>1, <1>2, <1>3 DEF InOrder
<1>4. CASE j = Len(l) + 1
  <2>1. l[i] \in RowsUntil(t)
    BY <1>2
  <2> QED BY <1>1, <1>2, <1>4, <2>1, RowType
<1> QED BY <1>2, <1>3, <1>4

\* Logging a row keeps the log within its bounds.
LEMMA LoggedKept ==
  ASSUME NEW t \in Nat, NEW l, LogKept(l, t), NEW row \in [at : {t}, size : Nat \ {0}]
  PROVE  LogKept(Logged(l, row), t)
<1> DEFINE ok == {i \in 1 .. Len(l) : row.at - l[i].at < AuditAge}
           young == EvictedTo(l, ok)
           all == Append(young, row)
           fits == {i \in 1 .. Len(all) : LET kept == SubSeq(all, i, Len(all))
                                          IN  Len(kept) <= AuditRows /\ Bytes(kept) <= AuditBytes}
<1>0. AuditRowBytes \in Nat /\ l \in Seq(RowsUntil(t)) /\ InOrder(l) /\ row.at = t /\ row.size \in Nat \ {0}
  BY ControlAssumption DEF LogKept
<1>1. CASE row.size > AuditRowBytes
  BY <1>1 DEF Logged
<1>2. CASE ~(row.size > AuditRowBytes)
  <2>1. row \in RowsUntil(t)
    BY <1>0, <1>2 DEF RowsUntil
  <2>2. young \in Seq(RowsUntil(t)) /\ InOrder(young) /\ \A i \in 1 .. Len(young) : t - young[i].at < AuditAge
    <3>1. ok \in SUBSET (1 .. Len(l))
      OBVIOUS
    <3>2. CASE young = <<>>
      <4> HIDE DEF young
      <4>1. young \in Seq(RowsUntil(t)) /\ Len(young) = 0 /\ DOMAIN young = {}
        BY <3>2
      <4>2. 1 .. Len(young) = {}
        BY <4>1
      <4> QED BY <4>1, <4>2 DEF InOrder
    <3>3. ASSUME NEW k \in ok, young \in Seq(RowsUntil(t)), Len(young) = Len(l) - k + 1,
                 \A i \in 1 .. Len(l) - k + 1 : young[i] = l[k + i - 1]
          PROVE  InOrder(young) /\ \A i \in 1 .. Len(young) : t - young[i].at < AuditAge
      <4>1. k \in 1 .. Len(l) /\ t - l[k].at < AuditAge
        BY <1>0
      <4> HIDE DEF ok, young
      <4>2. InOrder(young)
        BY <1>0, <3>3, <4>1, EndInOrder
      <4>3. ASSUME NEW i \in 1 .. Len(young) PROVE t - young[i].at < AuditAge
        <5>0. Len(l) \in Nat /\ k + i - 1 \in 1 .. Len(l) /\ young[i] = l[k + i - 1]
          BY <1>0, <3>3, <4>1
        <5>1. l[k].at <= l[k + i - 1].at
          <6>1. CASE i = 1
            BY <6>1, <4>1, <5>0, <1>0, RowType
          <6>2. CASE i # 1
            BY <6>2, <4>1, <5>0, <1>0 DEF InOrder
          <6> QED BY <6>1, <6>2
        <5>2. l[k] \in RowsUntil(t) /\ l[k + i - 1] \in RowsUntil(t)
          BY <4>1, <5>0, <1>0
        <5>3. l[k].at \in Nat /\ l[k + i - 1].at \in Nat /\ AuditAge \in Nat
          BY <5>2, RowType, ControlAssumption
        <5>4. t - l[k + i - 1].at < AuditAge
          <6> DEFINE x == l[k].at
                     y == l[k + i - 1].at
          <6>1. x \in Nat /\ y \in Nat /\ AuditAge \in Nat /\ x <= y /\ t - x < AuditAge
            BY <4>1, <5>1, <5>3
          <6> HIDE DEF x, y
          <6>2. t - y < AuditAge
            BY <6>1
          <6> QED BY <6>2 DEF y
        <5> QED BY <5>0, <5>4
      <4> QED BY <4>2, <4>3
    <3> HIDE DEF ok
    <3>4. \/ young = <<>>
          \/ \E k \in ok :
                /\ young \in Seq(RowsUntil(t)) /\ Len(young) = Len(l) - k + 1
                /\ \A i \in 1 .. Len(l) - k + 1 : young[i] = l[k + i - 1]
      BY <1>0, <3>1, EvictedIsEnd
    <3> HIDE DEF young
    <3> QED BY <3>2, <3>3, <3>4
  <2>3. Logged(l, row) = EvictedTo(all, fits)
    BY <1>2 DEF Logged, Bounded
  <2> HIDE DEF young, ok
  <2>4. all \in Seq(RowsUntil(t)) /\ InOrder(all)
    BY <1>0, <2>1, <2>2, AppendedInOrder
  <2> HIDE DEF all
  <2> DEFINE new == EvictedTo(all, fits)
  <2>5. fits \in SUBSET (1 .. Len(all))
    OBVIOUS
  <2>6. ASSUME NEW k \in fits, new = SubSeq(all, k, Len(all)), new \in Seq(RowsUntil(t)),
               Len(new) = Len(all) - k + 1, \A i \in 1 .. Len(all) - k + 1 : new[i] = all[k + i - 1]
        PROVE  LogKept(new, t)
    <3>1. k \in 1 .. Len(all) /\ Len(new) <= AuditRows /\ Bytes(new) <= AuditBytes
      BY <2>6
    <3> HIDE DEF fits, new
    <3>2. InOrder(new)
      BY <2>4, <2>6, <3>1, EndInOrder
    <3> QED BY <2>6, <3>1, <3>2 DEF LogKept
  <2> HIDE DEF fits
  <2>7. \/ new = <<>>
        \/ \E k \in fits :
              /\ new = SubSeq(all, k, Len(all)) /\ new \in Seq(RowsUntil(t))
              /\ Len(new) = Len(all) - k + 1 /\ \A i \in 1 .. Len(all) - k + 1 : new[i] = all[k + i - 1]
    BY <2>4, <2>5, EvictedIsEnd
  <2> HIDE DEF new
  <2>8. LogKept(new, t)
    BY <2>6, <2>7, NoneKept
  <2> QED BY <2>3, <2>8 DEF new
<1> QED BY <1>1, <1>2

LEMMA LoggedAllKept ==
  ASSUME NEW t \in Nat, NEW l, LogKept(l, t), NEW rows \in Rows(t)
  PROVE  LogKept(LoggedAll(l, rows), t)
<1>1. CASE rows = <<>>
  BY <1>1, LoggedNone
<1>2. CASE rows # <<>>
  <2>1. PICK s \in RowSizes : rows = <<[at |-> t, size |-> s]>>
    BY <1>2 DEF Rows
  <2>2. [at |-> t, size |-> s] \in [at : {t}, size : Nat \ {0}]
    BY CallsAssumption
  <2> QED BY <2>1, <2>2, LoggedOne, LoggedKept
<1> QED BY <1>1, <1>2

(***************************************************************************)
(* What is stored can be restored                                          *)
(***************************************************************************)
\* The queues, the callback that hands them over, and the log they end in.
Queued ==
    /\ pending \in Nat /\ learned \in Nat /\ pending + learned <= MaxLearned
    /\ \/ call \in {NoCall, Dispatching, Finishing}
       \/ call \in PublishCalls /\ call.rows \in Rows(tracker.at) /\ call.prior \in 0 .. pending
    /\ LogKept(log, tracker.at)

LEMMA QueuedInit == Init => Queued
<1> SUFFICES ASSUME Init PROVE Queued
  OBVIOUS
<1>1. log = <<>> /\ pending = 0 /\ learned = 0 /\ call = NoCall /\ MaxLearned \in Nat
  BY CallsAssumption DEF Init
<1>2. LogKept(log, tracker.at)
  BY <1>1, NoneKept
<1> QED BY <1>1, <1>2 DEF Queued

LEMMA QueuedStep == ASSUME Heard, Loaded, Queued, [Next]_vars PROVE Queued'
<1>0. /\ now \in Times /\ now \in Nat /\ Hears(tracker) /\ tracker.at \in Nat /\ tracker.at <= now
      /\ MaxLearned \in Nat /\ MaxEvents \in Nat
  BY HeardStates, CallsAssumption DEF Hears, Times
<1>1. /\ Hears(Synced(tracker, entity)) /\ Synced(tracker, entity).at >= tracker.at
      /\ Synced(tracker, entity).at \in Nat /\ Synced(tracker, entity).at <= now
  <2>1. Hears(Synced(tracker, entity)) /\ Synced(tracker, entity).at >= tracker.at
    BY <1>0, SyncedHears
  <2> QED BY <2>1 DEF Hears, TrackerKept, Times
<1>2. /\ NoCall.stage = "none" /\ Dispatching.stage = "dispatch" /\ Finishing.stage = "finish"
      /\ \A c \in PublishCalls : c.stage = "publish"
  BY DEF NoCall, Dispatching, Finishing, PublishCalls
\* A step of an idle runtime, or of a callback, that only moves the frontier on.
<1>q. ASSUME call' \in {NoCall, Dispatching, Finishing}, UNCHANGED <<pending, learned, log>>,
             tracker'.at \in Nat, tracker.at <= tracker'.at
      PROVE  Queued'
  BY <1>q, <1>0, LaterKept DEF Queued
<1>3. CASE UNCHANGED vars
  BY <1>3 DEF Queued, vars
<1>4. CASE Tick
  BY <1>4, <1>0, <1>q DEF Tick
<1>5. ASSUME NEW v \in Readings, CountChanges(v) PROVE Queued'
  <2>1. CASE Idle
    <3>1. /\ call' = Dispatching /\ UNCHANGED <<pending, learned, log>>
          /\ tracker' = Synced(tracker, entity') /\ entity' = [value |-> v, at |-> now]
      BY <1>5, <2>1 DEF CountChanges, Idle, MutationAllowed
    <3>2. /\ TrackerKept(tracker) /\ \A i \in DOMAIN tracker.count.seen : tracker.count.seen[i].at <= now
      <4>1. ASSUME NEW i \in DOMAIN tracker.count.seen PROVE tracker.count.seen[i].at <= now
        <5>1. tracker.count.seen \in Seq(Reports) /\ tracker.count.seen[i].at <= entity.at
          BY <1>0, CountParts DEF Hears, TrackerKept
        <5>2. tracker.count.seen[i] \in Reports
          BY <5>1
        <5>3. tracker.count.seen[i].at \in Int
          BY <5>2 DEF Reports, Times
        <5> QED BY <5>1, <5>3, <1>0, HeardStates
      <4> QED BY <4>1, <1>0 DEF Hears
    <3>3. entity' \in [value : Readings, at : Times] /\ entity'.at = now /\ now <= now
      BY <3>1, <1>0
    <3>4. tracker'.at \in {tracker.at, now} /\ tracker'.at >= tracker.at
      BY <3>1, <3>2, <3>3, <1>0, SyncedKept
    <3> QED BY <3>1, <3>4, <1>0, <1>q
  <2>2. CASE ~Idle
    <3>1. UNCHANGED <<call, pending, learned, log, tracker>>
      BY <1>5, <2>2 DEF CountChanges, Idle, MutationAllowed
    <3> QED BY <3>1 DEF Queued
  <2> QED BY <2>1, <2>2
<1>6. CASE RepeatedReport
  <2>1. Hears(tracker') /\ tracker'.at >= tracker.at
    BY <1>6, EarlierHears DEF RepeatedReport
  <2>2. tracker'.at \in Nat
    BY <2>1 DEF Hears, TrackerKept, Times
  <2> QED BY <1>6, <1>0, <2>1, <2>2, <1>q DEF RepeatedReport
<1>7. ASSUME NEW t \in Times, NEW events \in 0 .. MaxEvents,
             NEW moves \in 0 .. MaxLearned - (learned + pending),
             NEW rows \in Rows(t), Observe(t, rows, moves, events)
      PROVE  Queued'
  <2> DEFINE synced == Synced(tracker, entity)
  <2>0. t \in Nat
    BY DEF Times
  <2>1. PICK folds \in BOOLEAN :
           call' = [stage |-> "publish", left |-> events, rows |-> rows,
                    prior |-> IF folds THEN pending ELSE 0, failed |-> FALSE]
    BY <1>7 DEF Observe
  <2>2. /\ tracker' = (IF t < synced.at THEN synced ELSE [synced EXCEPT !.at = t])
        /\ t < synced.at => rows = <<>>
        /\ pending' = pending + moves /\ UNCHANGED <<log, learned>>
    BY <1>7 DEF Observe
  <2>3. tracker'.at \in Nat /\ tracker'.at >= tracker.at /\ rows \in Rows(tracker'.at)
    <3>1. CASE t < synced.at
      BY <3>1, <2>2, <1>1 DEF Rows
    <3>2. CASE ~(t < synced.at)
      <4>1. synced.at <= t /\ t <= now
        BY <3>2, <2>0, <1>1, <1>7 DEF Observe
      <4>2. [synced EXCEPT !.at = t].at = t
        BY <4>1, <1>1, AdvancedHears
      <4> QED BY <3>2, <4>1, <4>2, <2>0, <2>2, <1>0, <1>1
    <3> QED BY <3>1, <3>2
  <2>4. pending' \in Nat /\ pending' + learned' <= MaxLearned /\ learned' \in Nat
    BY <2>2, <1>0 DEF Queued
  <2>5. call' \in PublishCalls
    <3>1. pending \in Int /\ events \in Int /\ rows \in UNION {Rows(u) : u \in Times}
      BY <1>0 DEF Queued
    <3>2. (IF folds THEN pending ELSE 0) \in Int
      BY <3>1
    <3> QED BY <2>1, <3>1, <3>2 DEF PublishCalls
  <2>6. call'.rows = rows /\ call'.prior \in 0 .. pending'
    BY <2>1, <2>2, <1>0 DEF Queued
  <2>7. LogKept(log, tracker.at)'
    BY <2>2, <2>3, <1>0, LaterKept DEF Queued
  <2> QED BY <2>3, <2>4, <2>5, <2>6, <2>7 DEF Queued
<1>8. CASE ObserveFails
  BY <1>8, <1>1, <1>q DEF ObserveFails
<1>9. ASSUME NEW raises \in BOOLEAN, Publish(raises) PROVE Queued'
  <2>1. call \in PublishCalls /\ UNCHANGED <<tracker, log, pending, learned>>
    BY <1>9, <1>2 DEF Publish, Queued
  <2> QED BY <1>9, <1>2, <2>1, PublishShape DEF Queued
<1>10. CASE HandOver
  <2>1. call \in PublishCalls /\ call.rows \in Rows(tracker.at) /\ call.prior \in 0 .. pending
    BY <1>10, <1>2 DEF HandOver, Queued
  <2>2. /\ log' = LoggedAll(log, call.rows) /\ tracker' = tracker
        /\ learned' = learned + call.prior /\ pending' = pending - call.prior
        /\ call' \in {NoCall, Dispatching, Finishing}
    BY <1>10 DEF HandOver, Handed, Remaining
  <2>3. LogKept(log, tracker.at)'
    BY <2>1, <2>2, <1>0, LoggedAllKept DEF Queued
  <2>4. pending' \in Nat /\ learned' \in Nat /\ pending' + learned' <= MaxLearned
    BY <2>1, <2>2, <1>0 DEF Queued
  <2> QED BY <2>2, <2>3, <2>4 DEF Queued
<1>11. CASE Dispatch
  BY <1>11, <1>0, <1>q DEF Dispatch
<1>12. CASE Finish
  <2>1. /\ call' = NoCall /\ UNCHANGED <<tracker, log>>
        /\ \/ learned' = learned + pending /\ pending' = pending - pending
           \/ UNCHANGED <<learned, pending>>
    BY <1>12 DEF Finish, Remaining
  <2>2. pending' \in Nat /\ learned' \in Nat /\ pending' + learned' <= MaxLearned
    BY <2>1, <1>0 DEF Queued
  <2> QED BY <2>1, <2>2 DEF Queued
<1>13. ASSUME NEW syncs \in BOOLEAN, NEW publishes \in BOOLEAN, NEW rows \in Rows(now),
              Timer(syncs, rows, publishes)
       PROVE  Queued'
  <2> DEFINE t == IF syncs THEN Synced(tracker, entity) ELSE tracker
  <2>1. Hears(t) /\ t.at <= now /\ now <= now
    BY <1>0, <1>1
  <2>2. /\ tracker' = [t EXCEPT !.at = now] /\ UNCHANGED <<pending, learned>>
        /\ log' = LoggedAll(log, rows) /\ call' \in {NoCall, Dispatching, Finishing}
    BY <1>13 DEF Timer
  <2> HIDE DEF t
  <2>3. tracker'.at = now
    BY <2>1, <2>2, <1>0, AdvancedHears
  <2>4. LogKept(log, now)
    BY <1>0, LaterKept DEF Queued
  <2>5. LogKept(log, tracker.at)'
    BY <2>2, <2>3, <2>4, <1>0, LoggedAllKept
  <2> QED BY <2>2, <2>5 DEF Queued
<1>14. CASE Stop
  <2>1. call' = NoCall /\ UNCHANGED <<tracker, log>> /\ learned' = learned + pending /\ pending' = 0
    BY <1>14 DEF Stop, Idle
  <2> QED BY <2>1, <1>0 DEF Queued
<1>15. CASE Start
  <2> DEFINE t == [tracker EXCEPT !.at = now, !.requested = tracker.count.value]
  <2>1. /\ call' = Dispatching /\ tracker' = Synced(t, entity) /\ UNCHANGED <<pending, learned, log>>
    BY <1>15 DEF Start
  <2>2. Hears(t) /\ t.at = now
    BY <1>0, StartHears
  <2> HIDE DEF t
  <2>3. Hears(tracker') /\ tracker'.at >= now
    BY <2>1, <2>2, SyncedHears
  <2>4. tracker'.at \in Nat
    BY <2>3 DEF Hears, TrackerKept, Times
  <2> QED BY <2>1, <2>3, <2>4, <1>0, <1>q
<1> QED BY <1>3, <1>4, <1>5, <1>6, <1>7, <1>8, <1>9, <1>10, <1>11, <1>12, <1>13, <1>14, <1>15 DEF Next

LEMMA RestorableNow == Heard /\ Loaded /\ Queued => Restorable
<1> SUFFICES ASSUME Heard, Queued PROVE Restorable
  OBVIOUS
<1>1. /\ tracker.count \in Counts /\ CountKept(tracker.count) /\ tracker.at \in Nat
      /\ tracker.at \in 0 .. now /\ now \in Times /\ now \in Nat
      /\ tracker.requested \in Readings \ {Invalid}
    BY HeardStates DEF Heard, TrackerKept, Times
<1>2. /\ tracker.count.value \in 0 .. MaxOccupants
      /\ tracker.count.last \in Reports \cup {NoReport}
  BY <1>1, CountParts DEF Supported
<1>3. pending \in 0 .. MaxLearned /\ learned \in 0 .. MaxLearned
  BY CallsAssumption DEF Queued
<1>4. call.stage \in {"none", "publish", "dispatch", "finish"}
  BY DEF Queued, NoCall, Dispatching, Finishing, PublishCalls
<1>5. /\ log \in Seq([at : 0 .. tracker.at, size : 1 .. AuditRowBytes])
      /\ Len(log) <= AuditRows /\ Bytes(log) <= AuditBytes
      /\ \A i, j \in DOMAIN log :
            i < j => log[i].at <= log[j].at /\ log[j].at - log[i].at < AuditAge
  BY DEF Queued, LogKept, InOrder, RowsUntil
<1>6. TypeOK
  <2>1. /\ now \in Times /\ {up, ran} \subseteq BOOLEAN
        /\ entity \in [value : Readings, at : 0 .. now]
        /\ earlier \in [value : Readings, at : 0 .. now] \cup {NoReport}
    BY DEF Heard
  <2> QED BY <1>1, <1>2, <1>3, <1>4, <1>5, <2>1 DEF TypeOK
<1>7. /\ tracker.count.last.at <= tracker.at /\ tracker.count.enteredAt <= tracker.at
      /\ tracker.count.last # NoReport => Contains(tracker.count.seen, tracker.count.last)
      /\ Len(tracker.count.seen) <= SeenLimit
      /\ \A i, j \in DOMAIN tracker.count.seen : tracker.count.seen[i] = tracker.count.seen[j] => i = j
      /\ tracker.count.enteredAt # NoTime => tracker.count.value > 0
  BY <1>1 DEF Heard, TrackerKept, CountKept
<1> QED BY <1>6, <1>7 DEF Restorable

\* Whatever was stored between two callbacks can be restored, and the audit log is
\* within its limits of rows, bytes and age.
THEOREM CountRestorable == Spec => []Restorable
<1>1. Init => Heard /\ Loaded /\ Queued
  BY HeardInit, QueuedInit DEF Init, Loaded
<1>2. Heard /\ Loaded /\ Queued /\ [Next]_vars => Heard' /\ Loaded' /\ Queued'
  BY HeardStep, LoadedStep, QueuedStep DEF Loaded
<1> QED BY <1>1, <1>2, RestorableNow, PTL DEF Spec
=============================================================================
