---------------------------- MODULE CountControl -----------------------------
(***************************************************************************)
(* zone_model/count.py, CountContext: the last valid occupant count and    *)
(* the reports it came from; and the audit log of zone_model/policy.py.    *)
(* A report is the count entity's value and the time it last changed,      *)
(* from which the runtime makes the event identifier.  The runtime sends   *)
(* only available reports of supported values, so the "unavailable" and    *)
(* "invalid" dispositions never come up.                                   *)
(***************************************************************************)
EXTENDS Integers, Sequences, SequencesExt

CONSTANTS
    MaxOccupants,  \* PRODUCT_MAX_OCCUPANTS
    SeenLimit,     \* SEEN_EVENT_LIMIT
    AuditAge,      \* AUDIT_MAX_AGE
    AuditRows,     \* AUDIT_ENTRY_LIMIT
    AuditBytes,    \* AUDIT_BYTE_LIMIT
    AuditRowBytes  \* AUDIT_MAX_ROW_BYTES

ASSUME ControlAssumption ==
    /\ {MaxOccupants, SeenLimit, AuditAge, AuditRows, AuditBytes, AuditRowBytes} \subseteq Nat \ {0}
    /\ SeenLimit > 1
    /\ AuditRowBytes <= AuditBytes

NoTime == -1
NoReport == [value |-> NoTime, at |-> NoTime]

LastOf(s, n) == SubSeq(s, IF Len(s) > n THEN Len(s) - n + 1 ELSE 1, Len(s))

(***************************************************************************)
(* The count                                                               *)
(***************************************************************************)
\* CountState: last stands for last_event_at and last_event_id, enteredAt for
\* positive_transition_at, from which positive_transition_until is derived.
Counted(n) == [value |-> n, last |-> NoReport, enteredAt |-> NoTime, seen |-> <<>>]

\* Mutant: the accepted identifier is forgotten like any other.
MutAppended(c, r) == LastOf(Append(c.seen, r), SeenLimit)

\* _append_seen: the accepted identifier is kept whatever came after it.
Appended(c, r) ==
    LET recent == LastOf(Append(c.seen, r), SeenLimit)
    IN  IF c.last = NoReport \/ Contains(recent, c.last) THEN recent
        ELSE <<c.last>> \o LastOf(recent, SeenLimit - 1)

Stale(c, r) == c.last # NoReport /\ r.at <= c.last.at

Disposition(c, r) ==
    CASE Contains(c.seen, r) -> "duplicate"
      [] ~Contains(c.seen, r) /\ Stale(c, r) -> "stale"
      [] ~Contains(c.seen, r) /\ ~Stale(c, r) /\ r.value = c.value -> "duplicate"
      [] OTHER -> "accepted"

\* observe
Counting(c, r) ==
    LET d == Disposition(c, r)
        seen == IF Contains(c.seen, r) THEN c.seen ELSE Appended(c, r)
    IN  IF d = "accepted"
        THEN [value |-> r.value, last |-> r, seen |-> Appended(c, r),
              enteredAt |-> IF c.value = 0 THEN r.at ELSE NoTime]
        ELSE [c EXCEPT !.seen = seen]

(***************************************************************************)
(* The audit log                                                           *)
(***************************************************************************)
Bytes(log) == FoldLeft(LAMBDA sum, row : sum + row.size, 0, log)

\* What is left of the log when its oldest rows go until the first one in ok comes.
EvictedTo(log, ok) ==
    IF ok = {} THEN <<>> ELSE SubSeq(log, CHOOSE i \in ok : \A j \in ok : i <= j, Len(log))

\* Mutant: one row more is kept.
MutBounded(log) == LastOf(log, AuditRows + 1)

\* The longest end of the log within the row and byte limits.
Bounded(log) ==
    EvictedTo(log, {i \in 1 .. Len(log) : LET kept == SubSeq(log, i, Len(log))
                                          IN  Len(kept) <= AuditRows /\ Bytes(kept) <= AuditBytes})

\* append: rows too old for the new one go first, then those over the limits.
Logged(log, row) ==
    IF row.size > AuditRowBytes THEN log
    ELSE Bounded(Append(EvictedTo(log, {i \in 1 .. Len(log) : row.at - log[i].at < AuditAge}), row))

\* flush_deferred
LoggedAll(log, rows) == FoldLeft(Logged, log, rows)
=============================================================================
