------------------------------ MODULE Frontier ------------------------------
(***************************************************************************)
(* zone_model/traversal.py beside the selected paths, as engine.py calls   *)
(* the two: the frontier keeps a token for a generation it authorized and  *)
(* a pending candidate for one it could not.  It is asked only when the    *)
(* paths do not explain a positive, and the engine takes from it what the  *)
(* ledger of the paths has accounted for.                                  *)
(*                                                                         *)
(* A token is live before its deadline and retained, for a flap to reopen, *)
(* until the trust in its assertion ends; it is current while its sensor   *)
(* is on.  The uses, paths and confidence of tokens decide nothing here:   *)
(* they matter once a token authorizes another, which TokensSeedNothing    *)
(* rules out, and with it the supports that only such tokens create.       *)
(***************************************************************************)
EXTENDS SelectedPaths

CONSTANTS
    EntryNodes,  \* nodes whose profile has the entry role
    Window,      \* traversal_context_window
    Trust,       \* assertion_trust_horizon
    Bootstrap,   \* track_bootstrap_window
    Boundary     \* ENTRY_BOUNDARY.traversal_context_window

ASSUME FrontierAssumption ==
    /\ EntryNodes \subseteq Nodes \ InteractionNodes
    /\ Window \in Nat \ {0} /\ Trust \in Nat /\ Trust >= Window
    /\ Bootstrap \in Nat \ {0} /\ Boundary \in Nat \ {0}

VARIABLES
    tokens,      \* live and retained tokens
    candidates,  \* pending acquisition candidates
    countAt,     \* when the count last changed
    risen        \* that change ended an empty house

frontier == <<tokens, candidates, countAt, risen>>

FrontierInit == Init /\ tokens = {} /\ candidates = {} /\ countAt = NoTime /\ risen = FALSE

Without(records, nodes) == {r \in records : r.node \notin nodes}
Live(ts, t) == {k \in ts : t < k.until}
TrustEnd(k) == k.at + Trust

\* advance: a retained token ends with the trust in its assertion.
Aged(ts, t) == {k \in ts : t < TrustEnd(k)}

\* Mutant: a candidate outlasts its window.
MutOpen(cs, t) == {c \in cs : t <= c.until}

\* A candidate waits for the length of its window.
Open(cs, t) == {c \in cs : t < c.until}

\* Mutant: what the ledger accounted for keeps its tokens and candidates.
MutRetiredNodes(ps, srcs) == {}

\* _coverage_changed: accounted for by the ledger and located by no path.
RetiredNodes(ps, srcs) == {n \in Nodes : srcs[n].consumed} \ CoveredNodes(ps)

(***************************************************************************)
(* Authorization                                                           *)
(***************************************************************************)
Token(v) == [node |-> v.node, gen |-> v.gen, at |-> v.at, until |-> v.at + Window]
Candidate(v) == [node |-> v.node, gen |-> v.gen, at |-> v.at, until |-> v.at + Bootstrap]

\* A record of another node in the zone of the target, or next to it.
Beside(r, target) == r.node # target.node /\ Step(r.node, target.node)

TokenSupports(target, ts) == \E k \in Live(ts, now) : Beside(k, target)

\* _boundary_authorized: somebody just came to an empty house.
AtBoundary(n) == n \in EntryNodes /\ count > 0 /\ risen /\ now < countAt + Boundary

\* The earliest candidate that supports the target; it becomes a token.
Lent(target, ts, cs) ==
    LET near == {c \in cs : Beside(c, target)}
    IN  IF TokenSupports(target, ts) \/ (target.kind = "positive" /\ AtBoundary(target.node))
        THEN {}
        ELSE {c \in near : \A d \in near : c.at <= d.at}

\* _authorize_from_context: by tokens, at the boundary, or by a candidate.
Authorizes(target, ts, cs) ==
    \/ TokenSupports(target, ts)
    \/ target.kind = "positive" /\ AtBoundary(target.node)
    \/ Lent(target, ts, cs) # {}

(***************************************************************************)
(* The calls                                                               *)
(***************************************************************************)
\* The tokens and candidates left at the end of a call.
Leave(ts, cs) ==
    /\ tokens' = Without(ts, RetiredNodes(paths', sources'))
    /\ candidates' = Without(cs, RetiredNodes(paths', sources'))

Keep == Leave(tokens, candidates) /\ UNCHANGED <<countAt, risen>>

\* Mutant: the visit that a path goes on from keeps its token.
MutSpentNodes(target) == {target.node}

\* A selected target and the visit it continues end what stands for them.
SpentNodes(target) ==
    LET routes == {p.route : p \in {q \in paths' : Id(Endpoint(q)) = Id(target)}}
        before == {r[Len(r) - 1] : r \in {q \in routes : Len(q) > 1}}
    IN  {target.node} \cup {v.node : v \in {u \in before : SameGeneration(u, phys')}}

Selected(target) ==
    Leave(Without(tokens, SpentNodes(target)), Without(candidates, SpentNodes(target)))

\* authorize, adopt and issue; a positive without support becomes a candidate.
Answered(target, ts, cs) ==
    LET authorized == Authorizes(target, ts, cs)
        lent == Lent(target, ts, cs)
        ordinary == target.kind = "positive"
        elsewhere == {c \in cs \ lent : Zone[c.node] # Zone[target.node]}
    IN  Leave(ts \cup {Token(c) : c \in lent}
                 \cup (IF authorized /\ ordinary THEN {Token(target)} ELSE {}),
              (IF authorized \/ ordinary THEN elsewhere ELSE cs)
                 \cup (IF ordinary /\ ~authorized THEN {Candidate(target)} ELSE {}))

\* What the paths alone make of a target they do not explain.
RetiredFirst(target, after) ==
    RetiredNodes(Reconciled(paths, after),
                 ReconciledSources(Recorded(sources, target, FALSE), after))

Asked(n, s) ==
    LET target == Visit(n, s, Kind(n, s))
        first == RetiredFirst(target, [phys EXCEPT ![n] = s])
        ts == Without(tokens, first)
        cs == Without(candidates, first)
    IN  /\ count > 0 /\ ~Explained(paths, sources, target, phys)
        /\ ObserveEffect(n, s, Authorizes(target, ts, cs))
        /\ Answered(target, ts, cs)
        /\ UNCHANGED <<countAt, risen>>

NotAsked(n, s) ==
    LET target == Visit(n, s, Kind(n, s))
    IN  /\ count > 0 /\ Explained(paths, sources, target, phys)
        /\ ObserveEffect(n, s, FALSE)
        /\ Selected(target)
        /\ UNCHANGED <<countAt, risen>>

\* _observe_empty_house
EmptyHouse(n, s) ==
    /\ count = 0 /\ ObserveEffect(n, s, FALSE)
    /\ Leave({}, {}) /\ UNCHANGED <<countAt, risen>>

Observation(n, s) == Asked(n, s) \/ NotAsked(n, s) \/ EmptyHouse(n, s)

FrontierPress(n) == CanPress(n, phys[n], now) /\ Observation(n, Pressed(phys[n], now))
FrontierPositive(n) ==
    CanStart(n, phys[n], now) /\ Observation(n, Started(n, phys[n], now, FALSE))
FrontierCorrelated(n) ==
    /\ CanStart(n, phys[n], now) /\ CanLink(n, phys[n])
    /\ Observation(n, Started(n, phys[n], now, TRUE))

ReopenedToken(k) ==
    [k EXCEPT !.until = IF now + Window <= TrustEnd(k) THEN now + Window ELSE TrustEnd(k)]

\* reopen_authorized_continuity: a flap after the hold reopens a retained token.
Reopens(k, n) ==
    /\ k.node = n /\ k.gen = phys[n].gen /\ k.until <= now
    /\ phys[n].at + Hold[n] <= now /\ now < phys[n].at + Trust
FrontierReopen(n) ==
    /\ Reopen(n)
    /\ Leave({IF Reopens(k, n) THEN ReopenedToken(k) ELSE k : k \in tokens}, candidates)
    /\ UNCHANGED <<countAt, risen>>

\* sync invalidates what stands for a sensor that fails.
FrontierLose(n) ==
    /\ Lose(n) /\ Leave(Without(tokens, {n}), Without(candidates, {n}))
    /\ UNCHANGED <<countAt, risen>>

\* The nodes whose levels are not those that were saved.
ChangedNodes == {n \in Nodes : phys'[n] # phys[n]}

FrontierStartup ==
    /\ Startup
    /\ Leave(Without(tokens, ChangedNodes), Without(candidates, ChangedNodes))
    /\ UNCHANGED <<countAt, risen>>

FrontierAdvance(settled) ==
    /\ Advance(settled)
    /\ Leave(Aged(tokens, now'), Open(candidates, now'))
    /\ UNCHANGED <<countAt, risen>>

\* A report no later than the one in force is stale.
FrontierCount(k) ==
    /\ countAt < now /\ SetCount(k)
    /\ countAt' = now /\ risen' = (count = 0)
    /\ Leave(IF k = 0 THEN {} ELSE tokens, IF k = 0 THEN {} ELSE candidates)

FrontierNext ==
    \/ \E n \in Nodes :
          \/ FrontierPress(n) \/ FrontierPositive(n) \/ FrontierCorrelated(n)
          \/ (Release(n) \/ Return(n)) /\ Keep
          \/ FrontierReopen(n) \/ FrontierLose(n)
    \/ FrontierStartup
    \/ \E settled \in SUBSET Nodes : FrontierAdvance(settled)
    \/ \E k \in 0 .. MaxCount : FrontierCount(k)

FrontierSpec == FrontierInit /\ [][FrontierNext]_<<vars, frontier>>

(***************************************************************************)
(* Properties                                                              *)
(***************************************************************************)
\* A token is bound to a generation of its node, and to its windows.
TokenOK(k) ==
    /\ k.node \in Nodes \ InteractionNodes /\ k.gen \in 1 .. phys[k.node].gen
    /\ now < TrustEnd(k) /\ k.at <= now /\ k.until \in k.at + 1 .. TrustEnd(k)
    /\ k.gen = phys[k.node].gen => k.at = phys[k.node].at
    /\ k.gen < phys[k.node].gen => k.at < phys[k.node].at

\* A candidate is the current generation of a sensor that works.
CandidateOK(c) ==
    /\ c.gen = phys[c.node].gen /\ c.at = phys[c.node].at /\ now < c.until
    /\ phys[c.node].status # "unavailable"

\* Whatever came before, the validation of a snapshot accepts the frontier that
\* is saved: validate_tokens and validate_current_pending_uses raise on none of
\* its records, and no record stands twice.
FrontierRestorable ==
    /\ \A k \in tokens : TokenOK(k)
    /\ \A j, k \in tokens : j.node = k.node /\ j.gen = k.gen => j = k
    /\ \A c \in candidates : CandidateOK(c)
    /\ \A c, d \in candidates : Zone[c.node] = Zone[d.node] => c = d

\* Whatever the calls, the engine can load the paths and the frontier that it
\* saves, and no constructor of theirs has raised in the middle of a call.
SnapshotRestorable == Restorable /\ FrontierRestorable

\* The frontier and the paths never hold two authorities for one observation:
\* what a token stands for is where a path locates its occupant, and what a
\* candidate stands for is still a pending origin of the ledger.
OneAuthority ==
    /\ \A k \in tokens :
          \E p \in paths : \E v \in Coverage(p) : Id(v) = <<k.node, k.gen>>
    /\ \A c \in candidates : Pending(sources[c.node]) /\ sources[c.node].gen = c.gen

Located(v) == \E p \in paths : \E u \in Occurrences(p) : Id(u) = Id(v)

\* The authority of a generation that a path left behind seeds no other path:
\* a positive alone begins a path only at an entry, soon after the count rose
\* from zero.
TokensSeedNothing ==
    [][\A q \in paths' :
          Len(q.visits) = 1 /\ Endpoint(q).kind = "positive" /\ ~Located(Endpoint(q)) =>
              AtBoundary(Endpoint(q).node)]_<<vars, frontier>>
=============================================================================
