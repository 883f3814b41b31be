-------------------------- MODULE EpisodeContract --------------------------
(***************************************************************************)
(* What the belief, traversal and policy layers rely on in the facts that  *)
(* PhysicalEpisodes returns: an episode is begun by exactly one fact, at   *)
(* the time of the call; only the current, still open episode is reported  *)
(* clear, at a time not reported before; an episode that was closed opens  *)
(* again, without a new fact, only while the hardware could not re-arm.    *)
(***************************************************************************)
EXTENDS Integers, FiniteSets

CONSTANTS
    Nodes,
    Hold    \* [Nodes -> Nat]: hardware_hold_interval

VARIABLES
    episode,    \* episode[n]: how many episodes n has begun
    open,       \* open[n]: the current one is asserted or waits for its clear
    startedAt,  \* startedAt[n]: when it began
    frontier,   \* frontier[n]: the time of the last call
    facts       \* facts[n]: begin and clear facts of the last call

Begins == {"positive", "correlated_positive", "interaction"}
BeginFacts(n) == {f \in facts'[n] : f.kind \in Begins}
ClearFacts(n) == {f \in facts'[n] : f.kind = "stable_clear"}

Init ==
    /\ episode = [n \in Nodes |-> 0]
    /\ open = [n \in Nodes |-> FALSE]
    /\ startedAt = [n \in Nodes |-> -1]
    /\ frontier = [n \in Nodes |-> -1]
    /\ facts = [n \in Nodes |-> {}]

Begin(n) ==
    /\ Cardinality(BeginFacts(n)) = 1
    /\ episode'[n] = episode[n] + 1
    /\ open'[n]
    /\ startedAt'[n] = frontier'[n]
    /\ \A f \in BeginFacts(n) : f.generation = episode'[n] /\ f.at = frontier'[n]

Continue(n) ==
    /\ BeginFacts(n) = {}
    /\ UNCHANGED <<episode[n], startedAt[n]>>
    /\ open'[n] /\ (~open[n] \/ ClearFacts(n) # {}) =>
          episode[n] > 0 /\ frontier'[n] < startedAt[n] + Hold[n]

ReportClear(n) ==
    /\ Cardinality(ClearFacts(n)) <= 1
    /\ \A f \in ClearFacts(n) :
          /\ open[n] /\ f.generation = episode[n]
          /\ frontier[n] < f.at /\ f.at <= frontier'[n]

Call ==
    \A n \in Nodes :
        /\ frontier'[n] >= frontier[n]
        /\ ReportClear(n)
        /\ Begin(n) \/ Continue(n)

vars == <<episode, open, startedAt, frontier, facts>>
Spec == Init /\ [][Call]_vars
=============================================================================
