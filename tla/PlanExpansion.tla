---------------------------- MODULE PlanExpansion ----------------------------
(***************************************************************************)
(* expand (scheduler/graph.py): Kahn's algorithm turns the units of a spec *)
(* into the plan the orchestrator runs, or refuses a spec whose            *)
(* dependencies form a cycle.  The spec, chosen in Init, is any one        *)
(* ScheduleSpec accepts: dependencies on known units, never on itself.     *)
(***************************************************************************)
EXTENDS Integers, Sequences, FiniteSets

CONSTANTS
    Keys,           \* the unit keys of the spec
    KeyRank,        \* key -> its position in the alphabetical order
    Priorities      \* the priorities units may have

ASSUME KeysAssumption ==
    /\ IsFiniteSet(Keys) /\ Keys # {}
    /\ KeyRank \in [Keys -> Int]
    /\ \A k, l \in Keys : k # l => KeyRank[k] # KeyRank[l]
    /\ Priorities \subseteq Int

VARIABLES
    deps, priority,     \* the spec: UnitDef.depends_on and UnitDef.priority
    indegree,           \* dependencies of a key that are not ordered yet
    available,          \* the list of keys with none left, sorted before each use
    ordered,            \* the plan so far
    phase,              \* "ordering", then "expanded" or "refused"
    named               \* the keys a refusal names

spec == <<deps, priority>>
planVars == <<deps, priority, indegree, available, ordered, phase, named>>

Placed == {ordered[i] : i \in DOMAIN ordered}

\* Type invariant.
PlanTypeOK ==
    /\ deps \in [Keys -> SUBSET Keys] /\ priority \in [Keys -> Priorities]
    /\ indegree \in [Keys -> Nat] /\ available \subseteq Keys /\ ordered \in Seq(Keys)
    /\ phase \in {"ordering", "expanded", "refused"} /\ named \subseteq Keys

PlanInit ==
    /\ deps \in [Keys -> SUBSET Keys]
    /\ \A k \in Keys : k \notin deps[k]
    /\ priority \in [Keys -> Priorities]
    /\ indegree = [k \in Keys |-> Cardinality(deps[k])]
    /\ available = {k \in Keys : indegree[k] = 0}
    /\ ordered = <<>> /\ phase = "ordering" /\ named = {}

\* The sort key (-priority, key).
Before(k, l) ==
    \/ priority[k] > priority[l]
    \/ priority[k] = priority[l] /\ KeyRank[k] < KeyRank[l]

ReleasedEarly(k) == {l \in Keys : k \in deps[l] /\ indegree[l] \in 1 .. 2}

\* The dependents of k whose last dependency it is.
Released(k) == {l \in Keys : k \in deps[l] /\ indegree[l] = 1}

\* One turn of the loop: the first available key is placed, its dependents are
\* one dependency closer.
Place ==
    /\ phase = "ordering"
    /\ \E k \in available :
          /\ \A l \in available \ {k} : Before(k, l)
          /\ ordered' = Append(ordered, k)
          /\ indegree' = [l \in Keys |-> IF k \in deps[l] THEN indegree[l] - 1 ELSE indegree[l]]
          /\ available' = (available \ {k}) \cup Released(k)
    /\ UNCHANGED <<spec, phase, named>>

PlacedSome == ordered # <<>>

\* len(ordered) == len(spec.units)
PlacedAll == Len(ordered) = Cardinality(Keys)

Expand ==
    /\ phase = "ordering" /\ available = {} /\ PlacedAll
    /\ phase' = "expanded"
    /\ UNCHANGED <<spec, indegree, available, ordered, named>>

\* SchedulerRefusal, naming every key that could not be placed.
Refuse ==
    /\ phase = "ordering" /\ available = {} /\ ~PlacedAll
    /\ phase' = "refused" /\ named' = Keys \ Placed
    /\ UNCHANGED <<spec, indegree, available, ordered>>

PlanNext == Place \/ Expand \/ Refuse

PlanSpec == PlanInit /\ [][PlanNext]_planVars

-----------------------------------------------------------------------------
\* What is placed at position i comes after all it depends on.
DepsBefore(i) == deps[ordered[i]] \subseteq {ordered[j] : j \in 1 .. i - 1}

\* No unit enters the plan before its dependencies, nor twice; an expanded plan
\* has all of them (materialize resolves the ids of dependencies in this order).
PlanIsTopological ==
    /\ \A i \in DOMAIN ordered : DepsBefore(i)
    /\ \A i, j \in DOMAIN ordered : i # j => ordered[i] # ordered[j]
    /\ phase = "expanded" => Placed = Keys

\* The keys that could stand at position i, whatever indegree and available say.
Eligible(i) ==
    LET earlier == {ordered[j] : j \in 1 .. i - 1}
    IN  {k \in Keys \ earlier : deps[k] \subseteq earlier}

\* The tie-break: every position holds the eligible unit of highest priority,
\* and of those the first by key, so that equal specs have equal plans.
BestFirst ==
    \A i \in DOMAIN ordered : \A k \in Eligible(i) \ {ordered[i]} :
        \/ priority[ordered[i]] > priority[k]
        \/ priority[ordered[i]] = priority[k] /\ KeyRank[ordered[i]] < KeyRank[k]

\* The plan is the one plan of the spec: after its dependencies, and of the units
\* that may come next always the first.
PlanOrdered == PlanIsTopological /\ BestFirst

\* A nonempty set of keys that each depend on another of the set: none can ever start.
Knot(S) == S # {} /\ \A k \in S : deps[k] \cap S # {}

\* A spec is refused exactly when it has a cycle, and what the refusal names is
\* the largest set of units that wait on one another.
RefusedIffCyclic ==
    /\ phase = "refused" => /\ Knot(named)
                           /\ \A S \in SUBSET Keys : Knot(S) => S \subseteq named
    /\ phase = "expanded" => \A S \in SUBSET Keys : ~Knot(S)

\* What expand promises for every spec: a plan in the one order its priorities and keys allow, or a refusal
\* that is right and says which units are in the way.
ExpansionSound == PlanOrdered /\ RefusedIffCyclic

\* The inductive invariant of the loop: indegree counts the dependencies still to
\* place, and available holds exactly the keys that have none left.
PlanInv ==
    /\ PlanTypeOK
    /\ \A i \in DOMAIN ordered : DepsBefore(i)
    /\ \A i, j \in DOMAIN ordered : i # j => ordered[i] # ordered[j]
    /\ Cardinality(Placed) = Len(ordered)
    /\ \A k \in Keys : indegree[k] = Cardinality(deps[k] \ Placed)
    /\ available = {k \in Keys \ Placed : deps[k] \subseteq Placed}
    /\ phase # "ordering" => available = {}
    /\ phase = "expanded" => Placed = Keys
    /\ phase = "refused" => (named = Keys \ Placed /\ named # {})
=============================================================================
