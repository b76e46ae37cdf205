----------------------------- MODULE SchemaOrder -----------------------------
(***************************************************************************)
(* The orders in which schemas can stand in a file so that each comes      *)
(* after those it depends on, as far as cycles allow.  The dependencies    *)
(* are a function from each name to the names it depends on.               *)
(***************************************************************************)
EXTENDS Integers, FiniteSets, Functions

\* What n depends on, directly or not: the least set that holds the dependencies of
\* n and those of its own members.
Closed(deps, names) == \A n \in names : deps[n] \subseteq names
Reach(deps, n) ==
    {m \in DOMAIN deps :
        \A names \in SUBSET DOMAIN deps :
            deps[n] \subseteq names /\ Closed(deps, names) => m \in names}

\* The listings of a set.
Orderings(names) == Bijection(1 .. Cardinality(names), names)

\* A dependency comes first, unless it leads back.
DependenciesFirst(deps, sorted) ==
    \A i, j \in DOMAIN sorted :
        sorted[j] \in deps[sorted[i]] /\ sorted[i] \notin Reach(deps, sorted[j]) => j < i

TopologicalOrders(deps) ==
    {sorted \in Orderings(DOMAIN deps) : DependenciesFirst(deps, sorted)}
=============================================================================
