-------------------------- MODULE DependencyGraph --------------------------
(***************************************************************************)
(* The dependency graph of the compatibility registry: the operators that  *)
(* registry.cpp applies to its two adjacency maps, deps_ (identity to the  *)
(* identities it depends on) and reverse_ (identity to its dependents).    *)
(*                                                                         *)
(* A map is a total function from Id to sets of Id; an identity the code's *)
(* map does not hold is mapped to {}.  The vectors of the code are sets.   *)
(* Their order and their duplicates show in one place only, the test of    *)
(* register_profile and supersede_profile for a call that says nothing     *)
(* new: callers are taken to write a set of dependencies in one way.       *)
(*                                                                         *)
(* The module declares no RECURSIVE operator: a cycle and a closure are    *)
(* defined by quantifying over sets of identities.  CycleSearch.tla shows  *)
(* that the depth-first search of the code decides HasCycle.               *)
(***************************************************************************)
CONSTANT Id

Graph == [Id -> SUBSET Id]

EmptyGraph == [x \in Id |-> {}]

\* A non-empty set of identities each of which has a successor in the set.
\* Id is finite in the code, so such a set exists exactly when g has a cycle.
IsCore(g, S) == S # {} /\ \A x \in S : g[x] \cap S # {}

HasCycle(g) == \E S \in SUBSET Id : IsCore(g, S)

\* Fault: a self dependency counts as a cycle.
CreateCycleSelf(g, id, ds) == HasCycle([g EXCEPT ![id] = @ \cup ds])

\* What create_cycle answers: the graph WITH the edges id has now, and the
\* prospective ones, a self edge left out.
CreateCycle(g, id, ds) == HasCycle([g EXCEPT ![id] = @ \cup (ds \ {id})])

\* The graph add_dependency leaves: the edges of id replaced.
ReplaceEdges(g, id, ds) == [g EXCEPT ![id] = ds \ {id}]

\* The reverse index without id under the targets in old.
DropReverse(r, id, old) == [d \in Id |-> IF d \in old THEN r[d] \ {id} ELSE r[d]]

\* Fault: the entries of the former edges stay.
AppendReverse(r, id, old, ds) ==
    [d \in Id |-> IF d \in ds \ {id} THEN r[d] \cup {id} ELSE r[d]]

\* The reverse index after add_dependency: the entries of id's former
\* targets dropped, those of its new targets added.
ReplaceReverse(r, id, old, ds) ==
    LET dropped == DropReverse(r, id, old)
    IN  [d \in Id |-> IF d \in ds \ {id} THEN dropped[d] \cup {id} ELSE dropped[d]]

\* The least set that holds id and is closed under the edges of g.
Closure(g, id) ==
    {x \in Id : \A S \in SUBSET Id :
        (id \in S /\ \A y \in S : g[y] \subseteq S) => x \in S}
=============================================================================
