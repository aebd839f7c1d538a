----------------------------- MODULE MCProfiles -----------------------------
(* Instance of Profiles for TLC: the identities and the payloads are         *)
(* interchangeable, so each is a symmetry set.                               *)
EXTENDS Profiles, FiniteSets, TLC

\* At most one dependency, possibly the identity itself: chains and cycles
\* through all the identities, and a smaller state space than SUBSET Id.
AtMostOne == {ds \in SUBSET Id : Cardinality(ds) <= 1}

Symmetry == Permutations(Id) \cup Permutations(Payload)
=============================================================================
