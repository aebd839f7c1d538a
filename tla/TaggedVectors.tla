--------------------------- MODULE TaggedVectors ---------------------------
(***************************************************************************)
(* Vectors of records with a tag, in the order of the tags: the form of    *)
(* Canon::Record (canonical.hpp) and of CapabilitySet::caps_               *)
(* (capability.hpp).                                                       *)
(***************************************************************************)
EXTENDS Integers, Sequences

\* std::lower_bound among the n elements from position first on: the first
\* position of a tag not below t.
Bisection(v, t) ==
    LET search[n \in 0 .. Len(v)] ==
            [first \in 1 .. Len(v) + 1 |->
                LET half == n \div 2
                IN  IF n = 0 THEN first
                    ELSE IF v[first + half].tag < t
                         THEN search[n - half - 1][first + half + 1]
                         ELSE search[half][first]]
    IN  search

\* In the whole vector; one past the end when there is none.
LowerBound(v, t) == Bisection(v, t)[Len(v)][1]
=============================================================================
