------------------------- MODULE MCDurableRegistry -------------------------
(* Instances of DurableRegistry for TLC.                                     *)
EXTENDS DurableRegistry, TLC

CONSTANTS c1, p, a, b

AtMostOne == {ds \in SUBSET Id : Cardinality(ds) <= 1}

Symmetry == Permutations(Id)

Plain == [scope |-> "pair", left_kinds |-> Kind, right_kinds |-> Kind, priority |-> 0,
          kind |-> "Default", outcome |-> "Compatible", required |-> {c1},
          any_of |-> {}, incompatible_with |-> <<>>, conditions |-> {}]

OneBody == {Plain}

OneRequest == {<<a, b, "pair">>}

\* c1 holds when p is on the left, and is not known otherwise.
Judge == [pair \in (Kind \X Payload) \X (Kind \X Payload) |->
             [c \in Constraint |-> IF pair[1][2] = p THEN "holds" ELSE "unknown"]]
=============================================================================
