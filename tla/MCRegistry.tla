----------------------------- MODULE MCRegistry -----------------------------
(* Instances of Registry for TLC: two payloads p and q that the rules can    *)
(* tell apart, and rules of both scopes.                                     *)
EXTENDS Registry, TLC

CONSTANTS c1, p, a, b

None == {{}}

\* A profile that depends on a, or on b: a cycle as soon as both depend on
\* the other, a self dependency when one names itself.
EachOther == {{a}, {b}}

Plain == [scope |-> "pair", left_kinds |-> Kind, right_kinds |-> Kind, priority |-> 0,
          kind |-> "Default", outcome |-> "Compatible", required |-> {c1},
          any_of |-> {}, incompatible_with |-> <<>>, conditions |-> {}]

\* A rule that asks for c1, and a rule for requirements that vetoes it.
Bodies == { Plain,
            [Plain EXCEPT !.scope = "requirement", !.required = {},
                          !.incompatible_with = <<c1>>] }

OneWay == {<<a, b, "pair">>, <<a, b, "requirement">>}

\* c1 holds when p is on the left, and is not known when q is.
Judge == [pair \in (Kind \X Payload) \X (Kind \X Payload) |->
             [c \in Constraint |-> IF pair[1][2] = p THEN "holds" ELSE "unknown"]]
=============================================================================
