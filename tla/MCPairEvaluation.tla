-------------------------- MODULE MCPairEvaluation --------------------------
(* Libraries of rules for TLC.  Constraints are model values; a rule that    *)
(* leaves a list empty takes it from Plain.                                  *)
EXTENDS PairEvaluation, TLC

CONSTANTS c1, c2, c3

Plain == [rule_id |-> 1, priority |-> 0, kind |-> "Default", outcome |-> "Compatible",
          required |-> {}, any_of |-> {}, incompatible_with |-> <<>>, conditions |-> {}]

\* Rules of every kind over three constraints, on three priorities, so that
\* each outcome can be above and below each other.
Mixed ==
    { Plain,
      [Plain EXCEPT !.rule_id = 2, !.priority = 1, !.required = {c1, c2}],
      [Plain EXCEPT !.rule_id = 3, !.priority = 1, !.any_of = {c2, c3},
                    !.incompatible_with = <<c1>>],
      [Plain EXCEPT !.rule_id = 4, !.kind = "Conditional", !.conditions = {c1, c3},
                    !.required = {c2}],
      [Plain EXCEPT !.rule_id = 5, !.kind = "Adaptation", !.any_of = {c1}],
      [Plain EXCEPT !.rule_id = 6, !.kind = "ExplicitIncompat", !.required = {c3}],
      [Plain EXCEPT !.rule_id = 7, !.priority = 2, !.incompatible_with = <<c2, c1>>,
                    !.required = {c3}],
      [Plain EXCEPT !.rule_id = 8, !.priority = 2, !.outcome = "Incompatible",
                    !.any_of = {c1, c2}],
      [Plain EXCEPT !.rule_id = 9, !.priority = 2, !.kind = "Conditional",
                    !.outcome = "Incompatible", !.conditions = {c2}],
      [Plain EXCEPT !.rule_id = 10, !.outcome = "Unknown", !.incompatible_with = <<c3>>] }
=============================================================================
