--------------------------- MODULE RuleEvaluation ---------------------------
(***************************************************************************)
(* The rule evaluator of the registry: eval_rule, which evaluates one rule *)
(* for a pair of profiles, and the part of evaluate_locked that orders the *)
(* applicable rules and chooses the decision among their results           *)
(* (src/compat/registry.cpp:339-523).                                      *)
(*                                                                         *)
(* A constraint, evaluated on a pair, holds, fails, or is unknown, when a  *)
(* field it names is absent (constraint_known): ev is the function from    *)
(* constraints to these verdicts that a pair of payloads determines.  A    *)
(* constraint also stands for the field it would list as missing.          *)
(*                                                                         *)
(* The lists required, any_of and conditions are sets, as the order of     *)
(* their evaluation shows only in the texts of the decision.  The order of *)
(* incompatible_with matters: the first clause that holds ends the loop.   *)
(***************************************************************************)
EXTENDS Integers, Sequences

CONSTANT Constraint

Verdict == {"holds", "fails", "unknown"}

Evidence == [Constraint -> Verdict]

\* The kinds eval_rule tells apart; every other RuleKind is "Default".
RuleKind == {"Default", "Conditional", "Adaptation", "ExplicitIncompat"}

Outcome == {"Exact", "Compatible", "CompatibleWithAdaptation", "Conditional",
            "Incompatible", "Unknown", "InsufficientEvidence"}

Rule == [rule_id : Nat \ {0}, priority : Int, kind : RuleKind, outcome : Outcome,
         required : SUBSET Constraint, any_of : SUBSET Constraint,
         incompatible_with : Seq(Constraint), conditions : SUBSET Constraint]

With(verdict, S, ev) == {c \in S : ev[c] = verdict}

-----------------------------------------------------------------------------
(* One rule.                                                               *)

VetoHolds(rule, ev) ==
    \E i \in DOMAIN rule.incompatible_with : ev[rule.incompatible_with[i]] = "holds"

\* The unknown clauses the loop over incompatible_with passes on its way to
\* the first clause that holds, or to the end.
SkippedVetoes(rule, ev) ==
    LET veto == rule.incompatible_with
    IN  {veto[i] : i \in {j \in DOMAIN veto :
            ev[veto[j]] = "unknown" /\ \A k \in 1 .. j : ev[veto[k]] # "holds"}}

RequiredHold(rule, ev) == rule.required = With("holds", rule.required, ev)

AlternativeHolds(rule, ev) ==
    rule.any_of = {} \/ With("holds", rule.any_of, ev) # {}

\* What the switch on the kind of the rule yields.
KindOutcome(rule, ev) ==
    CASE rule.kind = "Conditional" ->
             IF rule.conditions = With("holds", rule.conditions, ev)
             THEN rule.outcome ELSE "Conditional"
      [] rule.kind = "Adaptation" -> "CompatibleWithAdaptation"
      [] rule.kind = "ExplicitIncompat" -> "Incompatible"
      [] OTHER -> rule.outcome

UnknownConditions(rule, ev) ==
    IF rule.kind = "Conditional" THEN With("unknown", rule.conditions, ev) ELSE {}

Result(outcome, missing, listed) ==
    [outcome |-> outcome, missing |-> missing, missing_evidence |-> listed]

\* Fault: a rule that lacks evidence makes way for the rules below it.
RequiredResultYields(rule, ev) ==
    LET absent == SkippedVetoes(rule, ev) \cup With("unknown", rule.required, ev)
    IN  Result("Unknown", absent # {}, absent)

\* A required constraint fails or is unknown.  Every constraint of the list is
\* tried, so an unknown one counts even beside one that fails.
RequiredResult(rule, ev) ==
    LET absent == SkippedVetoes(rule, ev) \cup With("unknown", rule.required, ev)
    IN  Result(IF absent # {} THEN "InsufficientEvidence" ELSE "Unknown",
               absent # {}, absent)

\* Fault: an alternative that is unknown counts as one that fails.
AlternativesResultFail(rule, ev) ==
    Result("Unknown", SkippedVetoes(rule, ev) # {}, SkippedVetoes(rule, ev))

\* No alternative holds.  The unknown ones are not listed.
AlternativesResult(rule, ev) ==
    LET untested == With("unknown", rule.any_of, ev)
        skipped  == SkippedVetoes(rule, ev)
    IN  Result(IF untested # {} THEN "InsufficientEvidence" ELSE "Unknown",
               (skipped \cup untested) # {}, skipped)

KindResult(rule, ev) ==
    LET listed == SkippedVetoes(rule, ev) \cup UnknownConditions(rule, ev)
    IN  Result(KindOutcome(rule, ev), listed # {}, listed)

\* eval_rule.  A result that is not definite has the outcome Unknown here: its
\* caller treats the two alike.
EvalRule(rule, ev) ==
    IF VetoHolds(rule, ev)
    THEN Result("Incompatible", SkippedVetoes(rule, ev) # {}, SkippedVetoes(rule, ev))
    ELSE IF ~RequiredHold(rule, ev) THEN RequiredResult(rule, ev)
    ELSE IF ~AlternativeHolds(rule, ev) THEN AlternativesResult(rule, ev)
    ELSE KindResult(rule, ev)

-----------------------------------------------------------------------------
(* The rules that apply to a pair.                                         *)

\* Fault: the priorities are sorted in ascending order.
BeforeAscending(a, b) == \/ a.priority < b.priority
                         \/ a.priority = b.priority /\ a.rule_id < b.rule_id

\* The order of std::sort over the candidates.
Before(a, b) == \/ a.priority > b.priority
                \/ a.priority = b.priority /\ a.rule_id < b.rule_id

First(rules) == CHOOSE r \in rules : \A q \in rules \ {r} : Before(r, q)

Definite(rules, ev) == {r \in rules : EvalRule(r, ev).outcome # "Unknown"}

\* Fault: without a definite result the answer is Unknown.
NoDefiniteUnknown(rules, ev) == "Unknown"

NoDefiniteOutcome(rules, ev) ==
    IF \E r \in rules : EvalRule(r, ev).missing THEN "InsufficientEvidence" ELSE "Unknown"

\* The decision for a pair whose fingerprints differ: the first definite
\* result.  Without one the first rule is named (0 when there is none) and the
\* outcome says whether some rule lacked evidence.
Decide(rules, ev) ==
    LET definite == Definite(rules, ev)
        best     == First(definite)
        result   == EvalRule(best, ev)
    IN  IF definite # {}
        THEN [outcome |-> result.outcome, rule_id |-> best.rule_id,
              missing_evidence |-> result.missing_evidence]
        ELSE [outcome |-> NoDefiniteOutcome(rules, ev),
              rule_id |-> IF rules = {} THEN 0 ELSE First(rules).rule_id,
              missing_evidence |-> {}]
=============================================================================
