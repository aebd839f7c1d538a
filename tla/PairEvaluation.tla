--------------------------- MODULE PairEvaluation ---------------------------
(***************************************************************************)
(* One pair of profiles over time, as evaluate_pair sees it: rules that    *)
(* apply to the pair come and go, and its profiles are superseded by ones  *)
(* that say more, less or something else.  What the evaluator promises is  *)
(* about the evidence it does not have: which answers more evidence may    *)
(* still change, and which it may not.                                     *)
(***************************************************************************)
EXTENDS RuleEvaluation, FiniteSets

CONSTANTS Library,    \* the rules that may be registered, each with its id
          MaxRules    \* bound on the rules active at once

ASSUME LibraryAssumption ==
    /\ Library \subseteq Rule
    /\ \A a, b \in Library : a.rule_id = b.rule_id => a = b

ASSUME FiniteLibraryAssumption == IsFiniteSet(Library)

VARIABLES active,     \* the active rules of rules_ that apply to the pair
          evidence    \* the verdict of each constraint on the two payloads

pairVars == <<active, evidence>>

Init == active = {} /\ evidence = [c \in Constraint |-> "unknown"]

RegisterRule(r) ==
    /\ r \notin active /\ Cardinality(active) < MaxRules
    /\ active' = active \cup {r}
    /\ UNCHANGED evidence

DisableRule(r) ==
    /\ r \in active
    /\ active' = active \ {r}
    /\ UNCHANGED evidence

\* supersede_profile on either side.
SupersedeProfile(ev) ==
    /\ ev # evidence
    /\ evidence' = ev
    /\ UNCHANGED active

Next == \/ \E r \in Library : RegisterRule(r) \/ DisableRule(r)
        \/ \E ev \in Evidence : SupersedeProfile(ev)

Spec == Init /\ [][Next]_pairVars

-----------------------------------------------------------------------------

TypeOK == active \subseteq Library /\ evidence \in Evidence

decision == Decide(active, evidence)

\* The evidence that agrees with ev on what ev knows.
Extensions(ev) ==
    {w \in Evidence : \A c \in Constraint : ev[c] # "unknown" => w[c] = ev[c]}

\* When no rule lacks evidence the decision is final: evidence on the fields
\* that are absent changes neither the outcome nor the rule that governs.
CompleteEvaluationIsFinal ==
    (\A r \in active : ~EvalRule(r, evidence).missing)
        => \A w \in Extensions(evidence) : Decide(active, w) = decision

\* Unknown is not another word for InsufficientEvidence: it is answered only
\* when no evidence that is still absent could give another answer.
UnknownIsConclusive ==
    decision.outcome = "Unknown"
        => \A w \in Extensions(evidence) : Decide(active, w).outcome = "Unknown"

\* More evidence never turns an Incompatible pair into anything else,
\* whichever rule said so and whatever the rules above it still lack.
IncompatibleIsFinal ==
    decision.outcome = "Incompatible"
        => \A w \in Extensions(evidence) : Decide(active, w).outcome = "Incompatible"

\* A rule of lower priority than the one that decides has no say.
LowerPriorityHasNoSay ==
    \A r \in Library \ active :
        (\E best \in Definite(active, evidence) :
              best.rule_id = decision.rule_id /\ best.priority > r.priority)
            => Decide(active \cup {r}, evidence) = decision

\* "Missing evidence never becomes implicit compatibility" (README.md:36): a
\* pair is not called compatible while evidence that is absent could make it
\* Incompatible.  The code refutes it: an incompatible_with clause whose field
\* is absent is passed over.
MissingEvidenceNeverPositive ==
    decision.outcome \in {"Compatible", "CompatibleWithAdaptation"}
        => \A w \in Extensions(evidence) : Decide(active, w).outcome # "Incompatible"

=============================================================================
