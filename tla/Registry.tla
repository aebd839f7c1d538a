------------------------------ MODULE Registry ------------------------------
(***************************************************************************)
(* The whole CompatibilityRegistry in memory: the profile lifecycle of     *)
(* Profiles.tla together with the rules, the evidence store, the policy,   *)
(* and the evaluations with their cache of decisions                       *)
(* (src/compat/registry.cpp:249-321, 430-568 and 697-713).                 *)
(*                                                                         *)
(* issued is a history variable: every decision a caller was given, with   *)
(* the scope it was asked for.  The code does not keep it.                 *)
(***************************************************************************)
EXTENDS RuleEvaluation, FiniteSets

CONSTANTS Id, Kind, Payload, DependencySets, MaxRegistryGen,   \* of Profiles.tla
          RuleId,            \* ids of rules, ordered as numbers
          RuleBody,          \* what a rule may say
          CallerGeneration,  \* the generation callers put in a rule, 0 for none
          Judgement,         \* the verdicts a pair of contents determines
          Policy,            \* ids of policies
          ZeroPolicy,        \* policy_id_ of a registry nobody set a policy for
          EvidenceId,        \* ids of evidence records
          SourceGeneration,  \* source_generation of evidence records
          Request,           \* the evaluations callers ask for
          MaxIssued          \* bound on the decisions issued

VARIABLES profiles, deps, reverse, invalidations, registryGen, \* of Profiles.tla
          rules,       \* rules_: a function on the ids it holds
          ruleGen,     \* rule_gen_
          policy,      \* policy_id_
          evidence,    \* evidence_: the source generation by id
          decisions,   \* decisions_
          issued

P == INSTANCE Profiles

profileVars  == <<profiles, deps, reverse, invalidations, registryGen>>
ruleVars     == <<rules, ruleGen>>
decisionVars == <<decisions, issued>>
registryVars == <<profileVars, ruleVars, policy, evidence, decisionVars>>

Scope == {"pair", "requirement"}

Body == [scope : Scope, left_kinds : SUBSET Kind, right_kinds : SUBSET Kind,
         priority : Int, kind : RuleKind, outcome : Outcome,
         required : SUBSET Constraint, any_of : SUBSET Constraint,
         incompatible_with : Seq(Constraint), conditions : SUBSET Constraint]

ASSUME RuleConstantsAssumption ==
    /\ RuleId \subseteq Nat \ {0} /\ RuleBody \subseteq Body
    /\ CallerGeneration \subseteq Nat /\ SourceGeneration \subseteq Nat
    /\ Request \subseteq Id \X Id \X Scope
    /\ Judgement \in [(Kind \X Payload) \X (Kind \X Payload) -> Evidence]

\* Ids are 128-bit numbers.
ASSUME FiniteRuleIdAssumption == IsFiniteSet(RuleId)

ASSUME ProfileConstantsAssumption ==
    DependencySets \subseteq SUBSET Id /\ MaxRegistryGen \in Nat

RuleRecord == [body : RuleBody, generation : Nat, active : BOOLEAN]

-----------------------------------------------------------------------------
(* Evaluation.                                                             *)

Zero == <<>>   \* the id of a decision evaluate_locked returns early

NoDecision(left, right) ==
    [decision_id |-> Zero, left |-> left, right |-> right, outcome |-> "Unknown",
     rule_id |-> 0, rule_generation |-> 0, policy_id |-> policy,
     registry_generation |-> registryGen, missing_evidence |-> {}]

\* The active rules of the scope whose kinds admit the two records.
Candidates(scope, l, r) ==
    {[rule_id |-> i, priority |-> rules[i].body.priority, kind |-> rules[i].body.kind,
      outcome |-> rules[i].body.outcome, required |-> rules[i].body.required,
      any_of |-> rules[i].body.any_of, conditions |-> rules[i].body.conditions,
      incompatible_with |-> rules[i].body.incompatible_with] :
        i \in {j \in DOMAIN rules :
                 /\ rules[j].active /\ rules[j].body.scope = scope
                 /\ l.content.kind \in rules[j].body.left_kinds
                 /\ r.content.kind \in rules[j].body.right_kinds}}

\* The record find_profile answers for an identity that resolves.
Resolved(hist) == CHOOSE rec \in P!NewestActive(hist) : TRUE

View(rec) == <<rec.content.kind, rec.content.payload>>

\* The decision the rules give for two records whose fingerprints differ.
RuleDecision(left, right, l, r, scope) ==
    LET verdict == Decide(Candidates(scope, l, r), Judgement[<<View(l), View(r)>>])
    IN  [decision_id |-> <<left, right, registryGen, scope, policy>>,
         left |-> left, right |-> right, outcome |-> verdict.outcome,
         rule_id |-> verdict.rule_id,
         rule_generation |-> IF verdict.rule_id = 0 THEN 0
                             ELSE rules[verdict.rule_id].generation,
         policy_id |-> policy, registry_generation |-> registryGen,
         missing_evidence |-> verdict.missing_evidence]

Unresolved(id) == P!NewestActive(profiles[id]) = {}

\* evaluate_locked.  A pair that does not resolve, and a pair of equal
\* fingerprints, is decided before the rules are looked at.
Evaluate(left, right, scope) ==
    LET l == Resolved(profiles[left])
        r == Resolved(profiles[right])
    IN  IF Unresolved(left) \/ Unresolved(right) THEN NoDecision(left, right)
        ELSE IF l.content.payload = r.content.payload
        THEN [NoDecision(left, right) EXCEPT !.outcome = "Exact"]
        ELSE RuleDecision(left, right, l, r, scope)

\* compute_digest: everything but the id.  (The digest also covers the lists
\* of satisfied and failed constraints, which the rule and the pair fix.)
Digest(d) == [d EXCEPT !.decision_id = Zero]

\* decisions_[digest] = d
Cached(cache, d) == {e \in cache : Digest(e) # Digest(d)} \cup {d}

\* find_decision and replay_decision answer one of these, none when there is
\* none: the scan is over an unordered map.
Replay(id) == {d \in decisions : d.decision_id = id}

-----------------------------------------------------------------------------

Init == /\ P!Init
        /\ rules = [i \in {} |-> {}]
        /\ ruleGen = 0
        /\ policy = ZeroPolicy
        /\ evidence = [e \in {} |-> 0]
        /\ decisions = {}
        /\ issued = {}

ProfileStep == P!ProfileCall /\ UNCHANGED <<ruleVars, policy, evidence, decisionVars>>

Held(i) == i \in DOMAIN rules

Put(i, rec) == [j \in DOMAIN rules \cup {i} |-> IF j = i THEN rec ELSE rules[j]]

StoreRule(i, body, generation) ==
    rules' = Put(i, [body |-> body, generation |-> generation, active |-> TRUE])

\* register_rule: a rule that comes without a generation continues that of
\* the active rule it replaces, or takes the next one of the registry.
RegisterRule(i, body, generation) ==
    LET continues == Held(i) /\ rules[i].active
    IN  /\ P!OtherMutation
        /\ ruleGen' = IF generation = 0 /\ ~continues THEN ruleGen + 1 ELSE ruleGen
        /\ StoreRule(i, body, IF generation # 0 THEN generation
                              ELSE IF continues THEN rules[i].generation + 1
                              ELSE ruleGen + 1)
        /\ UNCHANGED <<policy, evidence, decisionVars>>

\* Fault: the registry generation stays.
SupersedeRuleSilently(i, body) ==
    /\ Held(i)
    /\ StoreRule(i, body, rules[i].generation + 1)
    /\ UNCHANGED <<profileVars, ruleGen, policy, evidence, decisionVars>>

SupersedeRule(i, body) ==
    /\ Held(i)
    /\ P!OtherMutation
    /\ StoreRule(i, body, rules[i].generation + 1)
    /\ UNCHANGED <<ruleGen, policy, evidence, decisionVars>>

\* Fault: the registry generation stays.
DisableRuleSilently(i) ==
    /\ Held(i)
    /\ rules' = [rules EXCEPT ![i].active = FALSE]
    /\ UNCHANGED <<profileVars, ruleGen, policy, evidence, decisionVars>>

DisableRule(i) ==
    /\ Held(i)
    /\ P!OtherMutation
    /\ rules' = [rules EXCEPT ![i].active = FALSE]
    /\ UNCHANGED <<ruleGen, policy, evidence, decisionVars>>

SetPolicy(p) ==
    /\ P!OtherMutation
    /\ policy' = p
    /\ UNCHANGED <<ruleVars, evidence, decisionVars>>

\* register_evidence: the record under the id is overwritten.
RegisterEvidence(e, generation) ==
    /\ P!OtherMutation
    /\ evidence' = [f \in DOMAIN evidence \cup {e} |->
                       IF f = e THEN generation ELSE evidence[f]]
    /\ UNCHANGED <<ruleVars, policy, decisionVars>>

\* evaluate_pair and evaluate_requirement.
EvaluateAndCache(left, right, scope) ==
    LET d == Evaluate(left, right, scope)
    IN  /\ Cardinality(issued \cup {<<scope, d>>}) <= MaxIssued
        /\ decisions' = Cached(decisions, d)
        /\ issued' = issued \cup {<<scope, d>>}
        /\ UNCHANGED <<profileVars, ruleVars, policy, evidence>>

Next == \/ ProfileStep
        \/ \E i \in RuleId : \/ DisableRule(i)
                             \/ \E body \in RuleBody :
                                   \/ SupersedeRule(i, body)
                                   \/ \E generation \in CallerGeneration :
                                         RegisterRule(i, body, generation)
        \/ \E p \in Policy : SetPolicy(p)
        \/ \E e \in EvidenceId, generation \in SourceGeneration :
              RegisterEvidence(e, generation)
        \/ \E q \in Request : EvaluateAndCache(q[1], q[2], q[3])

Spec == Init /\ [][Next]_registryVars

-----------------------------------------------------------------------------
(* Properties.                                                             *)

\* The id of a decision the rules gave names one decision for good, although
\* the inputs that go into it are a generation and not the rules and the
\* profiles: whatever changes them must advance the generation, or must keep
\* the pair from resolving.
DecisionIdDeterminesDecision ==
    \A x, y \in issued :
        x[2].decision_id = y[2].decision_id /\ x[2].decision_id # Zero => x = y

\* "Old rule generations do not govern fresh evaluations" (README.md:105): a
\* decision dated by the current generation names a rule as it is now.
GovernedByCurrentRule ==
    \A x \in issued : x[2].registry_generation = registryGen /\ x[2].rule_id # 0 =>
        /\ Held(x[2].rule_id) /\ rules[x[2].rule_id].active
        /\ rules[x[2].rule_id].generation = x[2].rule_generation

\* The profile lifecycle is that of Profiles.tla: the other operations touch
\* nothing of it but the generation, by one.
ImplementsProfiles == P!Spec

\* "Historical decisions remain reproducible ... `replay_decision` returns
\* them" (README.md:106).  The code refutes it: two decisions with one digest
\* and two ids share one place in the cache.
ReplayReturnsIssued ==
    \A x \in issued : x[2].decision_id # Zero => x[2] \in Replay(x[2].decision_id)

=============================================================================
