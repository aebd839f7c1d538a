-------------------------- MODULE EvaluationProofs --------------------------
(***************************************************************************)
(* What a decision rests on, for every value of the constants: the pair    *)
(* whose evidence grows (PairEvaluation), the predicates that read two     *)
(* payloads (Constraints), the rules that come back from a file or arrive  *)
(* over the wire (Submissions), the devices that are observed              *)
(* (DeviceDiscovery), the capabilities that are set (Capabilities), the    *)
(* records their encoding is made of (Records), the encoding of values and *)
(* its decoder (Canonical) and the fields of profiles (ProfileTypes).  The *)
(* last section puts them together as Evaluation does.                     *)
(***************************************************************************)
EXTENDS Evaluation, TaggedVectors, FiniteSetTheorems, SequenceTheorems, TLAPS

-----------------------------------------------------------------------------
(* The evidence for a pair grows.                                          *)

\* The evidence answers each condition with a verdict, whatever is learned.
LEMMA TypeInvariant == Spec => []TypeOK
<1>1. Init => TypeOK
  BY DEF Init, TypeOK, Evidence, Verdict
<1>2. TypeOK /\ [Next]_pairVars => TypeOK'
  BY DEF TypeOK, Next, pairVars, RegisterRule, DisableRule, SupersedeProfile
<1>. QED  BY <1>1, <1>2, PTL DEF Spec

\* On a list of constraints that are all known, an extension is no news.
LEMMA KnownStaysKnown ==
    ASSUME NEW ev \in Evidence, NEW w \in Extensions(ev),
           NEW S \in SUBSET Constraint, With("unknown", S, ev) = {}
    PROVE  /\ With("unknown", S, w) = {}
           /\ With("holds", S, w) = With("holds", S, ev)
<1>1. \A c \in S : ev[c] # "unknown" /\ w[c] = ev[c]
  BY DEF With, Extensions
<1>. QED  BY <1>1 DEF With

\* Once no veto is unknown, evidence that grows changes none.
LEMMA VetoFacts ==
    ASSUME NEW rule \in Rule, NEW ev \in Evidence, NEW w \in Extensions(ev),
           SkippedVetoes(rule, ev) = {}
    PROVE  /\ SkippedVetoes(rule, w) = {}
           /\ VetoHolds(rule, w) <=> VetoHolds(rule, ev)
<1> DEFINE veto == rule.incompatible_with
<1>1. /\ \A i \in DOMAIN veto : veto[i] \in Constraint
      /\ \E n \in Nat : DOMAIN veto = 1 .. n
  <2>1. veto \in Seq(Constraint)
    BY DEF Rule
  <2>2. \E n \in Nat : veto \in [1 .. n -> Constraint]
    BY <2>1
  <2>. QED  BY <2>2
<1>2. \A c \in Constraint : ev[c] # "unknown" => w[c] = ev[c]
  BY DEF Extensions
<1>3. \A j \in DOMAIN veto : \A k \in 1 .. j : k \in DOMAIN veto
  BY <1>1
<1>4. ASSUME NEW j \in DOMAIN veto, w[veto[j]] = "unknown",
             \A k \in 1 .. j : w[veto[k]] # "holds"
      PROVE  FALSE
  <2>1. ev[veto[j]] = "unknown"
    BY <1>1, <1>2, <1>4
  <2>2. \A k \in 1 .. j : ev[veto[k]] # "holds"
    BY <1>1, <1>2, <1>3, <1>4
  <2>3. veto[j] \in SkippedVetoes(rule, ev)
    BY <2>1, <2>2 DEF SkippedVetoes
  <2>. QED  BY <2>3
<1>5. SkippedVetoes(rule, w) = {}
  BY <1>4 DEF SkippedVetoes
<1>6. VetoHolds(rule, ev) => VetoHolds(rule, w)
  BY <1>1, <1>2 DEF VetoHolds
<1>7. ASSUME ~VetoHolds(rule, ev) PROVE ~VetoHolds(rule, w)
  <2>1. \A j \in DOMAIN veto : ev[veto[j]] # "unknown"
    <3> SUFFICES ASSUME NEW j \in DOMAIN veto, ev[veto[j]] = "unknown" PROVE FALSE
      OBVIOUS
    <3>1. \A k \in 1 .. j : ev[veto[k]] # "holds"
      BY <1>3, <1>7 DEF VetoHolds
    <3>2. veto[j] \in SkippedVetoes(rule, ev)
      BY <3>1 DEF SkippedVetoes
    <3>. QED  BY <3>2
  <2>. QED  BY <1>1, <1>2, <1>7, <2>1 DEF VetoHolds
<1>. QED  BY <1>5, <1>6, <1>7

\* A rule that reports no missing evidence has its final result.
LEMMA RuleIsFinal ==
    ASSUME NEW rule \in Rule, NEW ev \in Evidence, NEW w \in Extensions(ev),
           ~EvalRule(rule, ev).missing
    PROVE  EvalRule(rule, w) = EvalRule(rule, ev)
<1> DEFINE required == rule.required
           any_of == rule.any_of
           conditions == rule.conditions
<1>0. /\ required \in SUBSET Constraint /\ any_of \in SUBSET Constraint
      /\ conditions \in SUBSET Constraint
  BY DEF Rule
<1>1. SkippedVetoes(rule, ev) = {}
  BY DEF EvalRule, Result, RequiredResult, AlternativesResult, KindResult
<1>2. /\ SkippedVetoes(rule, w) = {}
      /\ VetoHolds(rule, w) <=> VetoHolds(rule, ev)
  BY <1>1, VetoFacts
<1>3. CASE VetoHolds(rule, ev)
  BY <1>1, <1>2, <1>3 DEF EvalRule
<1>4. CASE ~VetoHolds(rule, ev) /\ ~RequiredHold(rule, ev)
  <2>1. EvalRule(rule, ev) = RequiredResult(rule, ev)
    BY <1>4 DEF EvalRule
  <2>2. With("unknown", required, ev) = {}
    <3>1. ~RequiredResult(rule, ev).missing
      BY <2>1
    <3>2. SkippedVetoes(rule, ev) \cup With("unknown", rule.required, ev) = {}
      BY <3>1, Zenon DEF RequiredResult, Result
    <3>. QED  BY <3>2
  <2>3. /\ With("unknown", required, w) = {}
        /\ With("holds", required, w) = With("holds", required, ev)
    BY <1>0, <2>2, KnownStaysKnown
  <2>4. EvalRule(rule, w) = RequiredResult(rule, w)
    BY <1>2, <1>4, <2>3 DEF EvalRule, RequiredHold
  <2>. QED  BY <1>1, <1>2, <2>1, <2>2, <2>3, <2>4 DEF RequiredResult
<1>5. RequiredHold(rule, ev) => RequiredHold(rule, w)
  <2>1. RequiredHold(rule, ev) => \A c \in required : ev[c] = "holds"
    BY DEF RequiredHold, With
  <2>2. \A c \in required : ev[c] = "holds" => w[c] = "holds"
    BY <1>0 DEF Extensions
  <2>. QED  BY <2>1, <2>2 DEF RequiredHold, With
<1>6. CASE ~VetoHolds(rule, ev) /\ RequiredHold(rule, ev) /\ ~AlternativeHolds(rule, ev)
  <2>1. EvalRule(rule, ev) = AlternativesResult(rule, ev)
    BY <1>6 DEF EvalRule
  <2>2. With("unknown", any_of, ev) = {}
    <3>1. ~AlternativesResult(rule, ev).missing
      BY <2>1
    <3>2. SkippedVetoes(rule, ev) \cup With("unknown", rule.any_of, ev) = {}
      BY <3>1, Zenon DEF AlternativesResult, Result
    <3>. QED  BY <3>2
  <2>3. /\ With("unknown", any_of, w) = {}
        /\ With("holds", any_of, w) = With("holds", any_of, ev)
    BY <1>0, <2>2, KnownStaysKnown
  <2>4. EvalRule(rule, w) = AlternativesResult(rule, w)
    BY <1>2, <1>5, <1>6, <2>3 DEF EvalRule, AlternativeHolds
  <2>. QED  BY <1>1, <1>2, <2>1, <2>2, <2>3, <2>4 DEF AlternativesResult
<1>7. CASE ~VetoHolds(rule, ev) /\ RequiredHold(rule, ev) /\ AlternativeHolds(rule, ev)
  <2>1. EvalRule(rule, ev) = KindResult(rule, ev)
    BY <1>7 DEF EvalRule
  <2>2. UnknownConditions(rule, ev) = {}
    <3>1. ~KindResult(rule, ev).missing
      BY <2>1
    <3>2. SkippedVetoes(rule, ev) \cup UnknownConditions(rule, ev) = {}
      BY <3>1, Zenon DEF KindResult, Result
    <3>. QED  BY <3>2
  <2>3. AlternativeHolds(rule, w)
    <3>1. \A c \in any_of : ev[c] = "holds" => w[c] = "holds"
      BY <1>0 DEF Extensions
    <3>. QED  BY <1>7, <3>1 DEF AlternativeHolds, With
  <2>4. EvalRule(rule, w) = KindResult(rule, w)
    BY <1>2, <1>5, <1>7, <2>3 DEF EvalRule
  <2>5. UnknownConditions(rule, w) = {} /\ KindOutcome(rule, w) = KindOutcome(rule, ev)
    <3>1. CASE rule.kind = "Conditional"
      <4>1. With("unknown", conditions, ev) = {}
        BY <2>2, <3>1 DEF UnknownConditions
      <4>2. /\ With("unknown", conditions, w) = {}
            /\ With("holds", conditions, w) = With("holds", conditions, ev)
        BY <1>0, <4>1, KnownStaysKnown
      <4>. QED  BY <3>1, <4>2 DEF UnknownConditions, KindOutcome
    <3>2. CASE rule.kind # "Conditional"
      BY <3>2 DEF UnknownConditions, KindOutcome
    <3>. QED  BY <3>1, <3>2
  <2>. QED  BY <1>1, <1>2, <2>1, <2>2, <2>4, <2>5 DEF KindResult
<1>. QED  BY <1>3, <1>4, <1>6, <1>7

\* Two rules of the library are sorted by priority and id.
LEMMA BeforeIsTotal ==
    ASSUME NEW a \in Library, NEW b \in Library, a # b
    PROVE  Before(a, b) \/ Before(b, a)
BY LibraryAssumption DEF Before, Rule

\* The order in which rules are tried is transitive ...
LEMMA BeforeIsTransitive ==
    ASSUME NEW a \in Library, NEW b \in Library, NEW c \in Library, Before(a, b), Before(b, c)
    PROVE  Before(a, c)
BY LibraryAssumption DEF Before, Rule

\* Induction on the subsets of a finite set, by their least counterexamples.
LEMMA LeastSubset ==
    ASSUME NEW D, IsFiniteSet(D), NEW B \in SUBSET SUBSET D, B # {}
    PROVE  \E T \in B : \A U \in B : U \subseteq T => U = T
<1>1. IsWellFoundedOn(StrictSubsetOrdering(D), SUBSET D)
  BY FS_StrictSubsetOrderingWellFounded, FS_FiniteSubsetsOfFinite
<1>2. PICK T \in B : \A U \in B : <<U, T>> \notin StrictSubsetOrdering(D)
  BY <1>1, WFMin
<1>. QED  BY <1>2 DEF StrictSubsetOrdering

\* std::sort puts one of the candidates first: the smallest set of rules for
\* which it could not would be one without one of its rules.
LEMMA FirstFacts ==
    ASSUME NEW rules \in SUBSET Library, rules # {}
    PROVE  /\ First(rules) \in rules
           /\ \A q \in rules \ {First(rules)} : Before(First(rules), q)
<1> DEFINE HasFirst(S) == \E r \in S : \A q \in S \ {r} : Before(r, q)
           unsorted == {S \in SUBSET Library : S # {} /\ ~HasFirst(S)}
<1>1. ASSUME unsorted # {} PROVE FALSE
  <2>1. unsorted \in SUBSET SUBSET Library
    OBVIOUS
  <2>2. PICK S \in unsorted : \A T \in unsorted : T \subseteq S => T = S
    <3> HIDE DEF unsorted
    <3>. QED  BY <1>1, <2>1, FiniteLibraryAssumption, LeastSubset
  <2>3. PICK a \in S : TRUE
    OBVIOUS
  <2>4. S \ {a} # {}
    OBVIOUS
  <2>5. HasFirst(S \ {a})
    <3>1. S \ {a} \in SUBSET Library /\ S \ {a} \subseteq S /\ S \ {a} # S
      OBVIOUS
    <3>2. S \ {a} \notin unsorted
      <4> HIDE DEF unsorted
      <4>. QED  BY <2>2, <3>1
    <3>. QED  BY <2>4, <3>1, <3>2
  <2>6. PICK b \in S \ {a} : \A q \in (S \ {a}) \ {b} : Before(b, q)
    BY <2>5
  <2>7. a \in Library /\ b \in Library /\ a # b /\ S \subseteq Library
    BY <2>6
  <2>8. CASE Before(b, a)
    <3>1. \A q \in S \ {b} : Before(b, q)
      BY <2>6, <2>8
    <3>. QED  BY <3>1, <2>6
  <2>9. CASE Before(a, b)
    <3>1. \A q \in S \ {a} : Before(a, q)
      BY <2>6, <2>7, <2>9, BeforeIsTransitive
    <3>. QED  BY <3>1
  <2>. QED  BY <2>7, <2>8, <2>9, BeforeIsTotal
<1>2. \E r \in rules : \A q \in rules \ {r} : Before(r, q)
  BY <1>1
<1>. QED  BY <1>2 DEF First

\* When every rule has its final result so has the pair.
LEMMA DecisionIsFinal ==
    ASSUME NEW rules \in SUBSET Library, NEW ev \in Evidence, NEW w \in Extensions(ev),
           \A r \in rules : ~EvalRule(r, ev).missing
    PROVE  Decide(rules, w) = Decide(rules, ev)
<1>1. \A r \in rules : EvalRule(r, w) = EvalRule(r, ev)
  BY RuleIsFinal, LibraryAssumption
<1>2. Definite(rules, w) = Definite(rules, ev)
  BY <1>1 DEF Definite
<1>3. NoDefiniteOutcome(rules, w) = NoDefiniteOutcome(rules, ev)
  BY <1>1 DEF NoDefiniteOutcome
<1>4. CASE Definite(rules, ev) = {}
  BY <1>2, <1>3, <1>4 DEF Decide
<1>5. CASE Definite(rules, ev) # {}
  <2>1. Definite(rules, ev) \in SUBSET Library
    BY DEF Definite
  <2>2. First(Definite(rules, ev)) \in Definite(rules, ev)
    BY <1>5, <2>1, FirstFacts
  <2>3. First(Definite(rules, ev)) \in rules
    BY <2>2 DEF Definite
  <2>. QED  BY <1>1, <1>2, <1>5, <2>3 DEF Decide
<1>. QED  BY <1>4, <1>5

\* A pair for which no rule lacks evidence is decided for good.
THEOREM CompleteEvaluationsAreFinal == Spec => []CompleteEvaluationIsFinal
<1>1. TypeOK => CompleteEvaluationIsFinal
  <2> SUFFICES ASSUME TypeOK, \A r \in active : ~EvalRule(r, evidence).missing,
                      NEW w \in Extensions(evidence)
               PROVE  Decide(active, w) = decision
    BY DEF CompleteEvaluationIsFinal
  <2>1. active \in SUBSET Library /\ evidence \in Evidence
    BY DEF TypeOK
  <2>. QED  BY <2>1, DecisionIsFinal DEF decision
<1>. QED  BY <1>1, TypeInvariant, PTL

\* The registry answers Unknown only when nothing it lacks could matter; what
\* it lacks otherwise makes the answer InsufficientEvidence.
THEOREM UnknownIsNotIgnorance == Spec => []UnknownIsConclusive
<1>1. TypeOK => UnknownIsConclusive
  <2> SUFFICES ASSUME TypeOK, decision.outcome = "Unknown", NEW w \in Extensions(evidence)
               PROVE  Decide(active, w).outcome = "Unknown"
    BY DEF UnknownIsConclusive
  <2>1. active \in SUBSET Library /\ evidence \in Evidence
    BY DEF TypeOK
  <2>2. Definite(active, evidence) = {}
    <3> SUFFICES ASSUME Definite(active, evidence) # {} PROVE FALSE
      OBVIOUS
    <3>1. Definite(active, evidence) \in SUBSET Library
      BY <2>1 DEF Definite
    <3>2. First(Definite(active, evidence)) \in Definite(active, evidence)
      BY <3>1, FirstFacts
    <3>3. decision.outcome = EvalRule(First(Definite(active, evidence)), evidence).outcome
      BY DEF decision, Decide
    <3>. QED  BY <3>2, <3>3 DEF Definite
  <2>3. decision.outcome = NoDefiniteOutcome(active, evidence)
    BY <2>2 DEF decision, Decide
  <2>4. \A r \in active : ~EvalRule(r, evidence).missing
    BY <2>3 DEF NoDefiniteOutcome
  <2>5. Decide(active, w) = decision
    BY <2>1, <2>4, DecisionIsFinal DEF decision
  <2>. QED  BY <2>5
<1>. QED  BY <1>1, TypeInvariant, PTL

\* What an extension knows of the lists of a rule, with what it was before.
LEMMA ExtensionFacts ==
    ASSUME NEW rule \in Rule, NEW ev \in Evidence, NEW w \in Extensions(ev)
    PROVE  /\ VetoHolds(rule, ev) => VetoHolds(rule, w)
           /\ RequiredHold(rule, ev) => RequiredHold(rule, w)
           /\ AlternativeHolds(rule, ev) => AlternativeHolds(rule, w)
           /\ rule.conditions = With("holds", rule.conditions, ev)
                  => rule.conditions = With("holds", rule.conditions, w)
<1>0. /\ rule.required \in SUBSET Constraint /\ rule.any_of \in SUBSET Constraint
      /\ rule.conditions \in SUBSET Constraint
      /\ \A i \in DOMAIN rule.incompatible_with : rule.incompatible_with[i] \in Constraint
  <2>1. rule.incompatible_with \in Seq(Constraint)
    BY DEF Rule
  <2>. QED  BY <2>1 DEF Rule
<1>1. \A c \in Constraint : ev[c] = "holds" => w[c] = "holds"
  BY DEF Extensions
<1>2. VetoHolds(rule, ev) => VetoHolds(rule, w)
  BY <1>0, <1>1 DEF VetoHolds
<1>3. \A S \in SUBSET Constraint : S = With("holds", S, ev) => S = With("holds", S, w)
  BY <1>1 DEF With
<1>4. AlternativeHolds(rule, ev) => AlternativeHolds(rule, w)
  BY <1>0, <1>1 DEF AlternativeHolds, With
<1>. QED  BY <1>0, <1>2, <1>3, <1>4 DEF RequiredHold

\* A rule that calls a pair Incompatible does so under all further evidence:
\* by its list, or by a clause above it that was passed over.
LEMMA IncompatibleRuleStays ==
    ASSUME NEW rule \in Rule, NEW ev \in Evidence, NEW w \in Extensions(ev),
           EvalRule(rule, ev).outcome = "Incompatible"
    PROVE  EvalRule(rule, w).outcome = "Incompatible"
<1>1. CASE VetoHolds(rule, w)
  BY <1>1 DEF EvalRule, Result
<1>2. CASE ~VetoHolds(rule, w)
  <2>1. ~VetoHolds(rule, ev) /\ RequiredHold(rule, ev) /\ AlternativeHolds(rule, ev)
    BY <1>2, ExtensionFacts DEF EvalRule, RequiredResult, AlternativesResult, Result
  <2>2. EvalRule(rule, ev).outcome = KindOutcome(rule, ev)
    BY <2>1 DEF EvalRule, KindResult, Result
  <2>3. EvalRule(rule, w).outcome = KindOutcome(rule, w)
    BY <1>2, <2>1, ExtensionFacts DEF EvalRule, KindResult, Result
  <2>. QED  BY <2>2, <2>3, ExtensionFacts DEF KindOutcome
<1>. QED  BY <1>1, <1>2

\* A rule without a result has none under further evidence either, unless a
\* clause it had passed over turns out to hold.
LEMMA UnknownRuleStays ==
    ASSUME NEW rule \in Rule, NEW ev \in Evidence, NEW w \in Extensions(ev),
           EvalRule(rule, ev).outcome = "Unknown"
    PROVE  EvalRule(rule, w).outcome \in {"Unknown", "Incompatible"}
<1>1. CASE VetoHolds(rule, w)
  BY <1>1 DEF EvalRule, Result
<1>2. CASE ~VetoHolds(rule, w)
  <2>0. ~VetoHolds(rule, ev)
    BY <1>2, ExtensionFacts
  <2>1. CASE ~RequiredHold(rule, ev)
    <3>1. EvalRule(rule, ev) = RequiredResult(rule, ev)
      BY <2>0, <2>1 DEF EvalRule
    <3>2. SkippedVetoes(rule, ev) \cup With("unknown", rule.required, ev) = {}
      <4>1. RequiredResult(rule, ev).outcome = "Unknown"
        BY <3>1
      <4>. QED  BY <4>1 DEF RequiredResult, Result
    <3>3. ~EvalRule(rule, ev).missing
      <4>1. ~RequiredResult(rule, ev).missing
        BY <3>2, Zenon DEF RequiredResult, Result
      <4>. QED  BY <3>1, <4>1
    <3>. QED  BY <3>3, RuleIsFinal
  <2>2. CASE RequiredHold(rule, ev) /\ ~AlternativeHolds(rule, ev)
    <3>1. EvalRule(rule, ev) = AlternativesResult(rule, ev)
      BY <2>0, <2>2 DEF EvalRule
    <3>2. With("unknown", rule.any_of, ev) = {}
      <4>1. AlternativesResult(rule, ev).outcome = "Unknown"
        BY <3>1
      <4>. QED  BY <4>1 DEF AlternativesResult, Result
    <3>3. rule.any_of \in SUBSET Constraint
      BY DEF Rule
    <3>4. /\ With("unknown", rule.any_of, w) = {}
          /\ With("holds", rule.any_of, w) = With("holds", rule.any_of, ev)
      BY <3>2, <3>3, KnownStaysKnown
    <3>5. EvalRule(rule, w) = AlternativesResult(rule, w)
      BY <1>2, <2>2, <3>4, ExtensionFacts DEF EvalRule, AlternativeHolds
    <3>. QED  BY <3>4, <3>5 DEF AlternativesResult, Result
  <2>3. CASE RequiredHold(rule, ev) /\ AlternativeHolds(rule, ev)
    <3>1. EvalRule(rule, ev).outcome = KindOutcome(rule, ev)
      BY <2>0, <2>3 DEF EvalRule, KindResult, Result
    <3>2. EvalRule(rule, w).outcome = KindOutcome(rule, w)
      BY <1>2, <2>3, ExtensionFacts DEF EvalRule, KindResult, Result
    <3>. QED  BY <3>1, <3>2, ExtensionFacts DEF KindOutcome
  <2>. QED  BY <2>1, <2>2, <2>3
<1>. QED  BY <1>1, <1>2

\* ... and strict.
LEMMA BeforeIsStrict ==
    ASSUME NEW a \in Library, NEW b \in Library
    PROVE  ~(Before(a, b) /\ Before(b, a))
<1>1. a.priority \in Int /\ b.priority \in Int /\ a.rule_id \in Nat /\ b.rule_id \in Nat
  BY LibraryAssumption DEF Rule
<1>. QED  BY <1>1 DEF Before

\* The one rule that comes before all the others is the one chosen.
LEMMA FirstIsUnique ==
    ASSUME NEW rules \in SUBSET Library, NEW r \in rules,
           \A q \in rules \ {r} : Before(r, q)
    PROVE  First(rules) = r
<1>1. First(rules) \in rules /\ (\A q \in rules \ {First(rules)} : Before(First(rules), q))
  BY FirstFacts
<1>. QED  BY <1>1, BeforeIsStrict

\* What is Incompatible stays so, whatever arrives: a profile that is found
\* to say more (registry.cpp:345-363, 484-523) does not reopen the question.
THEOREM IncompatibleIsForGood == Spec => []IncompatibleIsFinal
<1>1. TypeOK => IncompatibleIsFinal
  <2> SUFFICES ASSUME TypeOK, decision.outcome = "Incompatible", NEW w \in Extensions(evidence)
               PROVE  Decide(active, w).outcome = "Incompatible"
    BY DEF IncompatibleIsFinal
  <2> DEFINE before == Definite(active, evidence)
             after  == Definite(active, w)
  <2>1. active \in SUBSET Library /\ evidence \in Evidence
    BY DEF TypeOK
  <2>2. before \in SUBSET Library /\ after \in SUBSET Library
    BY <2>1 DEF Definite
  <2>3. before # {}
    BY DEF decision, Decide, NoDefiniteOutcome
  <2>4. /\ First(before) \in before
        /\ \A q \in before \ {First(before)} : Before(First(before), q)
    BY <2>2, <2>3, FirstFacts
  <2>5. EvalRule(First(before), evidence).outcome = "Incompatible"
    BY <2>3 DEF decision, Decide
  <2>6. EvalRule(First(before), w).outcome = "Incompatible"
    <3>1. First(before) \in Rule
      BY <2>2, <2>4, LibraryAssumption
    <3>. QED  BY <2>1, <2>5, <3>1, IncompatibleRuleStays
  <2>7. First(before) \in after
    BY <2>4, <2>6 DEF Definite
  <2>8. /\ First(after) \in after
        /\ \A q \in after \ {First(after)} : Before(First(after), q)
    BY <2>2, <2>7, FirstFacts
  <2>9. EvalRule(First(after), w).outcome = "Incompatible"
    <3>1. CASE First(after) = First(before)
      BY <2>6, <3>1
    <3>2. CASE First(after) # First(before)
      <4>1. First(after) \notin before
        BY <2>2, <2>4, <2>7, <2>8, <3>2, BeforeIsStrict
      <4>2. First(after) \in active /\ First(after) \in Rule
        BY <2>2, <2>8, LibraryAssumption DEF Definite
      <4>3. EvalRule(First(after), evidence).outcome = "Unknown"
        BY <4>1, <4>2 DEF Definite
      <4>4. EvalRule(First(after), w).outcome \in {"Unknown", "Incompatible"}
        BY <2>1, <4>2, <4>3, UnknownRuleStays
      <4>5. EvalRule(First(after), w).outcome # "Unknown"
        BY <2>8 DEF Definite
      <4>. QED  BY <4>4, <4>5
    <3>. QED  BY <3>1, <3>2
  <2>. QED  BY <2>7, <2>9 DEF Decide
<1>. QED  BY <1>1, TypeInvariant, PTL

\* A rule below the one that decides changes nothing by being registered: the
\* first definite result of the sorted list stands (registry.cpp:478-523).
THEOREM LowerPrioritiesHaveNoSay == Spec => []LowerPriorityHasNoSay
<1>1. TypeOK => LowerPriorityHasNoSay
  <2> SUFFICES ASSUME TypeOK, NEW r \in Library \ active,
                      NEW best \in Definite(active, evidence),
                      best.rule_id = decision.rule_id, best.priority > r.priority
               PROVE  Decide(active \cup {r}, evidence) = decision
    BY DEF LowerPriorityHasNoSay
  <2> DEFINE before == Definite(active, evidence)
             after  == Definite(active \cup {r}, evidence)
  <2>1. active \in SUBSET Library
    BY DEF TypeOK
  <2>2. before \in SUBSET Library /\ before # {} /\ best \in Library
    BY <2>1 DEF Definite
  <2>3. /\ First(before) \in before
        /\ \A q \in before \ {First(before)} : Before(First(before), q)
    BY <2>2, FirstFacts
  <2>4. First(before) = best
    <3>1. decision.rule_id = First(before).rule_id
      BY <2>2 DEF decision, Decide
    <3>2. First(before) \in Library
      BY <2>2, <2>3
    <3>. QED  BY <2>2, <3>1, <3>2, LibraryAssumption
  <2>5. after = before \/ after = before \cup {r}
    BY DEF Definite
  <2>6. Before(best, r)
    BY DEF Before
  <2>7. \A q \in after \ {best} : Before(best, q)
    BY <2>3, <2>4, <2>5, <2>6
  <2>8. after \in SUBSET Library /\ best \in after
    BY <2>2, <2>5
  <2>9. First(after) = best
    BY <2>7, <2>8, FirstIsUnique
  <2>. QED  BY <2>2, <2>4, <2>8, <2>9 DEF decision, Decide
<1>. QED  BY <1>1, TypeInvariant, PTL

-----------------------------------------------------------------------------
(* Constraints read two payloads.                                          *)

\* A set of numbers has a least one: the step of the inductions below.
LEMMA LeastNumber ==
    ASSUME NEW B \in SUBSET Nat, B # {}
    PROVE  \E m \in B : \A n \in B : m <= n
<1>1. PICK b \in B : TRUE
  OBVIOUS
<1> DEFINE upTo(k) == 1 .. k
           whole == upTo(b)
           initial == {upTo(k) : k \in {n \in B : n <= b}}
<1>2. initial \in SUBSET SUBSET whole /\ initial # {}
  BY <1>1
<1>3. IsFiniteSet(whole)
  BY FS_Interval
<1>4. PICK T \in initial : \A U \in initial : U \subseteq T => U = T
  <2> HIDE DEF initial, whole
  <2>. QED  BY <1>2, <1>3, LeastSubset
<1>5. PICK m \in B : m <= b /\ T = upTo(m)
  BY <1>4
<1>6. ASSUME NEW n \in B, n < m PROVE FALSE
  <2>1. upTo(n) \in initial
    BY <1>5, <1>6
  <2>2. upTo(n) \subseteq upTo(m)
    BY <1>6
  <2>3. upTo(n) = upTo(m)
    <3> HIDE DEF initial, upTo
    <3>. QED  BY <1>4, <1>5, <2>1, <2>2
  <2>4. m \in upTo(m) /\ m \notin upTo(n)
    BY <1>6
  <2>. QED  BY <2>3, <2>4
<1>. QED  BY <1>6

\* The two profiles are ones that were registered.
ConTypeOK == left \in LeftPayload /\ right \in RightPayload

\* supersede_profile keeps them so.
LEMMA ConTypeInvariant == Con!Spec => []ConTypeOK
<1>1. Con!Init => ConTypeOK
  BY DEF Con!Init, ConTypeOK
<1>2. ConTypeOK /\ [Con!Next]_(Con!payloads) => ConTypeOK'
  BY DEF ConTypeOK, Con!Next, Con!payloads, Con!SupersedeLeft, Con!SupersedeRight
<1>. QED  BY <1>1, <1>2, PTL DEF Con!Spec

\* A field that was found is found as it was, when the payload says more.
LEMMA FoundFieldStays ==
    ASSUME NEW p, NEW w, NEW path, Con!SaysMore(w, p), Con!Resolve(p, path) # {}
    PROVE  Con!Resolve(w, path) = Con!Resolve(p, path)
BY DEF Con!Resolve, Con!FieldOf, Con!SaysMore, Con!Content, Con!KindOf

\* So a verdict that is known stays: constraint_known looks at both sides.
LEMMA KnownVerdictStays ==
    ASSUME NEW l, NEW l2, NEW r, NEW r2, NEW c, Con!SaysMore(l2, l), Con!SaysMore(r2, r),
           Con!Verdict(c, l, r) # "unknown"
    PROVE  Con!Verdict(c, l2, r2) = Con!Verdict(c, l, r)
<1>1. Con!ConstraintKnown(c, l, r)
  BY DEF Con!Verdict
<1>2. Con!Resolve(l2, c.field) = Con!Resolve(l, c.field)
  BY <1>1, FoundFieldStays DEF Con!ConstraintKnown
<1>3. c.right_field # <<>> => Con!Resolve(r2, c.right_field) = Con!Resolve(r, c.right_field)
  BY <1>1, FoundFieldStays DEF Con!ConstraintKnown
<1>4. Con!ConstraintKnown(c, l2, r2)
  BY <1>1, <1>2, <1>3 DEF Con!ConstraintKnown
<1>5. Con!Compared(c, r2) = Con!Compared(c, r)
  BY <1>3 DEF Con!Compared
<1>6. Con!Evaluate(c, l2, r2) = Con!Evaluate(c, l, r)
  BY <1>2, <1>5 DEF Con!Evaluate
<1>. QED  BY <1>1, <1>4, <1>6 DEF Con!Verdict

\* A field that arrives on either side changes no verdict that was known
\* (constraint_known and Constraint::evaluate).
LEMMA VerdictsInConstraints ==
    Con!Spec => [][Con!ArrivingFieldsKeepVerdicts]_(Con!payloads)
<1>1. [Con!Next]_(Con!payloads) => [Con!ArrivingFieldsKeepVerdicts]_(Con!payloads)
  BY KnownVerdictStays DEF Con!ArrivingFieldsKeepVerdicts
<1>. QED  BY <1>1, PTL DEF Con!Spec

\* What a path reaches in a payload has the form of its kind.
LEMMA FoundIsTyped ==
    ASSUME Con!ConstantsTyped, NEW p \in LeftPayload \cup RightPayload, NEW path,
           NEW v \in Con!Resolve(p, path)
    PROVE  Con!Typed(v)
BY DEF Con!ConstantsTyped, Con!Resolve, Con!FieldOf

\* So does what it is compared with.
LEMMA ComparedIsTyped ==
    ASSUME Con!ConstantsTyped, NEW r \in RightPayload, NEW c \in ConstraintSet,
           NEW v \in Con!Compared(c, r)
    PROVE  Con!Typed(v)
<1>1. CASE v \in Con!Resolve(r, c.right_field)
  BY <1>1, FoundIsTyped
<1>2. CASE v = c.expected
  BY <1>2 DEF Con!ConstantsTyped
<1>. QED  BY <1>1, <1>2 DEF Con!Compared

\* What the evaluator compares of two versions are their first two parts, and
\* 0 for one that does not fit.
LEMMA VersionIsFirstParts ==
    ASSUME Con!ConstantsTyped, NEW v, Con!Typed(v), Con!KindOf(v) \in {"Uint", "Str"}
    PROVE  LET s == Con!Dotted(v)
           IN  /\ s \in Seq(Nat)
               /\ \A i \in {1, 2} :
                     /\ Con!Part(s, i) \in Nat
                     /\ Con!Version(v)[i] = IF Con!Part(s, i) <= MaxUint
                                            THEN Con!Part(s, i) ELSE 0
<1>1. MaxUint \in Nat
  BY DEF Con!ConstantsTyped, Con!CastsRound
<1>2. CASE Con!KindOf(v) = "Uint"
  BY <1>1, <1>2 DEF Con!Typed, Con!Dotted, Con!Version, Con!Part
<1>3. CASE Con!KindOf(v) = "Str"
  <2> DEFINE s == Con!Content(v)
  <2>1. s \in Seq(Nat) /\ Con!Dotted(v) = s
    BY <1>3 DEF Con!Typed, Con!Dotted
  <2>2. \A i \in {1, 2} : Con!Part(s, i) \in Nat
    <3>1. Len(s) \in Nat
      BY <2>1
    <3>. QED  BY <2>1, <3>1 DEF Con!Part
  <2>3. Con!Version(v) = <<Con!ParseNum(Con!Part(s, 1)), Con!ParseNum(Con!Part(s, 2))>>
    BY <1>3 DEF Con!Version
  <2>. QED  BY <2>1, <2>2, <2>3 DEF Con!ParseNum
<1>. QED  BY <1>2, <1>3

\* A version that is held for older than one that fits is older.
LEMMA OlderPrecedes ==
    ASSUME Con!ConstantsTyped, NEW a, NEW b, Con!Typed(a), Con!Typed(b),
           {Con!KindOf(a), Con!KindOf(b)} \subseteq {"Uint", "Str"},
           Con!Fits(Con!Dotted(a)), Con!OlderVersion(a, b)
    PROVE  Con!Precedes(Con!Dotted(a), Con!Dotted(b))
<1> DEFINE s == Con!Dotted(a)
           t == Con!Dotted(b)
<1>1. /\ s \in Seq(Nat) /\ t \in Seq(Nat)
      /\ \A i \in {1, 2} : /\ Con!Part(s, i) \in Nat /\ Con!Part(t, i) \in Nat
                           /\ Con!Version(a)[i] = Con!Part(s, i)
                           /\ Con!Version(b)[i] \in {Con!Part(t, i), 0}
  BY VersionIsFirstParts DEF Con!Fits
<1>2. \/ Con!Part(s, 1) < Con!Part(t, 1)
      \/ Con!Part(s, 1) = Con!Part(t, 1) /\ Con!Part(s, 2) < Con!Part(t, 2)
  <2> HIDE DEF s, t
  <2>. QED  BY <1>1 DEF Con!OlderVersion
<1> HIDE DEF s, t
<1>3. ASSUME NEW i \in {1, 2}, Con!Part(s, i) < Con!Part(t, i)
      PROVE  i \in 1 .. Len(s) + Len(t)
  <2>1. Len(s) \in Nat /\ Len(t) \in Nat
    BY <1>1
  <2>2. i <= Len(t)
    BY <1>1, <1>3, <2>1 DEF Con!Part
  <2>. QED  BY <2>1, <2>2
<1>4. CASE Con!Part(s, 1) < Con!Part(t, 1)
  BY <1>3, <1>4 DEF Con!Precedes, s, t
<1>5. CASE Con!Part(s, 1) = Con!Part(t, 1) /\ Con!Part(s, 2) < Con!Part(t, 2)
  <2>1. \A j \in 1 .. 2 - 1 : j = 1
    OBVIOUS
  <2>. QED  BY <1>3, <1>5, <2>1 DEF Con!Precedes, s, t
<1>. QED  BY <1>2, <1>4, <1>5

\* What a version operator asks of two versions.
LEMMA VersionOperators ==
    ASSUME NEW c, c.op \in Con!Versioned, NEW a, NEW b
    PROVE  /\ c.op = "VersionLe" => Con!Satisfied(c, a, b) = ~Con!OlderVersion(b, a)
           /\ c.op = "VersionGt" => Con!Satisfied(c, a, b) = Con!OlderVersion(b, a)
           /\ c.op = "VersionGe" => Con!Satisfied(c, a, b) = ~Con!OlderVersion(a, b)
           /\ c.op = "VersionLt" => Con!Satisfied(c, a, b) = Con!OlderVersion(a, b)
BY DEF Con!Satisfied, Con!Ranged

\* No operator on versions answers against their order.
LEMMA VersionsOrdered == ConTypeOK /\ Con!ConstantsTyped => Con!VersionsNeverInverted
<1> SUFFICES ASSUME ConTypeOK, Con!ConstantsTyped,
                    NEW c \in ConstraintSet, c.op \in Con!Versioned,
                    NEW a \in Con!Resolve(left, c.field), NEW b \in Con!Compared(c, right),
                    Con!Readable(c, a, b)
             PROVE  LET A == Con!Dotted(a)
                        B == Con!Dotted(b)
                    IN  /\ Con!Fits(B) /\ ~Con!Precedes(B, A) =>
                              /\ c.op = "VersionLe" => Con!Satisfied(c, a, b)
                              /\ c.op = "VersionGt" => ~Con!Satisfied(c, a, b)
                        /\ Con!Fits(A) /\ ~Con!Precedes(A, B) =>
                              /\ c.op = "VersionGe" => Con!Satisfied(c, a, b)
                              /\ c.op = "VersionLt" => ~Con!Satisfied(c, a, b)
  BY DEF Con!VersionsNeverInverted
<1>1. Con!Typed(a) /\ Con!Typed(b)
  BY FoundIsTyped, ComparedIsTyped DEF ConTypeOK
<1>2. {Con!KindOf(a), Con!KindOf(b)} \subseteq {"Uint", "Str"}
  BY DEF Con!Readable
<1>3. /\ Con!Fits(Con!Dotted(a)) /\ Con!OlderVersion(a, b)
            => Con!Precedes(Con!Dotted(a), Con!Dotted(b))
      /\ Con!Fits(Con!Dotted(b)) /\ Con!OlderVersion(b, a)
            => Con!Precedes(Con!Dotted(b), Con!Dotted(a))
  BY <1>1, <1>2, OlderPrecedes
<1>. QED  BY <1>3, VersionOperators

\* A major number that does not fit is read as 0.
LEMMA OverflowIsOldest == ConTypeOK /\ Con!ConstantsTyped => Con!OverflowReadsAsOldest
<1> SUFFICES ASSUME ConTypeOK, Con!ConstantsTyped,
                    NEW c \in ConstraintSet, c.op \in Con!Versioned,
                    NEW a \in Con!Resolve(left, c.field), NEW b \in Con!Compared(c, right),
                    Con!Readable(c, a, b), Con!Part(Con!Dotted(a), 1) > MaxUint,
                    Con!Part(Con!Dotted(b), 1) \in 1 .. MaxUint
             PROVE  Con!Satisfied(c, a, b) <=> c.op \in {"VersionLt", "VersionLe"}
  BY DEF Con!OverflowReadsAsOldest
<1>1. Con!Typed(a) /\ Con!Typed(b)
  BY FoundIsTyped, ComparedIsTyped DEF ConTypeOK
<1>2. {Con!KindOf(a), Con!KindOf(b)} \subseteq {"Uint", "Str"}
  BY DEF Con!Readable
<1>3. MaxUint \in Nat
  BY DEF Con!ConstantsTyped, Con!CastsRound
<1>4. Con!Version(a)[1] = 0
  <2> DEFINE n == Con!Part(Con!Dotted(a), 1)
  <2>1. n \in Nat /\ Con!Version(a)[1] = IF n <= MaxUint THEN n ELSE 0
    BY <1>1, <1>2, VersionIsFirstParts
  <2> HIDE DEF n
  <2>2. n > MaxUint
    BY DEF n
  <2>. QED  BY <1>3, <2>1, <2>2
<1>5. Con!Version(b)[1] \in 1 .. MaxUint
  <2> DEFINE n == Con!Part(Con!Dotted(b), 1)
  <2>1. n \in Nat /\ Con!Version(b)[1] = IF n <= MaxUint THEN n ELSE 0
    BY <1>1, <1>2, VersionIsFirstParts
  <2> HIDE DEF n
  <2>2. n \in 1 .. MaxUint
    BY DEF n
  <2>. QED  BY <1>3, <2>1, <2>2
<1>6. Con!OlderVersion(a, b) /\ ~Con!OlderVersion(b, a)
  BY <1>3, <1>4, <1>5 DEF Con!OlderVersion
<1>7. c.op \in {"VersionLt", "VersionLe", "VersionGt", "VersionGe"}
  BY DEF Con!Versioned
<1>8. /\ c.op = "VersionLe" => Con!Satisfied(c, a, b)
      /\ c.op = "VersionLt" => Con!Satisfied(c, a, b)
      /\ c.op = "VersionGt" => ~Con!Satisfied(c, a, b)
      /\ c.op = "VersionGe" => ~Con!Satisfied(c, a, b)
  BY <1>6, VersionOperators
<1>. QED  BY <1>7, <1>8

\* Of two numbers the greater is not cast to the lesser double: it would be
\* nearer to the other's.
LEMMA DoubleIsMonotone ==
    ASSUME Con!CastsRound, NEW m \in 0 .. MaxUint, NEW n \in 0 .. MaxUint, m <= n
    PROVE  Double[m] <= Double[n]
<1>1. Double[m] \in Nat /\ Double[n] \in Nat
  BY DEF Con!CastsRound
<1>2. /\ Con!Apart(m, Double[m]) <= Con!Apart(m, Double[n])
      /\ Con!Apart(n, Double[n]) <= Con!Apart(n, Double[m])
  BY DEF Con!CastsRound
<1>3. CASE m = n
  BY <1>1, <1>3
<1>4. CASE m < n
  <2>. m \in Nat /\ n \in Nat
    BY DEF Con!CastsRound
  <2>1. \A i, j, d, e \in Nat :
           /\ i < j /\ Con!Apart(i, d) <= Con!Apart(i, e)
           /\ Con!Apart(j, e) <= Con!Apart(j, d)
           => d <= e
    BY DEF Con!Apart
  <2>. QED  BY <1>1, <1>2, <1>4, <2>1
<1>. QED  BY <1>3, <1>4 DEF Con!CastsRound

\* A number is compared as the double of what is read of it: itself, or, if
\* it is negative, one that is greater than Mantissa.
LEMMA ReadingOfNumbers ==
    ASSUME Con!ConstantsTyped, NEW v, Con!Typed(v), Con!KindOf(v) \in {"Uint", "Int"}
    PROVE  LET n == Con!Content(v)
           IN  /\ n \in Int /\ Con!Unsigned(v) \in 0 .. MaxUint
               /\ n >= 0 => Con!Unsigned(v) = n
               /\ n < 0 => Con!Unsigned(v) = MaxUint + 1 + n /\ Con!Unsigned(v) > Mantissa
               /\ Double[Con!Unsigned(v)] \in Nat
               /\ n \in 0 .. Mantissa => Double[Con!Unsigned(v)] = n
               /\ n < 0 => Double[Con!Unsigned(v)] >= Mantissa
<1> DEFINE n == Con!Content(v)
           u == Con!Unsigned(v)
<1>1. MaxUint \in Nat /\ Mantissa \in Nat /\ 2 * Mantissa <= MaxUint
  BY DEF Con!ConstantsTyped, Con!CastsRound
<1>2. n \in Int /\ n <= MaxUint /\ -(MaxUint + 1) <= 2 * n
  BY <1>1 DEF Con!Typed
<1>3. u = IF n < 0 THEN MaxUint + 1 + n ELSE n
  BY DEF Con!Unsigned
<1> HIDE DEF n, u
<1>4. /\ u \in 0 .. MaxUint
      /\ n >= 0 => u = n
      /\ n < 0 => u = MaxUint + 1 + n /\ u > Mantissa
  BY <1>1, <1>2, <1>3
<1>5. Double[u] \in Nat /\ (u <= Mantissa => Double[u] = u)
  BY <1>4 DEF Con!ConstantsTyped, Con!CastsRound
<1>6. n < 0 => Double[u] >= Mantissa
  <2>1. Mantissa \in 0 .. MaxUint /\ Double[Mantissa] = Mantissa
    BY <1>1 DEF Con!ConstantsTyped, Con!CastsRound
  <2>2. n < 0 => Mantissa <= u
    BY <1>1, <1>4
  <2>3. n < 0 => Double[Mantissa] <= Double[u]
    BY <1>4, <2>1, <2>2, DoubleIsMonotone DEF Con!ConstantsTyped
  <2>. QED  BY <2>1, <2>3
<1>7. n \in 0 .. Mantissa => Double[u] = n
  BY <1>1, <1>4, <1>5
<1>. QED  BY <1>2, <1>4, <1>5, <1>6, <1>7 DEF n, u

\* A number within its range passes, one outside does not when both are
\* doubles, and a negative one is beyond every bound.
LEMMA RangesOrdered == ConTypeOK /\ Con!ConstantsTyped => Con!RangesAdmitTheirBounds
<1> SUFFICES ASSUME ConTypeOK, Con!ConstantsTyped,
                    NEW c \in ConstraintSet, c.op \in Con!Ranged,
                    NEW a \in Con!Resolve(left, c.field), Con!Readable(c, a, c.expected)
             PROVE  LET n == Con!Content(a)
                        bound == Con!Content(c.expected)
                        within == IF c.op = "Min" THEN n >= bound ELSE n <= bound
                        satisfied == Con!Satisfied(c, a, c.expected)
                    IN  /\ (n < 0 <=> bound < 0) /\ within => satisfied
                        /\ {n, bound} \subseteq 0 .. Mantissa => satisfied = within
                        /\ n < 0 /\ bound \in 0 .. Mantissa - 1
                             => (satisfied <=> c.op = "Min")
                        /\ bound < 0 /\ n \in 0 .. Mantissa - 1
                             => (satisfied <=> c.op = "Max")
  BY DEF Con!RangesAdmitTheirBounds
<1> DEFINE n == Con!Content(a)
           bound == Con!Content(c.expected)
           u == Con!Unsigned(a)
           w == Con!Unsigned(c.expected)
           d == Double[u]
           e == Double[w]
<1>1. /\ Con!Typed(a) /\ Con!Typed(c.expected)
      /\ {Con!KindOf(a), Con!KindOf(c.expected)} \subseteq {"Uint", "Int"}
  BY FoundIsTyped DEF ConTypeOK, Con!ConstantsTyped, Con!Readable
<1>2. Con!Satisfied(c, a, c.expected) = IF c.op = "Min" THEN d >= e ELSE d <= e
  <2>1. Con!Satisfied(c, a, c.expected) = Con!RangeSatisfied(c, a, c.expected)
    BY DEF Con!Satisfied, Con!Ranged
  <2>. QED  BY <2>1 DEF Con!RangeSatisfied
<1>3. /\ n \in Int /\ bound \in Int /\ d \in Nat /\ e \in Nat
      /\ u \in 0 .. MaxUint /\ w \in 0 .. MaxUint
      /\ n >= 0 => u = n
      /\ n < 0 => u = MaxUint + 1 + n /\ d >= Mantissa
      /\ n \in 0 .. Mantissa => d = n
      /\ bound >= 0 => w = bound
      /\ bound < 0 => w = MaxUint + 1 + bound /\ e >= Mantissa
      /\ bound \in 0 .. Mantissa => e = bound
  BY <1>1, ReadingOfNumbers
<1>4. (u <= w => d <= e) /\ (w <= u => e <= d)
  BY <1>3, DoubleIsMonotone DEF Con!ConstantsTyped
<1>5. MaxUint \in Nat /\ Mantissa \in Nat /\ (c.op = "Min" \/ c.op = "Max")
  BY DEF Con!ConstantsTyped, Con!CastsRound, Con!Ranged
<1> DEFINE least == c.op = "Min"
           within == IF least THEN n >= bound ELSE n <= bound
           satisfied == IF least THEN d >= e ELSE d <= e
<1> HIDE DEF n, bound, u, w, d, e
<1>6. (n < 0 <=> bound < 0) => (n <= bound => u <= w) /\ (bound <= n => w <= u)
  BY <1>3, <1>5
<1>7. (n < 0 <=> bound < 0) /\ within => satisfied
  BY <1>4, <1>6
<1>8. {n, bound} \subseteq 0 .. Mantissa => satisfied = within
  BY <1>3
<1>9. /\ n < 0 /\ bound \in 0 .. Mantissa - 1 => (satisfied <=> least)
      /\ bound < 0 /\ n \in 0 .. Mantissa - 1 => (satisfied <=> ~least)
  BY <1>3, <1>5
<1>. QED  BY <1>2, <1>5, <1>7, <1>8, <1>9 DEF n, bound

\* Versions are compared in the order of the numbers that are read of them,
\* and ranges in the order of numbers of one sign up to what a double holds,
\* whatever callers register (parse_ver, cmp_ver and Constraint::evaluate).
LEMMA OrderInConstraints ==
    ASSUME Con!ConstantsTyped
    PROVE  Con!Spec => []Con!ComparisonsKeepOrder
<1>1. ConTypeOK => Con!ComparisonsKeepOrder
  BY VersionsOrdered, OverflowIsOldest, RangesOrdered DEF Con!ComparisonsKeepOrder
<1>. QED  BY <1>1, ConTypeInvariant, PTL

\* The edits of a query are applied one after another: the recursion has a
\* solution, else there were a least number of edits for which it had none.
LEMMA EditsAreApplied ==
    ASSUME NEW edits, Len(edits) \in Nat
    PROVE  \A n \in 0 .. Len(edits) :
              Con!AfterEdits(edits)[n] =
                 IF n = 0 THEN Con!payloads
                 ELSE Con!EditPair(Con!AfterEdits(edits)[n - 1], edits[n])
<1> DEFINE len == Len(edits)
           Step(f, n) == IF n = 0 THEN Con!payloads ELSE Con!EditPair(f[n - 1], edits[n])
           Solves(f, k) == f = [n \in 0 .. k |-> Step(f, n)]
           none == {k \in 0 .. len : ~\E f : Solves(f, k)}
<1>1. none = {}
  <2> SUFFICES ASSUME none # {} PROVE FALSE
    OBVIOUS
  <2>1. none \in SUBSET Nat
    OBVIOUS
  <2>2. PICK k \in none : \A n \in none : k <= n
    <3> HIDE DEF none
    <3>. QED  BY <2>1, LeastNumber
  <2>3. k \in Nat /\ ~\E f : Solves(f, k)
    BY <2>2
  <2>4. \E f : \A n \in 0 .. k - 1 : f[n] = Step(f, n)
    <3>1. CASE k = 0
      BY <3>1
    <3>2. CASE k # 0
      <4>1. k - 1 \in 0 .. len /\ k - 1 \notin none
        <5>1. k \in 0 .. len
          BY <2>2
        <5>2. k - 1 \in 0 .. len /\ ~(k <= k - 1)
          BY <3>2, <5>1
        <5> HIDE DEF none
        <5>. QED  BY <2>2, <5>2
      <4>2. PICK f : Solves(f, k - 1)
        BY <4>1
      <4>. QED  BY <4>2
    <3>. QED  BY <3>1, <3>2
  <2>5. PICK f : \A n \in 0 .. k - 1 : f[n] = Step(f, n)
    BY <2>4
  <2> DEFINE g == [n \in 0 .. k |-> IF n = k THEN Step(f, k) ELSE f[n]]
  <2>6. ASSUME NEW n \in 0 .. k PROVE Step(g, n) = Step(f, n)
    <3>1. n # 0 => n - 1 \in 0 .. k /\ n - 1 # k
      BY <2>3
    <3>2. n # 0 => g[n - 1] = f[n - 1]
      BY <3>1
    <3> HIDE DEF g
    <3>. QED  BY <3>2
  <2>7. g = [n \in 0 .. k |-> Step(g, n)]
    <3>1. \A n \in 0 .. k : n # k => n \in 0 .. k - 1
      BY <2>3
    <3>2. \A n \in 0 .. k : g[n] = Step(f, n)
      BY <2>5, <3>1
    <3>3. \A n \in 0 .. k : g[n] = Step(g, n)
      <4> HIDE DEF g, Step
      <4>. QED  BY <2>6, <3>2
    <3>4. g = [n \in 0 .. k |-> g[n]]
      OBVIOUS
    <3> HIDE DEF g, Step
    <3>. QED  BY <3>3, <3>4
  <2>. QED  BY <2>3, <2>7
<1>2. \E f : Solves(f, len)
  BY <1>1
<1>3. Con!AfterEdits(edits) = CHOOSE f : Solves(f, len)
  BY DEF Con!AfterEdits
<1>4. Solves(Con!AfterEdits(edits), len)
  <2> HIDE DEF Solves
  <2>. QED  BY <1>2, <1>3
<1> HIDE DEF Step
<1>5. \A n \in 0 .. len : Con!AfterEdits(edits)[n] = Step(Con!AfterEdits(edits), n)
  BY <1>4
<1>. QED  BY <1>5 DEF Step

\* The sequences of a query have every edit of a finite set.
LEMMA EditsInSomeOrder ==
    ASSUME NEW S, IsFiniteSet(S), NEW edits \in Con!SetToSeqs(S)
    PROVE  /\ Len(edits) \in Nat
           /\ \A i \in 1 .. Len(edits) : edits[i] \in S
           /\ \A e \in S : \E i \in 1 .. Len(edits) : edits[i] = e
<1> DEFINE D == 1 .. Cardinality(S)
<1>1. Cardinality(S) \in Nat /\ Con!Cardinality(S) = Cardinality(S)
  BY FS_CardinalityType DEF Con!Cardinality, Cardinality
<1>2. edits \in [D -> S] /\ \A i, j \in D : i # j => edits[i] # edits[j]
  BY <1>1 DEF Con!SetToSeqs
<1>3. edits \in Injection(D, S)
  BY <1>2 DEF Injection, IsInjective
<1>4. IsFiniteSet(D) /\ Cardinality(D) = Cardinality(S)
  BY <1>1, FS_Interval
<1>5. edits \in Surjection(D, S)
  <2> HIDE DEF D
  <2>. QED  BY <1>3, <1>4, FS_Injection
<1>6. Len(edits) = Cardinality(S)
  BY <1>1, <1>2
<1>. QED  BY <1>1, <1>2, <1>5, <1>6 DEF Surjection

\* What a query changes on one side is a finite number of fields.
LEMMA EditsAreFinite ==
    ASSUME NEW old, NEW new, IsFiniteSet(DOMAIN old)
    PROVE  IsFiniteSet(Con!Edits(old, new))
<1> DEFINE changed == {g \in DOMAIN old : new[g] # old[g]}
           edit == [f \in changed |-> [field |-> <<f>>, value |-> new[f]]]
<1>1. IsFiniteSet(changed)
  BY FS_Subset
<1>2. Con!Edits(old, new) = {edit[f] : f \in changed}
  BY DEF Con!Edits
<1>3. edit \in Surjection(changed, Con!Edits(old, new))
  <2>1. DOMAIN edit = changed
    OBVIOUS
  <2> HIDE DEF edit, changed
  <2>2. edit \in [changed -> Con!Edits(old, new)]
    <3>1. edit = [f \in changed |-> edit[f]]
      BY DEF edit
    <3>. QED  BY <1>2, <3>1
  <2>. QED  BY <1>2, <2>2 DEF Surjection
<1> HIDE DEF edit, changed
<1>. QED  BY <1>1, <1>3, FS_Surjection

\* Side p after the first n edits: those of old have been made.
Edited(old, new, edits, n) ==
    [f \in DOMAIN old |->
        IF \E i \in 1 .. n : edits[i] \in Con!Edits(old, new) /\ edits[i].field = <<f>>
        THEN new[f] ELSE old[f]]

\* The next edit changes the side it is made on.
LEMMA EditIsMade ==
    ASSUME NEW old, NEW new, NEW edits, NEW n \in Nat, n # 0,
           NEW f \in DOMAIN old, new[f] # old[f],
           edits[n] = [field |-> <<f>>, value |-> new[f]]
    PROVE  Con!ApplyEdit(Edited(old, new, edits, n - 1), edits[n]) = Edited(old, new, edits, n)
<1> DEFINE p == Edited(old, new, edits, n - 1)
           q == Edited(old, new, edits, n)
           Made(i, g) == edits[i] \in Con!Edits(old, new) /\ edits[i].field = <<g>>
<1>1. edits[n].field = <<f>> /\ edits[n].field[1] = f /\ edits[n].value = new[f]
  OBVIOUS
<1>2. edits[n] \in Con!Edits(old, new)
  BY DEF Con!Edits
<1>3. DOMAIN p = DOMAIN old /\ DOMAIN q = DOMAIN old
  BY DEF Edited
<1>4. q[f] = new[f]
  <2>1. Made(n, f) /\ n \in 1 .. n
    BY <1>1, <1>2
  <2>. QED  BY <2>1 DEF Edited
<1>5. ASSUME NEW g \in DOMAIN old, g # f PROVE q[g] = p[g]
  <2>1. <<g>> # <<f>>
    BY <1>5
  <2>2. ~Made(n, g)
    BY <1>1, <2>1
  <2>3. (\E i \in 1 .. n : Made(i, g)) <=> (\E i \in 1 .. n - 1 : Made(i, g))
    <3>1. \A i \in 1 .. n : i = n \/ i \in 1 .. n - 1
      OBVIOUS
    <3>2. \A i \in 1 .. n - 1 : i \in 1 .. n
      OBVIOUS
    <3> HIDE DEF Made
    <3>. QED  BY <2>2, <3>1, <3>2
  <2>. QED  BY <2>3 DEF Edited
<1>6. Con!ApplyEdit(p, edits[n]) = [p EXCEPT ![f] = new[f]]
  BY <1>1 DEF Con!ApplyEdit
<1>7. q = [g \in DOMAIN old |-> q[g]] /\ p = [g \in DOMAIN old |-> p[g]]
  BY DEF Edited
<1> HIDE DEF p, q
<1>8. q = [p EXCEPT ![f] = new[f]]
  BY <1>3, <1>4, <1>5, <1>7
<1>. QED  BY <1>6, <1>8 DEF p, q

\* An edit of the other side leaves it as it is.
LEMMA OtherSideStays ==
    ASSUME NEW old, NEW new, NEW edits, NEW n \in Nat, n # 0,
           edits[n] \notin Con!Edits(old, new)
    PROVE  Edited(old, new, edits, n) = Edited(old, new, edits, n - 1)
<1> DEFINE Made(i, g) == edits[i] \in Con!Edits(old, new) /\ edits[i].field = <<g>>
<1>1. ASSUME NEW g
      PROVE  (\E i \in 1 .. n : Made(i, g)) <=> (\E i \in 1 .. n - 1 : Made(i, g))
  <2>1. \A i \in 1 .. n : i = n \/ i \in 1 .. n - 1
    OBVIOUS
  <2>2. \A i \in 1 .. n - 1 : i \in 1 .. n
    OBVIOUS
  <2>3. ~Made(n, g)
    OBVIOUS
  <2> HIDE DEF Made
  <2>. QED  BY <2>1, <2>2, <2>3
<1>. QED  BY <1>1 DEF Edited

IsRecord(p) == p = [f \in DOMAIN p |-> p[f]]

\* After the edits each side has those of its own that were among them.
LEMMA SidesAfterEdits ==
    ASSUME NEW l, NEW r, NEW edits, Len(edits) \in Nat,
           IsRecord(left), IsRecord(right),
           \A i \in 1 .. Len(edits) :
              edits[i] \in Con!Edits(left, l) \cup Con!Edits(right, r),
           \A e \in Con!Edits(left, l) : e.field[1] \notin DOMAIN right
    PROVE  Con!Counterfactual(edits) =
              <<Edited(left, l, edits, Len(edits)), Edited(right, r, edits, Len(edits))>>
<1> DEFINE len == Len(edits)
           after == Con!AfterEdits(edits)
           Sides(n) == <<Edited(left, l, edits, n), Edited(right, r, edits, n)>>
           wrong == {n \in 0 .. len : after[n] # Sides(n)}
<1>1. \A n \in 0 .. len :
         after[n] = IF n = 0 THEN Con!payloads ELSE Con!EditPair(after[n - 1], edits[n])
  BY EditsAreApplied
<1>2. Sides(0) = Con!payloads
  <2>1. 1 .. 0 = {}
    OBVIOUS
  <2>2. Edited(left, l, edits, 0) = left /\ Edited(right, r, edits, 0) = right
    BY <2>1 DEF Edited, IsRecord
  <2>. QED  BY <2>2 DEF Con!payloads
<1>3. ASSUME NEW g
      PROVE  /\ Con!Resolve(right, <<g>>) # {} <=> g \in DOMAIN right
             /\ \A n : /\ Con!Resolve(Sides(n)[1], <<g>>) # {} <=> g \in DOMAIN left
                       /\ Con!Resolve(Sides(n)[2], <<g>>) # {} <=> g \in DOMAIN right
  <2>1. \A p : Con!Resolve(p, <<g>>) # {} <=> g \in DOMAIN p
    BY DEF Con!Resolve, Con!FieldOf
  <2>2. \A n : DOMAIN Sides(n)[1] = DOMAIN left /\ DOMAIN Sides(n)[2] = DOMAIN right
    BY DEF Edited
  <2> HIDE DEF Sides
  <2>. QED  BY <2>1, <2>2
<1>4. ASSUME NEW n \in 1 .. len PROVE Con!EditPair(Sides(n - 1), edits[n]) = Sides(n)
  <2> DEFINE L(k) == Edited(left, l, edits, k)
             R(k) == Edited(right, r, edits, k)
  <2>0. n \in Nat /\ n # 0
    OBVIOUS
  <2>1. CASE edits[n] \in Con!Edits(left, l)
    <3>1. PICK g \in DOMAIN left :
             l[g] # left[g] /\ edits[n] = [field |-> <<g>>, value |-> l[g]]
      BY <2>1 DEF Con!Edits
    <3>2. edits[n].field = <<g>> /\ edits[n].field[1] = g
      BY <3>1
    <3>3. g \notin DOMAIN right
      BY <2>1, <3>2
    <3>4. edits[n] \notin Con!Edits(right, r)
      <4> SUFFICES ASSUME edits[n] \in Con!Edits(right, r) PROVE FALSE
        OBVIOUS
      <4>1. PICK h \in DOMAIN right : edits[n] = [field |-> <<h>>, value |-> r[h]]
        BY DEF Con!Edits
      <4>2. edits[n].field[1] = h
        BY <4>1
      <4>. QED  BY <3>2, <3>3, <4>2
    <3>5. Con!ApplyEdit(L(n - 1), edits[n]) = L(n)
      BY <2>0, <3>1, EditIsMade
    <3>6. R(n) = R(n - 1)
      BY <2>0, <3>4, OtherSideStays
    <3>7. /\ Con!Resolve(right, edits[n].field) = {}
          /\ Con!Resolve(Sides(n - 1)[1], edits[n].field) # {}
      <4> HIDE DEF Sides
      <4>. QED  BY <1>3, <3>1, <3>2, <3>3
    <3>8. Con!EditPair(Sides(n - 1), edits[n])
             = <<Con!ApplyEdit(Sides(n - 1)[1], edits[n]), Sides(n - 1)[2]>>
      <4> HIDE DEF Sides
      <4>. QED  BY <3>7 DEF Con!EditPair
    <3> HIDE DEF L, R
    <3>9. Sides(n - 1)[1] = L(n - 1) /\ Sides(n - 1)[2] = R(n - 1) /\ Sides(n) = <<L(n), R(n)>>
      BY DEF L, R
    <3> HIDE DEF Sides
    <3>. QED  BY <3>5, <3>6, <3>8, <3>9
  <2>2. CASE edits[n] \in Con!Edits(right, r)
    <3>1. PICK g \in DOMAIN right :
             r[g] # right[g] /\ edits[n] = [field |-> <<g>>, value |-> r[g]]
      BY <2>2 DEF Con!Edits
    <3>2. edits[n].field = <<g>> /\ edits[n].field[1] = g
      BY <3>1
    <3>3. edits[n] \notin Con!Edits(left, l)
      BY <3>1, <3>2
    <3>5. Con!ApplyEdit(R(n - 1), edits[n]) = R(n)
      BY <2>0, <3>1, EditIsMade
    <3>6. L(n) = L(n - 1)
      BY <2>0, <3>3, OtherSideStays
    <3>7. /\ Con!Resolve(right, edits[n].field) # {}
          /\ Con!Resolve(Sides(n - 1)[2], edits[n].field) # {}
      <4> HIDE DEF Sides
      <4>. QED  BY <1>3, <3>1, <3>2
    <3>8. Con!EditPair(Sides(n - 1), edits[n])
             = <<Sides(n - 1)[1], Con!ApplyEdit(Sides(n - 1)[2], edits[n])>>
      <4> HIDE DEF Sides
      <4>. QED  BY <3>7 DEF Con!EditPair
    <3> HIDE DEF L, R
    <3>9. Sides(n - 1)[1] = L(n - 1) /\ Sides(n - 1)[2] = R(n - 1) /\ Sides(n) = <<L(n), R(n)>>
      BY DEF L, R
    <3> HIDE DEF Sides
    <3>. QED  BY <3>5, <3>6, <3>8, <3>9
  <2>. QED  BY <2>1, <2>2
<1> HIDE DEF Sides, after
<1>5. wrong = {}
  <2> SUFFICES ASSUME wrong # {} PROVE FALSE
    OBVIOUS
  <2>1. wrong \in SUBSET Nat
    OBVIOUS
  <2>2. PICK n \in wrong : \A m \in wrong : n <= m
    <3> HIDE DEF wrong
    <3>. QED  BY <2>1, LeastNumber
  <2>3. n \in 0 .. len /\ after[n] # Sides(n)
    BY <2>2
  <2>4. n # 0
    BY <1>1, <1>2, <2>3
  <2>5. n \in 1 .. len /\ n - 1 \in 0 .. len /\ ~(n <= n - 1)
    BY <2>3, <2>4
  <2>6. after[n - 1] = Sides(n - 1)
    BY <2>2, <2>5
  <2>7. after[n] = Con!EditPair(after[n - 1], edits[n])
    BY <1>1, <2>3, <2>4
  <2>. QED  BY <1>4, <2>3, <2>5, <2>6, <2>7
<1>6. after[len] = Sides(len)
  BY <1>5
<1>. QED  BY <1>6 DEF Con!Counterfactual, after, Sides

\* All edits of a side together make the new payload of the old.
LEMMA AllEditsMade ==
    ASSUME NEW old, NEW new, DOMAIN new = DOMAIN old, IsRecord(new), NEW edits,
           \A e \in Con!Edits(old, new) : \E i \in 1 .. Len(edits) : edits[i] = e
    PROVE  Edited(old, new, edits, Len(edits)) = new
<1> DEFINE p == Edited(old, new, edits, Len(edits))
<1>1. ASSUME NEW g \in DOMAIN old PROVE p[g] = new[g]
  <2>1. CASE new[g] = old[g]
    BY <2>1 DEF Edited
  <2>2. CASE new[g] # old[g]
    <3> DEFINE e == [field |-> <<g>>, value |-> new[g]]
    <3>1. e \in Con!Edits(old, new) /\ e.field = <<g>>
      BY <2>2 DEF Con!Edits
    <3>2. PICK i \in 1 .. Len(edits) : edits[i] = e
      BY <3>1
    <3>3. edits[i] \in Con!Edits(old, new) /\ edits[i].field = <<g>>
      BY <3>1, <3>2
    <3>. QED  BY <3>3 DEF Edited
  <2>. QED  BY <2>1, <2>2
<1>2. p = [g \in DOMAIN old |-> p[g]]
  BY DEF Edited
<1> HIDE DEF p
<1>3. p = new
  BY <1>1, <1>2 DEF IsRecord
<1>. QED  BY <1>3 DEF p

\* A counterfactual query evaluates what a supersede with its edits would leave,
\* in whatever order they come (counterfactual_pair).
LEMMA QueriesInConstraints ==
    ASSUME Con!PayloadsAreRecords
    PROVE  Con!Spec => [][Con!CounterfactualForetells]_(Con!payloads)
<1>1. ASSUME ConTypeOK, ConTypeOK',
             DOMAIN left' = DOMAIN left, DOMAIN right' = DOMAIN right,
             \A e \in Con!Edits(left, left') : e.field[1] \notin DOMAIN right,
             NEW edits \in Con!SetToSeqs(Con!Edits(left, left') \cup Con!Edits(right, right'))
      PROVE  Con!Counterfactual(edits) = Con!payloads'
  <2> DEFINE S == Con!Edits(left, left') \cup Con!Edits(right, right')
  <2>1. /\ IsFiniteSet(DOMAIN left) /\ IsFiniteSet(DOMAIN right)
        /\ IsRecord(left) /\ IsRecord(right) /\ IsRecord(left') /\ IsRecord(right')
    <3>1. \A p \in LeftPayload \cup RightPayload :
             IsFiniteSet(DOMAIN p) /\ IsRecord(p)
      BY DEF Con!PayloadsAreRecords, Con!IsFiniteSet, IsFiniteSet, IsRecord
    <3>2. /\ left \in LeftPayload \cup RightPayload /\ right \in LeftPayload \cup RightPayload
          /\ left' \in LeftPayload \cup RightPayload /\ right' \in LeftPayload \cup RightPayload
      BY <1>1 DEF ConTypeOK
    <3>. QED  BY <3>1, <3>2
  <2>2. IsFiniteSet(S)
    BY <2>1, EditsAreFinite, FS_Union
  <2>3. /\ Len(edits) \in Nat
        /\ \A i \in 1 .. Len(edits) : edits[i] \in S
        /\ \A e \in S : \E i \in 1 .. Len(edits) : edits[i] = e
    <3>1. edits \in Con!SetToSeqs(S)
      BY <1>1
    <3> HIDE DEF S
    <3>. QED  BY <2>2, <3>1, EditsInSomeOrder
  <2>4. Con!Counterfactual(edits) =
           <<Edited(left, left', edits, Len(edits)), Edited(right, right', edits, Len(edits))>>
    <3>1. \A i \in 1 .. Len(edits) :
             edits[i] \in Con!Edits(left, left') \cup Con!Edits(right, right')
      BY <2>3
    <3>. QED  BY <1>1, <2>1, <2>3, <3>1, SidesAfterEdits, Zenon
  <2>5. Edited(left, left', edits, Len(edits)) = left'
    BY <1>1, <2>1, <2>3, AllEditsMade
  <2>6. Edited(right, right', edits, Len(edits)) = right'
    BY <1>1, <2>1, <2>3, AllEditsMade
  <2>. QED  BY <2>4, <2>5, <2>6 DEF Con!payloads
<1>2. ConTypeOK /\ ConTypeOK' => Con!CounterfactualForetells
  BY <1>1 DEF Con!CounterfactualForetells
<1>3. ConTypeOK /\ ConTypeOK' /\ [Con!Next]_(Con!payloads)
        => [Con!CounterfactualForetells]_(Con!payloads)
  BY <1>2
<1>. QED  BY <1>3, ConTypeInvariant, PTL DEF Con!Spec

-----------------------------------------------------------------------------
(* Rules are saved, loaded and sent.                                       *)

\* The constraints and the rules of callers, and those the registry makes of
\* them.
ClauseForm ==
    [op : Sub!C!PredOp, field : Seq(STRING), right_field : Seq(STRING),
     expected : {c.expected : c \in Sub!Clause},
     set : SUBSET UNION {c.set : c \in Sub!Clause}]

RuleForm ==
    {r \in [rule_id : Nat \ {0}, scope : STRING, priority : Int,
            left_kind : SUBSET STRING, right_kind : SUBSET STRING,
            kind : Sub!E!RuleKind, outcome : Sub!E!Outcome,
            required : SUBSET ClauseForm, any_of : SUBSET ClauseForm,
            incompatible_with : Seq(ClauseForm), conditions : SUBSET ClauseForm] :
        Sub!AtMostOne(r.left_kind) /\ Sub!AtMostOne(r.right_kind)}

\* What is read of a constraint that was sent.
SentConstraint(c) == Sub!DecConstraintWire(Sub!EncConstraintWire(c))

SentRule(r) == Sub!RuleReceived(Sub!RuleMessage(r))

\* What register_rule is given of a rule, here and over the wire.
Kept(r, remote) == IF remote THEN SentRule(r) ELSE r

\* What is held under an id is what was asked for: what was given, or what the
\* wire made of it.
EntryOK(i, a, rr) ==
    /\ a.sent \in Submitted /\ a.remote \in BOOLEAN /\ a.active \in BOOLEAN
    /\ a = [rule |-> Kept(a.sent, a.remote), active |-> a.active,
            sent |-> a.sent, remote |-> a.remote]
    /\ rr = [rule |-> a.rule, active |-> a.active]
    /\ a.rule.rule_id = i

SubmissionsInv ==
    /\ DOMAIN asked = DOMAIN submitted
    /\ \A i \in DOMAIN submitted : EntryOK(i, asked[i], submitted[i])

LEMMA EntryChanged ==
    ASSUME NEW R, NEW A, NEW S, NEW Q, NEW B, NEW a, NEW rr,
           a = [rule |-> R, active |-> A, sent |-> S, remote |-> Q],
           rr = [rule |-> R, active |-> A]
    PROVE  /\ [a EXCEPT !.active = B]
                  = [rule |-> R, active |-> B, sent |-> S, remote |-> Q]
           /\ [rr EXCEPT !.active = B] = [rule |-> R, active |-> B]
OBVIOUS

LEMMA SubmittedRules == Sub!LibraryTyped => Submitted \subseteq RuleForm
<1> SUFFICES ASSUME Sub!LibraryTyped, NEW r \in Submitted PROVE r \in RuleForm
  OBVIOUS
<1>1. Sub!Clause \subseteq ClauseForm
  BY DEF Sub!LibraryTyped, ClauseForm
<1>2. /\ r \in [rule_id : Nat \ {0}, scope : STRING, priority : Int,
                left_kind : SUBSET STRING, right_kind : SUBSET STRING,
                kind : Sub!E!RuleKind, outcome : Sub!E!Outcome, required : SUBSET Sub!Clause,
                any_of : SUBSET Sub!Clause, incompatible_with : Seq(Sub!Clause),
                conditions : SUBSET Sub!Clause]
      /\ Sub!AtMostOne(r.left_kind) /\ Sub!AtMostOne(r.right_kind)
  BY DEF Sub!LibraryTyped
<1>3. r.incompatible_with \in Seq(ClauseForm)
  BY <1>1, <1>2
<1>. QED  BY <1>1, <1>2, <1>3 DEF RuleForm

\* A constraint is read from a file as it was written.
LEMMA ConstraintReadBack ==
    ASSUME NEW c \in ClauseForm
    PROVE  Sub!DecConstraint(Sub!EncConstraint(c)) = c
<1> DEFINE x == Sub!EncConstraint(c)
<1>1. /\ DOMAIN x = {1, 2, 3, 4, 6}
      /\ x[1] = <<"Uint", c.op>> /\ x[2] = <<"Str", c.field>>
      /\ x[3] = <<"Str", c.right_field>> /\ x[4] = c.expected
      /\ x[6] = <<"Sequence", c.set>>
  BY DEF Sub!EncConstraint
<1> HIDE DEF x
<1>2. Sub!DecConstraint(x) = [op |-> c.op, field |-> c.field, right_field |-> c.right_field,
                              expected |-> c.expected, set |-> c.set]
  BY <1>1 DEF Sub!DecConstraint, Sub!Read
<1>. QED  BY <1>2 DEF x, ClauseForm

\* The wire takes a constraint across, but for its set.
LEMMA ConstraintReceived ==
    ASSUME NEW c \in ClauseForm
    PROVE  SentConstraint(c) = [c EXCEPT !.set = {}]
<1> DEFINE x == Sub!EncConstraintWire(c)
<1>1. /\ DOMAIN x = 1 .. 4
      /\ x[1] = <<"Uint", c.op>> /\ x[2] = <<"Str", c.field>>
      /\ x[3] = <<"Str", c.right_field>> /\ x[4] = c.expected
  BY DEF Sub!EncConstraintWire
<1> HIDE DEF x
<1>2. Sub!DecConstraintWire(x) = [op |-> c.op, field |-> c.field, right_field |-> c.right_field,
                                  expected |-> c.expected, set |-> {}]
  BY <1>1 DEF Sub!DecConstraintWire, Sub!Read
<1>3. c = [op |-> c.op, field |-> c.field, right_field |-> c.right_field,
           expected |-> c.expected, set |-> c.set]
  BY DEF ClauseForm
<1>4. [c EXCEPT !.set = {}] = [op |-> c.op, field |-> c.field, right_field |-> c.right_field,
                               expected |-> c.expected, set |-> {}]
  <2> DEFINE o == c.op  f == c.field  g == c.right_field  e == c.expected  s == c.set
  <2>1. c = [op |-> o, field |-> f, right_field |-> g, expected |-> e, set |-> s]
    BY <1>3
  <2> HIDE DEF o, f, g, e, s
  <2>2. [c EXCEPT !.set = {}]
          = [op |-> o, field |-> f, right_field |-> g, expected |-> e, set |-> {}]
    BY <2>1
  <2>. QED  BY <2>2 DEF o, f, g, e
<1>. QED  BY <1>2, <1>4 DEF x, SentConstraint

\* A list is read element by element.
LEMMA ListReadBack ==
    ASSUME NEW S \in SUBSET ClauseForm
    PROVE  {Sub!DecConstraint(y) : y \in {Sub!EncConstraint(c) : c \in S}} = S
BY ConstraintReadBack

\* A kind that is written is read, and none is read as none.
LEMMA KindReadBack ==
    ASSUME NEW x, NEW tag, NEW kinds, Sub!AtMostOne(kinds),
           tag \in DOMAIN x <=> kinds # {},
           tag \in DOMAIN x => x[tag] = <<"Uint", CHOOSE k \in kinds : TRUE>>
    PROVE  Sub!Optional(x, tag) = kinds
<1>1. CASE kinds = {}
  BY <1>1 DEF Sub!Optional
<1>2. CASE kinds # {}
  <2>1. PICK k \in kinds : k = CHOOSE l \in kinds : TRUE
    BY <1>2
  <2>2. kinds = {k}
    BY <2>1 DEF Sub!AtMostOne
  <2>3. x[tag][1] = "Uint" /\ x[tag][2] = k /\ tag \in DOMAIN x
    BY <1>2, <2>1
  <2>. QED  BY <2>2, <2>3 DEF Sub!Optional
<1>. QED  BY <1>1, <1>2

\* A rule is read from a file as it was written, and in use when it was.
LEMMA RuleReadBack ==
    ASSUME NEW r \in RuleForm, NEW inUse \in BOOLEAN
    PROVE  Sub!DecRule(Sub!EncRule(r, inUse)) = [rule |-> r, active |-> inUse]
<1> DEFINE x == Sub!EncRule(r, inUse)
           veto == [i \in DOMAIN r.incompatible_with |->
                       Sub!EncConstraint(r.incompatible_with[i])]
           required == {Sub!EncConstraint(c) : c \in r.required}
           any_of == {Sub!EncConstraint(c) : c \in r.any_of}
           conditions == {Sub!EncConstraint(c) : c \in r.conditions}
           Tags == {1, 4, 5, 6, 9, 10, 11, 12, 13, 14}
           first == CHOOSE k \in r.left_kind : TRUE
           second == CHOOSE k \in r.right_kind : TRUE
<1>1. /\ Tags \subseteq DOMAIN x
      /\ 7 \in DOMAIN x <=> r.left_kind # {}
      /\ 8 \in DOMAIN x <=> r.right_kind # {}
      /\ 7 \in DOMAIN x => x[7] = <<"Uint", first>>
      /\ 8 \in DOMAIN x => x[8] = <<"Uint", second>>
      /\ x[1] = <<"Uuid", r.rule_id>> /\ x[4] = <<"Str", r.scope>>
      /\ x[5] = <<"Int", r.priority>> /\ x[6] = <<"Bool", inUse>>
      /\ x[9] = <<"Uint", r.kind>> /\ x[10] = <<"Uint", r.outcome>>
      /\ x[11] = <<"Sequence", required>> /\ x[12] = <<"Sequence", any_of>>
      /\ x[13] = <<"Sequence", veto>> /\ x[14] = <<"Sequence", conditions>>
  BY DEF Sub!EncRule
<1> HIDE DEF x
<1>2. /\ Sub!Read(x, 1, "Uuid", 0) = r.rule_id /\ Sub!Read(x, 4, "Str", "") = r.scope
      /\ Sub!Read(x, 5, "Int", 0) = r.priority /\ Sub!Read(x, 9, "Uint", "Default") = r.kind
      /\ Sub!Read(x, 10, "Uint", "Compatible") = r.outcome /\ Sub!DecActive(x) = inUse
      /\ Sub!Read(x, 11, "Sequence", {}) = required
      /\ Sub!Read(x, 12, "Sequence", {}) = any_of
      /\ Sub!Read(x, 13, "Sequence", <<>>) = veto
      /\ Sub!Read(x, 14, "Sequence", {}) = conditions
  <2> HIDE DEF required, any_of, veto, conditions
  <2>. QED  BY <1>1 DEF Sub!Read, Sub!DecActive
<1>3. Sub!Optional(x, 7) = r.left_kind /\ Sub!Optional(x, 8) = r.right_kind
  <2>1. Sub!AtMostOne(r.left_kind) /\ Sub!AtMostOne(r.right_kind)
    BY DEF RuleForm
  <2> HIDE DEF required, veto, any_of, conditions
  <2>2. Sub!Optional(x, 7) = r.left_kind
    BY <1>1, <2>1, KindReadBack
  <2>3. Sub!Optional(x, 8) = r.right_kind
    BY <1>1, <2>1, KindReadBack
  <2>. QED  BY <2>2, <2>3
<1>4. /\ {Sub!DecConstraint(y) : y \in required} = r.required
      /\ {Sub!DecConstraint(y) : y \in any_of} = r.any_of
      /\ {Sub!DecConstraint(y) : y \in conditions} = r.conditions
  BY ListReadBack DEF RuleForm
<1>5. [i \in DOMAIN veto |-> Sub!DecConstraint(veto[i])] = r.incompatible_with
  <2>1. /\ r.incompatible_with \in Seq(ClauseForm)
        /\ \A i \in DOMAIN r.incompatible_with : r.incompatible_with[i] \in ClauseForm
    BY DEF RuleForm
  <2>2. /\ DOMAIN veto = DOMAIN r.incompatible_with
        /\ \A i \in DOMAIN veto : Sub!DecConstraint(veto[i]) = r.incompatible_with[i]
    BY <2>1, ConstraintReadBack
  <2> HIDE DEF veto
  <2>3. r.incompatible_with = [i \in DOMAIN r.incompatible_with |-> r.incompatible_with[i]]
    BY <2>1
  <2>. QED  BY <2>2, <2>3
<1> HIDE DEF required, any_of, veto, conditions
<1>6. Sub!DecRule(x)
        = [rule |-> [rule_id |-> r.rule_id, scope |-> r.scope, priority |-> r.priority,
                     left_kind |-> r.left_kind, right_kind |-> r.right_kind,
                     kind |-> r.kind, outcome |-> r.outcome, required |-> r.required,
                     any_of |-> r.any_of, incompatible_with |-> r.incompatible_with,
                     conditions |-> r.conditions],
           active |-> inUse]
  BY <1>2, <1>3, <1>4, <1>5 DEF Sub!DecRule
<1>. QED  BY <1>6 DEF x, RuleForm

\* What is read of a rule that was sent: of its lists, two, and without their
\* sets.
LEMMA RuleSent ==
    ASSUME NEW r \in RuleForm
    PROVE  SentRule(r)
             = [rule_id |-> r.rule_id, scope |-> r.scope, priority |-> r.priority,
                left_kind |-> r.left_kind, right_kind |-> r.right_kind,
                kind |-> "Default", outcome |-> r.outcome,
                required |-> {SentConstraint(c) : c \in r.required}, any_of |-> {},
                incompatible_with |-> [i \in DOMAIN r.incompatible_with |->
                                          SentConstraint(r.incompatible_with[i])],
                conditions |-> {}]
<1> DEFINE x == Sub!RuleMessage(r)
           veto == [i \in DOMAIN r.incompatible_with |->
                       Sub!EncConstraintWire(r.incompatible_with[i])]
           required == {Sub!EncConstraintWire(c) : c \in r.required}
           Tags == {4, 6, 8, 9, 10, 11}
           first == CHOOSE k \in r.left_kind : TRUE
           second == CHOOSE k \in r.right_kind : TRUE
<1>1. /\ Tags \subseteq DOMAIN x
      /\ 12 \in DOMAIN x <=> r.left_kind # {}
      /\ 13 \in DOMAIN x <=> r.right_kind # {}
      /\ 12 \in DOMAIN x => x[12] = <<"Uint", first>>
      /\ 13 \in DOMAIN x => x[13] = <<"Uint", second>>
      /\ x[4] = <<"Uuid", r.rule_id>> /\ x[6] = <<"Str", r.scope>>
      /\ x[8] = <<"Int", r.priority>> /\ x[9] = <<"Uint", r.outcome>>
      /\ x[10] = <<"Sequence", required>> /\ x[11] = <<"Sequence", veto>>
  BY DEF Sub!RuleMessage
<1> HIDE DEF x
<1>2. /\ Sub!Read(x, 4, "Uuid", 0) = r.rule_id /\ Sub!Read(x, 6, "Str", "") = r.scope
      /\ Sub!Read(x, 8, "Int", 0) = r.priority
      /\ Sub!Read(x, 9, "Uint", "Compatible") = r.outcome
      /\ Sub!Read(x, 10, "Sequence", {}) = required
      /\ Sub!Read(x, 11, "Sequence", <<>>) = veto
  <2> HIDE DEF required, veto
  <2>. QED  BY <1>1 DEF Sub!Read
<1>3. Sub!Optional(x, 12) = r.left_kind /\ Sub!Optional(x, 13) = r.right_kind
  <2>1. Sub!AtMostOne(r.left_kind) /\ Sub!AtMostOne(r.right_kind)
    BY DEF RuleForm
  <2> HIDE DEF required, veto
  <2>2. Sub!Optional(x, 12) = r.left_kind
    BY <1>1, <2>1, KindReadBack
  <2>3. Sub!Optional(x, 13) = r.right_kind
    BY <1>1, <2>1, KindReadBack
  <2>. QED  BY <2>2, <2>3
<1>4. {Sub!DecConstraintWire(y) : y \in required} = {SentConstraint(c) : c \in r.required}
  BY DEF SentConstraint
<1>5. [i \in DOMAIN veto |-> Sub!DecConstraintWire(veto[i])]
        = [i \in DOMAIN r.incompatible_with |-> SentConstraint(r.incompatible_with[i])]
  BY DEF SentConstraint
<1> HIDE DEF required, veto
<1>. QED  BY <1>2, <1>3, <1>4, <1>5 DEF Sub!RuleReceived, SentRule, x

\* What the wire makes of a rule is a rule.
LEMMA KeptIsRule ==
    ASSUME Sub!LibraryTyped, NEW r \in Submitted, NEW remote \in BOOLEAN
    PROVE  Kept(r, remote) \in RuleForm /\ Kept(r, remote).rule_id = r.rule_id
<1>0. r \in RuleForm
  BY SubmittedRules
<1>1. \A c \in ClauseForm : SentConstraint(c) \in ClauseForm
  BY ConstraintReceived DEF ClauseForm
<1> DEFINE required == {SentConstraint(c) : c \in r.required}
           veto == [i \in DOMAIN r.incompatible_with |->
                       SentConstraint(r.incompatible_with[i])]
<1>2. required \in SUBSET ClauseForm
  BY <1>0, <1>1 DEF RuleForm
<1>3. veto \in Seq(ClauseForm)
  <2>1. r.incompatible_with \in Seq(ClauseForm)
    BY <1>0 DEF RuleForm
  <2>. QED  BY <1>1, <2>1
<1>4. "Default" \in Sub!E!RuleKind
  BY DEF Sub!E!RuleKind
<1>5. SentRule(r) = [rule_id |-> r.rule_id, scope |-> r.scope, priority |-> r.priority,
                left_kind |-> r.left_kind, right_kind |-> r.right_kind,
                kind |-> "Default", outcome |-> r.outcome, required |-> required,
                any_of |-> {}, incompatible_with |-> veto, conditions |-> {}]
  BY <1>0, RuleSent
<1> HIDE DEF required, veto
<1>6. SentRule(r) \in RuleForm /\ SentRule(r).rule_id = r.rule_id
  BY <1>0, <1>2, <1>3, <1>4, <1>5 DEF RuleForm
<1>. QED  BY <1>0, <1>6 DEF Kept

\* Saved and loaded, what is held stays, under its id.
LEMMA LoadedAsSaved ==
    ASSUME Sub!LibraryTyped, SubmissionsInv, Sub!SaveAndLoad
    PROVE  /\ DOMAIN submitted' = DOMAIN submitted
           /\ \A i \in DOMAIN submitted : submitted'[i] = submitted[i]
<1> DEFINE loaded == {Sub!Reloaded(submitted[i]) : i \in DOMAIN submitted}
           Id(rr) == rr.rule.rule_id
<1>1. \A i \in DOMAIN submitted :
         Sub!Reloaded(submitted[i]) = submitted[i] /\ Id(submitted[i]) = i
  <2> SUFFICES ASSUME NEW i \in DOMAIN submitted
               PROVE  Sub!Reloaded(submitted[i]) = submitted[i] /\ Id(submitted[i]) = i
    OBVIOUS
  <2>1. /\ asked[i].sent \in Submitted /\ asked[i].remote \in BOOLEAN
        /\ asked[i].active \in BOOLEAN /\ asked[i].rule = Kept(asked[i].sent, asked[i].remote)
        /\ submitted[i] = [rule |-> asked[i].rule, active |-> asked[i].active]
        /\ asked[i].rule.rule_id = i
    BY DEF SubmissionsInv, EntryOK
  <2>2. asked[i].rule \in RuleForm
    BY <2>1, KeptIsRule
  <2>. QED  BY <2>1, <2>2, RuleReadBack DEF Sub!Reloaded
<1>2. loaded = {submitted[i] : i \in DOMAIN submitted}
  BY <1>1
<1>3. submitted' = [i \in {Id(rr) : rr \in loaded} |-> CHOOSE rr \in loaded : Id(rr) = i]
  BY DEF Sub!SaveAndLoad
<1> HIDE DEF loaded, Id
<1>4. {Id(rr) : rr \in loaded} = DOMAIN submitted
  BY <1>1, <1>2
<1>5. \A i \in DOMAIN submitted : (CHOOSE rr \in loaded : Id(rr) = i) = submitted[i]
  BY <1>1, <1>2
<1>. QED  BY <1>3, <1>4, <1>5

\* Every operation keeps what is held and what was asked for together, save
\* and load included.
LEMMA SubmissionsInvariant == Sub!LibraryTyped => (Sub!Spec => []SubmissionsInv)
<1> SUFFICES ASSUME Sub!LibraryTyped PROVE Sub!Spec => []SubmissionsInv
  OBVIOUS
<1>1. Sub!Init => SubmissionsInv
  BY DEF Sub!Init, Sub!NoRules, SubmissionsInv
<1>2. SubmissionsInv /\ [Sub!Next]_(Sub!submissionVars) => SubmissionsInv'
  <2> SUFFICES ASSUME SubmissionsInv, [Sub!Next]_(Sub!submissionVars) PROVE SubmissionsInv'
    OBVIOUS
  <2>1. ASSUME NEW r \in Submitted, NEW remote \in BOOLEAN,
               Sub!Hold(Kept(r, remote), r, remote)
        PROVE  SubmissionsInv'
    <3> DEFINE k == Kept(r, remote)
    <3>1. /\ submitted' = Sub!Extended(submitted, k.rule_id, [rule |-> k, active |-> TRUE])
          /\ asked' = Sub!Extended(asked, k.rule_id,
                         [rule |-> k, active |-> TRUE, sent |-> r, remote |-> remote])
      BY <2>1 DEF Sub!Hold
    <3> HIDE DEF k
    <3>2. DOMAIN asked' = DOMAIN submitted'
      BY <3>1 DEF Sub!Extended, SubmissionsInv
    <3>3. \A i \in DOMAIN submitted' \ {k.rule_id} :
            i \in DOMAIN submitted /\ submitted'[i] = submitted[i] /\ asked'[i] = asked[i]
      BY <3>1 DEF Sub!Extended, SubmissionsInv
    <3>4. /\ submitted'[k.rule_id] = [rule |-> k, active |-> TRUE]
          /\ asked'[k.rule_id]
               = [rule |-> k, active |-> TRUE, sent |-> r, remote |-> remote]
      BY <3>1 DEF Sub!Extended
    <3>5. EntryOK(k.rule_id, asked'[k.rule_id], submitted'[k.rule_id])
      BY <3>4 DEF EntryOK, k
    <3>6. \A i \in DOMAIN submitted' : EntryOK(i, asked'[i], submitted'[i])
      BY <3>3, <3>5 DEF SubmissionsInv
    <3>. QED  BY <3>2, <3>6 DEF SubmissionsInv, EntryOK
  <2>2. ASSUME NEW r \in Submitted, Sub!RegisterRule(r)
        PROVE  SubmissionsInv'
    <3>1. Sub!Hold(Kept(r, FALSE), r, FALSE)
      BY <2>2 DEF Sub!RegisterRule, Kept
    <3>. QED  BY <2>1, <3>1
  <2>3. ASSUME NEW r \in Submitted, Sub!RegisterRuleRemotely(r)
        PROVE  SubmissionsInv'
    <3>1. Sub!Hold(Kept(r, TRUE), r, TRUE)
      BY <2>3 DEF Sub!RegisterRuleRemotely, Kept, SentRule
    <3>. QED  BY <2>1, <3>1
  <2>4. ASSUME NEW i \in DOMAIN submitted, Sub!DisableRule(i)
        PROVE  SubmissionsInv'
    <3>1. /\ submitted' = [submitted EXCEPT ![i] = [submitted[i] EXCEPT !.active = FALSE]]
          /\ asked' = [asked EXCEPT ![i] = [asked[i] EXCEPT !.active = FALSE]]
      BY <2>4 DEF Sub!DisableRule
    <3>2. /\ submitted[i] = [rule |-> asked[i].rule, active |-> asked[i].active]
          /\ asked[i] = [rule |-> asked[i].rule, active |-> asked[i].active,
                         sent |-> asked[i].sent, remote |-> asked[i].remote]
          /\ asked[i].rule = Kept(asked[i].sent, asked[i].remote)
          /\ asked[i].sent \in Submitted /\ asked[i].remote \in BOOLEAN
          /\ asked[i].rule.rule_id = i
      BY DEF SubmissionsInv, EntryOK
    <3>3. /\ submitted'[i] = [rule |-> asked[i].rule, active |-> FALSE]
          /\ asked'[i] = [rule |-> asked[i].rule, active |-> FALSE,
                          sent |-> asked[i].sent, remote |-> asked[i].remote]
      <4>1. i \in DOMAIN asked
        BY DEF SubmissionsInv
      <4>2. /\ submitted'[i] = [submitted[i] EXCEPT !.active = FALSE]
            /\ asked'[i] = [asked[i] EXCEPT !.active = FALSE]
        BY <3>1, <4>1
      <4>3. \A B : /\ [asked[i] EXCEPT !.active = B]
                        = [rule |-> asked[i].rule, active |-> B,
                           sent |-> asked[i].sent, remote |-> asked[i].remote]
                   /\ [submitted[i] EXCEPT !.active = B] = [rule |-> asked[i].rule, active |-> B]
        BY <3>2, EntryChanged
      <4>. QED  BY <4>2, <4>3, Zenon
    <3>4. /\ DOMAIN submitted' = DOMAIN submitted /\ DOMAIN asked' = DOMAIN submitted'
          /\ \A j \in DOMAIN submitted \ {i} : submitted'[j] = submitted[j] /\ asked'[j] = asked[j]
      BY <3>1 DEF SubmissionsInv
    <3>5. EntryOK(i, asked'[i], submitted'[i])
      BY <3>2, <3>3 DEF EntryOK
    <3>6. \A j \in DOMAIN submitted' : EntryOK(j, asked'[j], submitted'[j])
      BY <3>4, <3>5 DEF SubmissionsInv
    <3>. QED  BY <3>4, <3>6 DEF SubmissionsInv, EntryOK
  <2>5. ASSUME Sub!SaveAndLoad PROVE SubmissionsInv'
    BY <2>5, LoadedAsSaved DEF Sub!SaveAndLoad, SubmissionsInv, EntryOK
  <2>6. CASE UNCHANGED Sub!submissionVars
    BY <2>6 DEF SubmissionsInv, EntryOK, Sub!submissionVars
  <2>. QED  BY <2>2, <2>3, <2>4, <2>5, <2>6 DEF Sub!Next
<1>. QED  BY <1>1, <1>2, PTL DEF Sub!Spec

\* What rules decide of any request is the same after any number of restarts
\* (registry.cpp, load: the rules come back as they were registered).
LEMMA DecisionsInSubmissions ==
    ASSUME Sub!LibraryTyped
    PROVE  Sub!Spec => []Sub!RestartsKeepDecisions
<1>1. SubmissionsInv => Sub!RestartsKeepDecisions
  <2> SUFFICES ASSUME SubmissionsInv PROVE Sub!RestartsKeepDecisions
    OBVIOUS
  <2>1. {submitted[i] : i \in DOMAIN submitted}
          = {[rule |-> asked[i].rule, active |-> asked[i].active] : i \in DOMAIN asked}
    BY DEF SubmissionsInv, EntryOK
  <2>. QED  BY <2>1 DEF Sub!RestartsKeepDecisions
<1>. QED  BY <1>1, SubmissionsInvariant, PTL

\* The wire leaves of a plain rule what is evaluated.
LEMMA WireLeaves ==
    ASSUME NEW r \in RuleForm, Sub!Plain(r)
    PROVE  LET w == SentRule(r)
           IN  /\ w.rule_id = r.rule_id /\ w.priority = r.priority /\ w.scope = r.scope
               /\ w.left_kind = r.left_kind /\ w.right_kind = r.right_kind
               /\ w.kind = "Default" /\ r.kind = "Default"
               /\ w.any_of = {} /\ r.any_of = {} /\ w.conditions = {}
               /\ w.outcome = r.outcome /\ w.required = r.required
               /\ w.incompatible_with = r.incompatible_with
<1> DEFINE required == {SentConstraint(c) : c \in r.required}
           veto == [i \in DOMAIN r.incompatible_with |->
                       SentConstraint(r.incompatible_with[i])]
<1>0. /\ r.required \subseteq ClauseForm /\ r.incompatible_with \in Seq(ClauseForm)
      /\ r.conditions \subseteq ClauseForm /\ r.any_of \subseteq ClauseForm
  BY DEF RuleForm
<1>1. \A c \in Sub!ConstraintsOf(r) : SentConstraint(c) = c
  <2>1. \A c \in Sub!ConstraintsOf(r) : c.set = {} /\ c \in ClauseForm
    BY <1>0 DEF Sub!Plain, Sub!ConstraintsOf
  <2>2. \A c \in ClauseForm : c.set = {} => [c EXCEPT !.set = {}] = c
    BY DEF ClauseForm
  <2>. QED  BY <2>1, <2>2, ConstraintReceived
<1>2. required = r.required
  BY <1>1 DEF Sub!ConstraintsOf
<1>3. veto = r.incompatible_with
  BY <1>0, <1>1 DEF Sub!ConstraintsOf
<1>4. SentRule(r) = [rule_id |-> r.rule_id, scope |-> r.scope, priority |-> r.priority,
                left_kind |-> r.left_kind, right_kind |-> r.right_kind,
                kind |-> "Default", outcome |-> r.outcome, required |-> required,
                any_of |-> {}, incompatible_with |-> veto, conditions |-> {}]
  BY RuleSent
<1> HIDE DEF required, veto
<1>. QED  BY <1>2, <1>3, <1>4 DEF Sub!Plain

\* Two rules that read the same and have no alternatives and no conditions
\* come to the same result, also when one of them is not asked for more.
LEMMA SameReadingSameResult ==
    ASSUME NEW r, NEW w, r.kind = "Default", w.kind = "Default",
           r.any_of = {}, w.any_of = {}, w.outcome = r.outcome, w.required = r.required,
           w.incompatible_with = r.incompatible_with,
           NEW S, r.incompatible_with \in Seq(S), NEW q
    PROVE  Sub!Yields(w, q) = Sub!Yields(r, q)
<1> DEFINE f == Sub!VerdictsOf(r, q)
           g == Sub!VerdictsOf(w, q)
           veto == r.incompatible_with
<1>1. /\ \A c \in r.required : g[c] = f[c]
      /\ \A i \in DOMAIN veto : g[veto[i]] = f[veto[i]]
  BY DEF Sub!VerdictsOf, Sub!ConstraintsOf
<1> HIDE DEF f, g
<1>0. \A j \in DOMAIN veto : \A k \in 1 .. j : k \in DOMAIN veto
  <2>1. DOMAIN veto = 1 .. Len(veto) /\ Len(veto) \in Nat
    OBVIOUS
  <2>. QED  BY <2>1
<1>2. \A verdict : Sub!E!With(verdict, w.required, g) = Sub!E!With(verdict, r.required, f)
  BY <1>1 DEF Sub!E!With
<1>3. \A verdict, ev : Sub!E!With(verdict, {}, ev) = {}
  BY DEF Sub!E!With
<1>4. /\ Sub!E!VetoHolds(w, g) <=> Sub!E!VetoHolds(r, f)
      /\ Sub!E!RequiredHold(w, g) <=> Sub!E!RequiredHold(r, f)
      /\ Sub!E!AlternativeHolds(w, g) /\ Sub!E!AlternativeHolds(r, f)
  <2>1. Sub!E!VetoHolds(w, g) <=> Sub!E!VetoHolds(r, f)
    BY <1>1 DEF Sub!E!VetoHolds
  <2>. QED  BY <1>2, <2>1 DEF Sub!E!RequiredHold, Sub!E!AlternativeHolds
<1>5. Sub!E!SkippedVetoes(w, g) = Sub!E!SkippedVetoes(r, f)
  <2>1. \A j \in DOMAIN veto :
          (g[veto[j]] = "unknown" /\ \A k \in 1 .. j : g[veto[k]] # "holds")
            <=> (f[veto[j]] = "unknown" /\ \A k \in 1 .. j : f[veto[k]] # "holds")
    BY <1>0, <1>1
  <2>. QED  BY <2>1 DEF Sub!E!SkippedVetoes
<1>6. Sub!E!EvalRule(w, g) = Sub!E!EvalRule(r, f)
  <2>1. Sub!E!RequiredResult(w, g) = Sub!E!RequiredResult(r, f)
    <3>1. Sub!E!With("unknown", w.required, g) = Sub!E!With("unknown", r.required, f)
      BY <1>2
    <3>. QED  BY <1>5, <3>1, Zenon DEF Sub!E!RequiredResult
  <2>2. Sub!E!KindResult(w, g) = Sub!E!KindResult(r, f)
    BY <1>5 DEF Sub!E!KindResult, Sub!E!UnknownConditions, Sub!E!KindOutcome
  <2>. QED  BY <1>4, <1>5, <2>1, <2>2 DEF Sub!E!EvalRule
<1>7. Sub!Raises(w, q) <=> Sub!Raises(r, q)
  <2> DEFINE Reached(ev) == \E i \in DOMAIN veto :
                               /\ ev[veto[i]] = "raises"
                               /\ \A j \in 1 .. i - 1 : ev[veto[j]] # "holds"
             Later(rule, ev) ==
               /\ ~Sub!E!VetoHolds(rule, ev)
               /\ \/ Sub!E!With("raises", rule.required, ev) # {}
                  \/ Sub!E!RequiredHold(rule, ev) /\ Sub!E!With("raises", rule.any_of, ev) # {}
                  \/ /\ Sub!E!RequiredHold(rule, ev) /\ Sub!E!AlternativeHolds(rule, ev)
                     /\ rule.kind = "Conditional"
                     /\ Sub!E!With("raises", rule.conditions, ev) # {}
  <2>1. Reached(g) <=> Reached(f)
    <3>1. \A i \in DOMAIN veto : \A j \in 1 .. i - 1 : j \in DOMAIN veto
      <4>1. DOMAIN veto = 1 .. Len(veto) /\ Len(veto) \in Nat
        OBVIOUS
      <4>. QED  BY <4>1
    <3>. QED  BY <1>1, <3>1
  <2>2. Later(w, g) <=> Later(r, f)
    BY <1>2, <1>3, <1>4
  <2>3. Sub!Raises(w, q) <=> Reached(g) \/ Later(w, g)
    BY DEF Sub!Raises, g
  <2>4. Sub!Raises(r, q) <=> Reached(f) \/ Later(r, f)
    BY DEF Sub!Raises, f
  <2> HIDE DEF Reached, Later
  <2>. QED  BY <2>1, <2>2, <2>3, <2>4
<1>. QED  BY <1>6, <1>7 DEF Sub!Yields, f, g

\* A plain rule, registered through the coordinator, yields for every request
\* what it yields in process (net.cpp, register_rule).
LEMMA YieldsInSubmissions ==
    ASSUME Sub!LibraryTyped
    PROVE  Sub!Spec => []Sub!WireKeepsPlainRules
<1>1. SubmissionsInv => Sub!WireKeepsPlainRules
  <2> SUFFICES ASSUME SubmissionsInv, NEW i \in DOMAIN asked, asked[i].remote,
                      Sub!Plain(asked[i].sent)
               PROVE  LET sent == asked[i].sent
                          held == submitted[i].rule
                      IN  /\ held.rule_id = sent.rule_id /\ held.priority = sent.priority
                          /\ \A q \in Request :
                                /\ Sub!Applies(held, q) <=> Sub!Applies(sent, q)
                                /\ Sub!Yields(held, q) = Sub!Yields(sent, q)
    BY DEF Sub!WireKeepsPlainRules
  <2> DEFINE r == asked[i].sent
  <2>1. r \in RuleForm /\ submitted[i].rule = SentRule(r)
    BY SubmittedRules DEF SubmissionsInv, EntryOK, Kept
  <2>2. r.incompatible_with \in Seq(ClauseForm)
    BY <2>1 DEF RuleForm
  <2> HIDE DEF r
  <2>3. \A q : Sub!Applies(SentRule(r), q) <=> Sub!Applies(r, q)
    BY <2>1, WireLeaves DEF Sub!Applies, r
  <2>4. \A q : Sub!Yields(SentRule(r), q) = Sub!Yields(r, q)
    BY <2>1, <2>2, WireLeaves, SameReadingSameResult DEF r
  <2>. QED  BY <2>1, <2>3, <2>4, WireLeaves DEF r
<1>. QED  BY <1>1, SubmissionsInvariant, PTL

-----------------------------------------------------------------------------
(* Devices are discovered.                                                 *)

\* The answers of cudaGetDeviceProperties and of the version queries, and
\* what enumerate_devices and make_cuda_device_profile make of them.
PropertyAnswers == Dev!Maybe(Dev!Properties)
VersionAnswers == Dev!Maybe(CudaVersion)

TrueEntries == {Dev!Entry(Dev!Info(p, d, r), p, d, r) :
                  p \in PropertyAnswers, d \in VersionAnswers, r \in VersionAnswers}

TrueProfiles == {[entry |-> e, payload |-> Dev!MakeProfile(e.info)] : e \in TrueEntries}

\* What was found, and the profiles made of it, say what CUDA answered.
DeviceInv == found \in Seq(TrueEntries) /\ made \in Seq(TrueProfiles)

\* Discovery says no more and nothing else, one device or several.
LEMMA DeviceInvariant == Dev!Spec => []DeviceInv
<1>1. Dev!Init => DeviceInv
  BY DEF Dev!Init, DeviceInv
<1>2. DeviceInv /\ [Dev!Next]_(Dev!deviceVars) => DeviceInv'
  <2> SUFFICES ASSUME DeviceInv, [Dev!Next]_(Dev!deviceVars) PROVE DeviceInv'
    OBVIOUS
  <2>0. {} \in PropertyAnswers /\ {} \in VersionAnswers
    BY DEF PropertyAnswers, VersionAnswers, Dev!Maybe
  <2>1. CASE Dev!DiscoverNone
    <3>1. Dev!Info({}, {}, {}) = Dev!NoDevice
      BY DEF Dev!Info
    <3>2. Dev!Entry(Dev!NoDevice, {}, {}, {}) \in TrueEntries
      BY <2>0, <3>1 DEF TrueEntries
    <3>. QED  BY <2>1, <3>2 DEF Dev!DiscoverNone, DeviceInv
  <2>2. ASSUME NEW n \in 1 .. MaxDevices, Dev!Discover(n)
        PROVE  DeviceInv'
    <3>0. n \in Nat
      OBVIOUS
    <3>1. PICK m \in Dev!Machine(n) :
            found' = [i \in 1 .. n |-> Dev!Entry(Dev!Info(m[1][i], m[2], m[3]), m[1][i], m[2], m[3])]
      BY <2>2 DEF Dev!Discover
    <3>2. /\ m[1] \in [1 .. n -> PropertyAnswers]
          /\ m[2] \in VersionAnswers /\ m[3] \in VersionAnswers
      BY DEF Dev!Machine, PropertyAnswers, VersionAnswers
    <3>3. \A i \in 1 .. n :
            Dev!Entry(Dev!Info(m[1][i], m[2], m[3]), m[1][i], m[2], m[3]) \in TrueEntries
      BY <3>2 DEF TrueEntries
    <3>4. found' \in [1 .. n -> TrueEntries]
      BY <3>1, <3>3
    <3>5. found' \in Seq(TrueEntries)
      BY <3>0, <3>4
    <3>. QED  BY <2>2, <3>5 DEF Dev!Discover, DeviceInv
  <2>3. ASSUME NEW i \in DOMAIN found, Dev!Make(i) PROVE DeviceInv'
    <3>1. found[i] \in TrueEntries
      BY DEF DeviceInv
    <3>2. [entry |-> found[i], payload |-> Dev!MakeProfile(found[i].info)] \in TrueProfiles
      BY <3>1 DEF TrueProfiles
    <3>. QED  BY <2>3, <3>2 DEF Dev!Make, DeviceInv
  <2>4. CASE UNCHANGED Dev!deviceVars
    BY <2>4 DEF Dev!deviceVars, DeviceInv
  <2>. QED  BY <2>1, <2>2, <2>3, <2>4 DEF Dev!Next
<1>. QED  BY <1>1, <1>2, PTL DEF Dev!Spec

\* The answers behind a profile.
LEMMA ProfileFacts ==
    ASSUME DeviceInv, NEW p \in Dev!Payloads
    PROVE  /\ p.payload = Dev!MakeProfile(p.entry.info)
           /\ p.entry.info = Dev!Info(p.entry.properties, p.entry.driver, p.entry.runtime)
           /\ p.entry.properties \in PropertyAnswers
           /\ p.entry.driver \in VersionAnswers /\ p.entry.runtime \in VersionAnswers
<1>1. p \in TrueProfiles
  BY DEF Dev!Payloads, DeviceInv
<1>2. PICK e \in TrueEntries : p = [entry |-> e, payload |-> Dev!MakeProfile(e.info)]
  BY <1>1 DEF TrueProfiles
<1>3. PICK ps \in PropertyAnswers, d \in VersionAnswers, r \in VersionAnswers :
        e = Dev!Entry(Dev!Info(ps, d, r), ps, d, r)
  BY <1>2 DEF TrueEntries
<1>4. e = [info |-> Dev!Info(ps, d, r), properties |-> ps, driver |-> d, runtime |-> r]
  BY <1>3 DEF Dev!Entry
<1>. QED  BY <1>2, <1>4

\* A profile has what a device that was observed said, and empty texts of one
\* that was not.
LEMMA ObservedFacts ==
    ASSUME DeviceInv, NEW p \in Dev!Payloads
    PROVE  /\ {"compute_capability", "runtime_min", "driver_min"} \subseteq DOMAIN p.payload
           /\ p.entry.properties = {} =>
                /\ "total_memory" \notin DOMAIN p.payload
                /\ \A f \in {"compute_capability", "runtime_min", "driver_min"} :
                      p.payload[f] = Dev!Text(<<>>)
           /\ p.entry.properties # {} =>
                /\ p.payload["runtime_min"] = Dev!Text(Dev!VersionText(p.entry.runtime))
                /\ p.payload["driver_min"] = Dev!Text(Dev!VersionText(p.entry.driver))
           /\ \A a \in p.entry.properties :
                /\ a \in Dev!Properties /\ p.entry.properties = {a}
                /\ p.payload["compute_capability"] = Dev!Text(a.cc)
                /\ "total_memory" \in DOMAIN p.payload
                /\ p.payload["total_memory"] = <<"Uint", a.memory>>
<1> DEFINE ps == p.entry.properties
           info == p.entry.info
<1>1. /\ p.payload = Dev!MakeProfile(info)
      /\ info = Dev!Info(ps, p.entry.driver, p.entry.runtime)
      /\ ps \in PropertyAnswers
  BY ProfileFacts
<1>2. /\ DOMAIN p.payload = Dev!Always \cup (IF info.initialized THEN {"total_memory"} ELSE {})
      /\ p.payload["compute_capability"] = Dev!Text(info.compute_capability)
      /\ p.payload["runtime_min"] = Dev!Text(info.runtime_version)
      /\ p.payload["driver_min"] = Dev!Text(info.driver_version)
      /\ info.initialized => p.payload["total_memory"] = <<"Uint", info.total_memory>>
  BY <1>1 DEF Dev!MakeProfile, Dev!Always
<1>3. CASE ps = {}
  <2>1. /\ info.initialized = FALSE /\ info.compute_capability = <<>>
        /\ info.runtime_version = <<>> /\ info.driver_version = <<>>
    BY <1>1, <1>3 DEF Dev!Info, Dev!NoDevice
  <2>. QED  BY <1>2, <1>3, <2>1 DEF Dev!Always
<1>4. ASSUME NEW a, ps = {a}
      PROVE  /\ a \in Dev!Properties /\ info.initialized = TRUE
             /\ info.compute_capability = a.cc /\ info.total_memory = a.memory
             /\ info.runtime_version = Dev!VersionText(p.entry.runtime)
             /\ info.driver_version = Dev!VersionText(p.entry.driver)
  <2>1. a \in Dev!Properties
    BY <1>1, <1>4 DEF PropertyAnswers, Dev!Maybe
  <2>2. (CHOOSE x \in ps : TRUE) = a
    BY <1>4
  <2>. QED  BY <1>1, <1>4, <2>1, <2>2 DEF Dev!Info
<1>5. CASE ps # {}
  <2>1. PICK a : ps = {a}
    BY <1>1, <1>5 DEF PropertyAnswers, Dev!Maybe
  <2>. QED  BY <1>2, <1>4, <1>5, <2>1 DEF Dev!Always
<1>. QED  BY <1>3, <1>5

\* What the evaluator reads of the text of two numbers, and of no text.
LEMMA VersionOfText ==
    ASSUME Dev!ConstantsTyped, NEW x \in (0 .. MaxUint) \X (0 .. MaxUint)
    PROVE  Dev!C!Version(Dev!Text(x)) = x /\ Dev!C!Version(Dev!Text(<<>>)) = <<0, 0>>
<1>1. /\ Len(x) = 2 /\ x = <<x[1], x[2]>>
      /\ x[1] \in 0 .. MaxUint /\ x[2] \in 0 .. MaxUint /\ MaxUint \in Nat
  BY DEF Dev!ConstantsTyped, Dev!C!CastsRound
<1>2. \A s : Dev!C!KindOf(Dev!Text(s)) = "Str" /\ Dev!C!Content(Dev!Text(s)) = s
  BY DEF Dev!C!KindOf, Dev!C!Content, Dev!Text
<1>3. Dev!C!ParseNum(Dev!C!Part(x, 1)) = x[1] /\ Dev!C!ParseNum(Dev!C!Part(x, 2)) = x[2]
  BY <1>1 DEF Dev!C!ParseNum, Dev!C!Part
<1>4. Dev!C!ParseNum(Dev!C!Part(<<>>, 1)) = 0 /\ Dev!C!ParseNum(Dev!C!Part(<<>>, 2)) = 0
  BY <1>1 DEF Dev!C!ParseNum, Dev!C!Part
<1>. QED  BY <1>1, <1>2, <1>3, <1>4 DEF Dev!C!Version

\* Two texts are compared as the versions that are read of them.
LEMMA TextsCompared ==
    ASSUME NEW p, NEW q, NEW f, NEW g, NEW op \in {"VersionLt", "VersionLe"}, NEW s, NEW t,
           f \in DOMAIN p.payload, g \in DOMAIN q.payload,
           p.payload[f] = Dev!Text(s), q.payload[g] = Dev!Text(t)
    PROVE  LET a == Dev!C!Version(Dev!Text(s))
               b == Dev!C!Version(Dev!Text(t))
           IN  Dev!Evaluate(op, f, p, g, q) =
                  IF op = "VersionLt" THEN IF Dev!Older(a, b) THEN "holds" ELSE "fails"
                  ELSE IF Dev!Older(b, a) THEN "fails" ELSE "holds"
<1> DEFINE c == Dev!Against(op, f, g)
           v == Dev!Text(s)
           w == Dev!Text(t)
           a == Dev!C!Version(v)
           b == Dev!C!Version(w)
<1>1. /\ c.field = <<f>> /\ c.right_field = <<g>> /\ c.op = op
      /\ Len(c.field) = 1 /\ Len(c.right_field) = 1
  BY DEF Dev!Against
<1>2. /\ Dev!C!Resolve(p.payload, c.field) = {v}
      /\ Dev!C!Compared(c, q.payload) = {w}
  BY <1>1 DEF Dev!C!Resolve, Dev!C!FieldOf, Dev!C!Compared, Dev!C!Versioned
<1>3. Dev!C!Readable(c, v, w)
  BY <1>1 DEF Dev!C!Readable, Dev!C!Versioned, Dev!C!Ranged, Dev!C!KindOf, Dev!Text
<1>5. /\ Dev!C!OlderVersion(v, w) = Dev!Older(a, b)
      /\ Dev!C!OlderVersion(w, v) = Dev!Older(b, a)
  BY DEF Dev!C!OlderVersion, Dev!Older
<1>6. Dev!C!Satisfied(c, v, w) = (IF op = "VersionLt" THEN Dev!Older(a, b) ELSE ~Dev!Older(b, a))
  BY <1>1, <1>5 DEF Dev!C!Satisfied, Dev!C!Ranged
<1>7. Dev!C!Evaluate(c, p.payload, q.payload) =
        IF Dev!C!Satisfied(c, v, w) THEN "holds" ELSE "fails"
  <2> HIDE DEF c, v, w, a, b
  <2>. QED  BY <1>2, <1>3 DEF Dev!C!Evaluate
<1>8. Dev!Evaluate(op, f, p, g, q) = Dev!C!Evaluate(c, p.payload, q.payload)
  BY DEF Dev!Evaluate
<1> HIDE DEF c, v, w, a, b
<1>9. Dev!Evaluate(op, f, p, g, q) =
         IF op = "VersionLt" THEN IF Dev!Older(a, b) THEN "holds" ELSE "fails"
         ELSE IF Dev!Older(b, a) THEN "fails" ELSE "holds"
  BY <1>6, <1>7, <1>8
<1>. QED  BY <1>9 DEF a, b, v, w

\* The two numbers of a CUDA version are in the order of the versions.
LEMMA FormattedInOrder ==
    ASSUME Dev!ConstantsTyped, NEW v \in CudaVersion \cup {0}, NEW w \in CudaVersion \cup {0}
    PROVE  /\ Dev!FormatCudaVersion(v) \in (0 .. MaxUint) \X (0 .. MaxUint)
           /\ Dev!Older(Dev!FormatCudaVersion(w), Dev!FormatCudaVersion(v)) <=> w < v
<1>1. ASSUME NEW n \in CudaVersion \cup {0}
      PROVE  /\ n \in Nat /\ (n \div 1000) \in 0 .. MaxUint /\ (n % 1000) \in 0 .. MaxUint
             /\ n = (1000 * (n \div 1000)) + (n % 1000) /\ (n % 1000) \in 0 .. 999
  <2>1. n \in Nat /\ (n \div 1000) <= MaxUint /\ MaxUint \in Nat /\ MaxUint >= 999
    <3>1. MaxUint \in Nat /\ MaxUint >= 999
      BY DEF Dev!ConstantsTyped, Dev!C!CastsRound
    <3>2. CASE n \in CudaVersion
      BY <3>1, <3>2 DEF Dev!ConstantsTyped
    <3>3. CASE n = 0
      BY <3>1, <3>3
    <3>. QED  BY <3>2, <3>3
  <2>. QED  BY <2>1
<1> DEFINE v1 == v \div 1000
           v2 == v % 1000
           w1 == w \div 1000
           w2 == w % 1000
<1>2. /\ Dev!FormatCudaVersion(v) = <<v1, v2>> /\ Dev!FormatCudaVersion(w) = <<w1, w2>>
      /\ v1 \in 0 .. MaxUint /\ v2 \in 0 .. MaxUint
  BY <1>1 DEF Dev!FormatCudaVersion
<1>3. /\ v1 \in Int /\ w1 \in Int /\ v2 \in 0 .. 999 /\ w2 \in 0 .. 999
      /\ v = 1000 * v1 + v2 /\ w = 1000 * w1 + w2
  BY <1>1
<1> HIDE DEF v1, v2, w1, w2
<1>4. (w1 < v1 \/ (w1 = v1 /\ w2 < v2)) <=> w < v
  BY <1>3
<1>. QED  BY <1>2, <1>4 DEF Dev!Older

\* An answer is written so that it is read as the two numbers of its version,
\* and as those of 0 when the call failed.
LEMMA VersionReadBack ==
    ASSUME Dev!ConstantsTyped, NEW answer \in VersionAnswers
    PROVE  LET v == IF answer = {} THEN 0 ELSE CHOOSE n \in answer : TRUE
           IN  /\ v \in CudaVersion \cup {0}
               /\ Dev!C!Version(Dev!Text(Dev!VersionText(answer))) = Dev!FormatCudaVersion(v)
<1> DEFINE v == IF answer = {} THEN 0 ELSE CHOOSE n \in answer : TRUE
           x == Dev!FormatCudaVersion(v)
<1>1. v \in CudaVersion \cup {0} /\ (answer = {} \/ answer = {v})
  BY DEF VersionAnswers, Dev!Maybe
<1>2. x \in (0 .. MaxUint) \X (0 .. MaxUint)
  BY <1>1, FormattedInOrder
<1>3. Dev!C!Version(Dev!Text(x)) = x /\ Dev!C!Version(Dev!Text(<<>>)) = <<0, 0>>
  BY <1>2, VersionOfText
<1>4. CASE v = 0
  <2>1. x = <<0, 0>>
    <3> HIDE DEF v
    <3>. QED  BY <1>4 DEF Dev!FormatCudaVersion
  <2>2. Dev!VersionText(answer) = <<>>
    <3> HIDE DEF v
    <3>. QED  BY <1>1, <1>4 DEF Dev!VersionText
  <2>. QED  BY <1>1, <1>3, <2>1, <2>2
<1>5. CASE v # 0
  <2>1. Dev!VersionText(answer) = x
    BY <1>1, <1>5 DEF Dev!VersionText
  <2>. QED  BY <1>1, <1>3, <2>1
<1>. QED  BY <1>4, <1>5

\* What is read of the texts of a profile, whichever calls failed.
LEMMA ReadingOfProfiles ==
    ASSUME Dev!ConstantsTyped, DeviceInv, NEW p \in Dev!Payloads
    PROVE  LET capability == p.payload["compute_capability"]
               runtime == Dev!NumberRead(p.entry, p.entry.runtime)
               driver == Dev!NumberRead(p.entry, p.entry.driver)
           IN  /\ runtime \in CudaVersion \cup {0} /\ driver \in CudaVersion \cup {0}
               /\ Dev!C!Version(capability) = Dev!CapabilityRead(p.entry)
               /\ Dev!C!Version(p.payload["runtime_min"]) = Dev!FormatCudaVersion(runtime)
               /\ Dev!C!Version(p.payload["driver_min"]) = Dev!FormatCudaVersion(driver)
               /\ \E s : capability = Dev!Text(s)
               /\ \E s : p.payload["runtime_min"] = Dev!Text(s)
               /\ \E s : p.payload["driver_min"] = Dev!Text(s)
<1>1. CASE p.entry.properties = {}
  <2>1. \A f \in {"compute_capability", "runtime_min", "driver_min"} :
            p.payload[f] = Dev!Text(<<>>)
    BY <1>1, ObservedFacts
  <2>2. Dev!C!Version(Dev!Text(<<>>)) = <<0, 0>>
    <3>1. MaxUint \in Nat
      BY DEF Dev!ConstantsTyped, Dev!C!CastsRound
    <3>2. <<0, 0>> \in (0 .. MaxUint) \X (0 .. MaxUint)
      BY <3>1
    <3>. QED  BY <3>2, VersionOfText
  <2>3. Dev!FormatCudaVersion(0) = <<0, 0>>
    BY DEF Dev!FormatCudaVersion
  <2>4. /\ \A S : Dev!NumberRead(p.entry, S) = 0
        /\ Dev!CapabilityRead(p.entry) = <<0, 0>>
    BY <1>1 DEF Dev!NumberRead, Dev!CapabilityRead
  <2>. QED  BY <2>1, <2>2, <2>3, <2>4
<1>2. CASE p.entry.properties # {}
  <2>1. PICK a \in p.entry.properties : TRUE
    BY <1>2
  <2>2. /\ p.payload["runtime_min"] = Dev!Text(Dev!VersionText(p.entry.runtime))
        /\ p.payload["driver_min"] = Dev!Text(Dev!VersionText(p.entry.driver))
        /\ a \in Dev!Properties /\ p.entry.properties = {a}
        /\ p.payload["compute_capability"] = Dev!Text(a.cc)
    BY <1>2, <2>1, ObservedFacts
  <2>3. p.entry.driver \in VersionAnswers /\ p.entry.runtime \in VersionAnswers
    BY ProfileFacts
  <2>4. Dev!CapabilityRead(p.entry) = a.cc
    BY <2>2 DEF Dev!CapabilityRead
  <2>5. Dev!C!Version(Dev!Text(a.cc)) = a.cc
    <3>1. a.cc \in (0 .. MaxUint) \X (0 .. MaxUint)
      BY <2>2 DEF Dev!Properties, Dev!ConstantsTyped
    <3>. QED  BY <3>1, VersionOfText
  <2>6. \A S : Dev!NumberRead(p.entry, S) = IF S = {} THEN 0 ELSE CHOOSE v \in S : TRUE
    BY <1>2 DEF Dev!NumberRead
  <2>7. ASSUME NEW S \in VersionAnswers
        PROVE  /\ Dev!NumberRead(p.entry, S) \in CudaVersion \cup {0}
               /\ Dev!C!Version(Dev!Text(Dev!VersionText(S)))
                     = Dev!FormatCudaVersion(Dev!NumberRead(p.entry, S))
    BY <2>6, VersionReadBack
  <2>. QED  BY <2>2, <2>3, <2>4, <2>5, <2>7
<1>. QED  BY <1>1, <1>2

\* A rule compares two devices by what CUDA reported of them, and takes what it
\* did not report for 0 (cuda.cpp, format_cuda_version, parse_ver).
LEMMA DevicesAreComparedAsObserved ==
    ASSUME Dev!ConstantsTyped
    PROVE  Dev!Spec => []Dev!DevicesCompareAsObserved
<1>1. ASSUME DeviceInv, NEW p \in Dev!Payloads, NEW q \in Dev!Payloads
      PROVE  Dev!Evaluate("VersionLt", "compute_capability", p, "compute_capability", q) = "holds"
                <=> Dev!Older(Dev!CapabilityRead(p.entry), Dev!CapabilityRead(q.entry))
  <2>1. PICK s, t : /\ p.payload["compute_capability"] = Dev!Text(s)
                    /\ q.payload["compute_capability"] = Dev!Text(t)
    BY <1>1, ReadingOfProfiles
  <2>2. /\ Dev!C!Version(Dev!Text(s)) = Dev!CapabilityRead(p.entry)
        /\ Dev!C!Version(Dev!Text(t)) = Dev!CapabilityRead(q.entry)
    BY <1>1, <2>1, ReadingOfProfiles
  <2>3. "compute_capability" \in DOMAIN p.payload /\ "compute_capability" \in DOMAIN q.payload
    BY <1>1, ObservedFacts
  <2>. QED  BY <2>1, <2>2, <2>3, TextsCompared
<1>2. ASSUME DeviceInv, NEW p \in Dev!Payloads, NEW q \in Dev!Payloads,
             NEW g \in {"runtime_min", "driver_min"}, NEW w \in CudaVersion \cup {0},
             Dev!C!Version(q.payload[g]) = Dev!FormatCudaVersion(w)
      PROVE  Dev!Evaluate("VersionLe", "runtime_min", p, g, q) = "holds"
                <=> Dev!NumberRead(p.entry, p.entry.runtime) <= w
  <2> DEFINE v == Dev!NumberRead(p.entry, p.entry.runtime)
  <2>1. PICK s, t : p.payload["runtime_min"] = Dev!Text(s) /\ q.payload[g] = Dev!Text(t)
    BY <1>2, ReadingOfProfiles
  <2>2. v \in CudaVersion \cup {0} /\ Dev!C!Version(Dev!Text(s)) = Dev!FormatCudaVersion(v)
    BY <1>2, <2>1, ReadingOfProfiles
  <2>3. "runtime_min" \in DOMAIN p.payload /\ g \in DOMAIN q.payload
    BY <1>2, ObservedFacts
  <2> HIDE DEF v
  <2>4. Dev!Evaluate("VersionLe", "runtime_min", p, g, q) =
           IF Dev!Older(Dev!FormatCudaVersion(w), Dev!FormatCudaVersion(v))
           THEN "fails" ELSE "holds"
    <3>1. "VersionLe" \in {"VersionLt", "VersionLe"} /\ "VersionLe" # "VersionLt"
      OBVIOUS
    <3>. QED  BY <1>2, <2>1, <2>2, <2>3, <3>1, TextsCompared
  <2>5. Dev!Older(Dev!FormatCudaVersion(w), Dev!FormatCudaVersion(v)) <=> w < v
    BY <2>2, FormattedInOrder
  <2>6. v \in Int /\ w \in Int
    <3>1. \A n \in CudaVersion \cup {0} : n \in Int
      BY DEF Dev!ConstantsTyped
    <3>. QED  BY <2>2, <3>1
  <2>7. Dev!Evaluate("VersionLe", "runtime_min", p, g, q) = "holds" <=> v <= w
    BY <2>4, <2>5, <2>6
  <2>. QED  BY <2>7 DEF v
<1>3. ASSUME DeviceInv, NEW p \in Dev!Payloads, NEW q \in Dev!Payloads
      PROVE  LET runtime == Dev!NumberRead(p.entry, p.entry.runtime)
             IN  /\ Dev!Evaluate("VersionLe", "runtime_min", p, "runtime_min", q) = "holds"
                      <=> runtime <= Dev!NumberRead(q.entry, q.entry.runtime)
                 /\ Dev!Evaluate("VersionLe", "runtime_min", p, "driver_min", q) = "holds"
                      <=> runtime <= Dev!NumberRead(q.entry, q.entry.driver)
  BY <1>2, <1>3, ReadingOfProfiles
<1>4. DeviceInv => Dev!DevicesCompareAsObserved
  BY <1>1, <1>3 DEF Dev!DevicesCompareAsObserved
<1>. QED  BY <1>4, DeviceInvariant, PTL

\* A rule on the memory of a device holds when CUDA reported enough, and is
\* unknown when it reported nothing (cuda.cpp, make_cuda_device_profile).
LEMMA UnobservedMemoryIsUnknown ==
    ASSUME Dev!ConstantsTyped
    PROVE  Dev!Spec => []Dev!MemoryIsObservedOrUnknown
<1>1. ASSUME DeviceInv, NEW p \in Dev!Payloads, NEW n \in Memory \cup {0}
      PROVE  LET c == [Dev!Against("Min", "total_memory", "")
                          EXCEPT !.right_field = <<>>, !.expected = <<"Uint", n>>]
                 verdict == Dev!C!Verdict(c, p.payload, <<>>)
             IN  /\ p.entry.properties = {} => verdict = "unknown"
                 /\ \A a \in p.entry.properties : a.memory >= n <=> verdict = "holds"
  <2> DEFINE c == [Dev!Against("Min", "total_memory", "")
                      EXCEPT !.right_field = <<>>, !.expected = <<"Uint", n>>]
             verdict == Dev!C!Verdict(c, p.payload, <<>>)
  <2>1. /\ c.op = "Min" /\ c.field = <<"total_memory">> /\ Len(c.field) = 1
        /\ c.right_field = <<>> /\ c.expected = <<"Uint", n>>
    BY DEF Dev!Against
  <2> HIDE DEF c
  <2>2. ASSUME p.entry.properties = {} PROVE verdict = "unknown"
    <3>1. Dev!C!Resolve(p.payload, c.field) = {}
      BY <1>1, <2>1, <2>2, ObservedFacts DEF Dev!C!Resolve, Dev!C!FieldOf
    <3>. QED  BY <3>1 DEF Dev!C!Verdict, Dev!C!ConstraintKnown
  <2>3. ASSUME NEW a \in p.entry.properties PROVE a.memory >= n <=> verdict = "holds"
    <3> DEFINE v == <<"Uint", a.memory>>
    <3>1. a \in Dev!Properties /\ Dev!C!Resolve(p.payload, c.field) = {v}
      <4>1. /\ a \in Dev!Properties /\ "total_memory" \in DOMAIN p.payload
            /\ p.payload["total_memory"] = v
        BY <1>1, <2>3, ObservedFacts
      <4> HIDE DEF v
      <4>. QED  BY <2>1, <4>1 DEF Dev!C!Resolve, Dev!C!FieldOf
    <3>2. Dev!C!Compared(c, <<>>) = {c.expected} /\ Dev!C!ConstraintKnown(c, p.payload, <<>>)
      BY <2>1, <3>1 DEF Dev!C!Compared, Dev!C!ConstraintKnown
    <3>3. Dev!C!Readable(c, v, c.expected)
      BY <2>1 DEF Dev!C!Readable, Dev!C!Versioned, Dev!C!Ranged, Dev!C!KindOf
    <3>4. a.memory \in 0 .. Mantissa /\ n \in 0 .. Mantissa
      <4>1. a.memory \in Memory
        BY <3>1 DEF Dev!Properties
      <4>2. n \in Memory \/ n = 0
        BY <1>1
      <4>3. Mantissa \in Nat /\ \A m \in Memory : m \in 0 .. Mantissa
        BY DEF Dev!ConstantsTyped, Dev!C!CastsRound
      <4>4. n \in 0 .. Mantissa
        BY <4>2, <4>3
      <4>. QED  BY <4>1, <4>3, <4>4
    <3>5. Double[a.memory] = a.memory /\ Double[n] = n
      BY <3>4 DEF Dev!ConstantsTyped, Dev!C!CastsRound
    <3>6. Dev!C!Unsigned(v) = a.memory /\ Dev!C!Unsigned(c.expected) = n
      <4>1. Mantissa \in Nat
        BY DEF Dev!ConstantsTyped, Dev!C!CastsRound
      <4>. QED  BY <2>1, <3>4, <4>1 DEF Dev!C!Content, Dev!C!Unsigned
    <3>7. Dev!C!Satisfied(c, v, c.expected) <=> a.memory >= n
      <4>1. Dev!C!Satisfied(c, v, c.expected) = Dev!C!RangeSatisfied(c, v, c.expected)
        BY <2>1 DEF Dev!C!Satisfied, Dev!C!Ranged
      <4>2. Dev!C!RangeSatisfied(c, v, c.expected) = (a.memory >= n)
        BY <2>1, <3>5, <3>6 DEF Dev!C!RangeSatisfied
      <4>. QED  BY <4>1, <4>2
    <3> HIDE DEF v
    <3>8. Dev!C!Evaluate(c, p.payload, <<>>) =
            IF Dev!C!Satisfied(c, v, c.expected) THEN "holds" ELSE "fails"
      BY <3>1, <3>2, <3>3 DEF Dev!C!Evaluate
    <3>. QED  BY <3>2, <3>7, <3>8 DEF Dev!C!Verdict
  <2>. QED  BY <2>2, <2>3 DEF c
<1>2. DeviceInv => Dev!MemoryIsObservedOrUnknown
  BY <1>1 DEF Dev!MemoryIsObservedOrUnknown
<1>. QED  BY <1>2, DeviceInvariant, PTL

-----------------------------------------------------------------------------
(* Vectors are kept in the order of their tags.                            *)

\* One step of the bisection, with f for what follows.
Halve(v, t, f, n) ==
    [first \in 1 .. Len(v) + 1 |->
        LET half == n \div 2
        IN  IF n = 0 THEN first
            ELSE IF v[first + half].tag < t THEN f[n - half - 1][first + half + 1]
                 ELSE f[half][first]]

\* The recursion has a solution, the bisection: else there were a least length
\* up to which it had none.
LEMMA BisectionIsItsBody ==
    ASSUME NEW v, NEW t, Len(v) \in Nat
    PROVE  \A n \in 0 .. Len(v) : Bisection(v, t)[n] = Halve(v, t, Bisection(v, t), n)
<1> DEFINE Solves(f, k) == f = [n \in 0 .. k |-> Halve(v, t, f, n)]
           len == Len(v)
           none == {k \in 0 .. len : ~\E f : Solves(f, k)}
<1>1. none = {}
  <2> SUFFICES ASSUME none # {} PROVE FALSE
    OBVIOUS
  <2>1. none \in SUBSET Nat
    OBVIOUS
  <2>2. PICK k \in none : \A n \in none : k <= n
    <3> HIDE DEF none
    <3>. QED  BY <2>1, LeastNumber
  <2>3. k \in Nat /\ ~\E f : Solves(f, k)
    BY <2>2
  <2>4. \E f : \A n \in 0 .. k - 1 : f[n] = Halve(v, t, f, n)
    <3>1. CASE k = 0
      BY <3>1
    <3>2. CASE k # 0
      <4>1. k - 1 \in 0 .. len /\ k - 1 \notin none
        <5>1. k \in 0 .. len
          BY <2>2
        <5>2. k - 1 \in 0 .. len /\ ~(k <= k - 1)
          BY <3>2, <5>1
        <5> HIDE DEF none
        <5>. QED  BY <2>2, <5>2
      <4>2. PICK f : Solves(f, k - 1)
        BY <4>1
      <4>. QED  BY <4>2
    <3>. QED  BY <3>1, <3>2
  <2>5. PICK f : \A n \in 0 .. k - 1 : f[n] = Halve(v, t, f, n)
    BY <2>4
  <2> DEFINE g == [n \in 0 .. k |-> IF n = k THEN Halve(v, t, f, k) ELSE f[n]]
  <2>6. ASSUME NEW n \in 0 .. k PROVE Halve(v, t, g, n) = Halve(v, t, f, n)
    <3>1. n # 0 => n \div 2 \in 0 .. k - 1 /\ n - (n \div 2) - 1 \in 0 .. k - 1
      BY <2>3
    <3>2. n # 0 => g[n \div 2] = f[n \div 2] /\ g[n - (n \div 2) - 1] = f[n - (n \div 2) - 1]
      BY <2>3, <3>1
    <3> HIDE DEF g
    <3>. QED  BY <3>2 DEF Halve
  <2>7. g = [n \in 0 .. k |-> Halve(v, t, g, n)]
    BY <2>3, <2>5, <2>6
  <2>. QED  BY <2>3, <2>7
<1>2. \E f : Solves(f, len)
  BY <1>1
<1>3. Bisection(v, t) = CHOOSE f : Solves(f, len)
  BY DEF Bisection, Halve
<1>4. Solves(Bisection(v, t), len)
  BY <1>2, <1>3
<1>. QED  BY <1>4

\* In the order of the tags, each tag once.
Sorted(v) == \A i, j \in 1 .. Len(v) : i < j => v[i].tag < v[j].tag

\* The elements have numbers for tags.
IsTagged(S) == \A e \in S : e.tag \in Nat

\* The elements from position k on are those with tags not below t.
Splits(v, t, k) ==
    /\ k \in 1 .. Len(v) + 1
    /\ \A i \in 1 .. Len(v) : v[i].tag < t <=> i < k

\* What is left of an element that is below t is below t, and what is right
\* of one that is not is not.
LEMMA SortedAround ==
    ASSUME NEW S, IsTagged(S), NEW v \in Seq(S), Sorted(v), NEW t \in Nat, NEW m \in 1 .. Len(v)
    PROVE  /\ v[m].tag < t => \A i \in 1 .. m : v[i].tag < t
           /\ ~(v[m].tag < t) => \A i \in m .. Len(v) : ~(v[i].tag < t)
<1>1. Len(v) \in Nat /\ \A i \in 1 .. Len(v) : v[i].tag \in Int
  <2>1. Len(v) \in Nat /\ \A i \in 1 .. Len(v) : v[i] \in S
    OBVIOUS
  <2>. QED  BY <2>1 DEF IsTagged
<1>2. ASSUME NEW i \in 1 .. m, v[m].tag < t PROVE v[i].tag < t
  <2>1. i \in 1 .. Len(v) /\ (i = m \/ i < m)
    BY <1>1
  <2>2. i < m => v[i].tag < v[m].tag
    BY <2>1 DEF Sorted
  <2>. QED  BY <1>1, <1>2, <2>1, <2>2
<1>3. ASSUME NEW i \in m .. Len(v), ~(v[m].tag < t) PROVE ~(v[i].tag < t)
  <2>1. i \in 1 .. Len(v) /\ (i = m \/ m < i)
    BY <1>1
  <2>2. m < i => v[m].tag < v[i].tag
    BY <2>1 DEF Sorted
  <2>. QED  BY <1>1, <1>3, <2>1, <2>2
<1>. QED  BY <1>2, <1>3

\* Both halves are smaller, and the right one ends where the whole does.
LEMMA HalvesFit ==
    ASSUME NEW n \in Nat \ {0}, NEW first \in Nat \ {0}, NEW len \in Nat, first + n <= len + 1,
           NEW half, half = n \div 2, NEW middle, middle = first + half
    PROVE  /\ half \in 0 .. n - 1 /\ (n - half - 1) \in 0 .. n - 1
           /\ middle \in 1 .. len /\ middle <= first + n - 1
           /\ middle + 1 \in 1 .. len + 1
           /\ middle + 1 + (n - half - 1) = first + n
<1>1. half \in 0 .. n - 1
  OBVIOUS
<1>. QED  BY <1>1

\* Bisection splits a vector in order, when it splits between the n elements
\* from first on.
LEMMA BisectionSplits ==
    ASSUME NEW S, IsTagged(S), NEW v \in Seq(S), Sorted(v), NEW t \in Nat
    PROVE  \A n \in 0 .. Len(v) : \A first \in 1 .. Len(v) + 1 :
              /\ first + n <= Len(v) + 1
              /\ \A i \in 1 .. first - 1 : v[i].tag < t
              /\ \A i \in first + n .. Len(v) : ~(v[i].tag < t)
              => Splits(v, t, Bisection(v, t)[n][first])
<1> DEFINE len == Len(v)
           f == Bisection(v, t)
           Between(n, first) ==
              /\ first + n <= len + 1
              /\ \A i \in 1 .. first - 1 : v[i].tag < t
              /\ \A i \in first + n .. len : ~(v[i].tag < t)
           Right(n) == \A first \in 1 .. len + 1 :
                          Between(n, first) => Splits(v, t, f[n][first])
           wrong == {n \in 0 .. len : ~Right(n)}
<1>0. len \in Nat /\ \A i \in 1 .. len : v[i].tag \in Int
  <2>1. len \in Nat /\ \A i \in 1 .. len : v[i] \in S
    OBVIOUS
  <2>. QED  BY <2>1 DEF IsTagged
<1>1. \A n \in 0 .. len : f[n] = Halve(v, t, f, n)
  BY <1>0, BisectionIsItsBody
<1> HIDE DEF f
<1>2. ASSUME wrong # {} PROVE FALSE
  <2>1. wrong \in SUBSET Nat
    OBVIOUS
  <2>2. PICK n \in wrong : \A m \in wrong : n <= m
    <3> HIDE DEF wrong
    <3>. QED  BY <1>2, <2>1, LeastNumber
  <2>3. n \in 0 .. len /\ \A m \in 0 .. n - 1 : Right(m)
    <3>1. n \in 0 .. len
      BY <2>2
    <3>2. \A m \in 0 .. n - 1 : m \in 0 .. len /\ ~(n <= m)
      BY <1>0, <3>1
    <3> HIDE DEF Right
    <3>. QED  BY <2>2, <3>1, <3>2
  <2>4. PICK first \in 1 .. len + 1 : Between(n, first) /\ ~Splits(v, t, f[n][first])
    BY <2>2
  <2> DEFINE half == n \div 2
             middle == first + half
  <2>5. f[n][first] = IF n = 0 THEN first
                      ELSE IF v[middle].tag < t THEN f[n - half - 1][middle + 1]
                      ELSE f[half][first]
    <3>1. f[n] = Halve(v, t, f, n)
      BY <1>1, <2>3
    <3> HIDE DEF Right, Between
    <3>. QED  BY <2>4, <3>1 DEF Halve
  <2>6. CASE n = 0
    <3>1. f[n][first] = first
      BY <2>5, <2>6
    <3>2. Splits(v, t, first)
      BY <1>0, <2>4, <2>6 DEF Splits
    <3>. QED  BY <2>4, <3>1, <3>2
  <2>7. n # 0 => /\ half \in 0 .. n - 1 /\ (n - half - 1) \in 0 .. n - 1
                 /\ middle \in 1 .. len /\ middle <= first + n - 1
                 /\ middle + 1 \in 1 .. len + 1
                 /\ middle + 1 + (n - half - 1) = first + n
    <3>1. n \in Nat /\ first \in Nat \ {0} /\ first + n <= len + 1
      BY <1>0, <2>3, <2>4
    <3> HIDE DEF len, Right, Between
    <3>. QED  BY <1>0, <3>1, HalvesFit
  <2> HIDE DEF half, middle
  <2>8. CASE n # 0 /\ v[middle].tag < t
    <3>1. \A i \in 1 .. middle : v[i].tag < t
      BY <2>7, <2>8, SortedAround
    <3>2. middle + 1 \in 1 .. len + 1 /\ Between(n - half - 1, middle + 1)
      <4>1. middle + 1 + (n - half - 1) = first + n /\ (middle + 1) - 1 = middle
        BY <1>0, <2>3, <2>7, <2>8
      <4>2. middle + 1 \in 1 .. len + 1
        BY <2>7, <2>8
      <4>. QED  BY <2>4, <3>1, <4>1, <4>2
    <3>3. Splits(v, t, f[n - half - 1][middle + 1])
      BY <2>3, <2>7, <2>8, <3>2
    <3>. QED  BY <2>4, <2>5, <2>8, <3>3
  <2>9. CASE n # 0 /\ ~(v[middle].tag < t)
    <3>1. \A i \in middle .. len : ~(v[i].tag < t)
      BY <2>7, <2>9, SortedAround
    <3>2. Between(half, first)
      <4>0. middle \in 1 .. len /\ len \in Nat
        BY <1>0, <2>7, <2>9
      <4>1. first + half = middle /\ middle <= len + 1
        <5>1. first + half = middle
          BY DEF middle
        <5>2. middle <= len + 1
          BY <4>0
        <5>. QED  BY <5>1, <5>2
      <4>2. \A i \in 1 .. first - 1 : v[i].tag < t
        BY <2>4
      <4>3. first + half <= len + 1
        BY <4>1
      <4>4. \A i \in first + half .. len : ~(v[i].tag < t)
        BY <3>1, <4>1
      <4>. QED  BY <4>2, <4>3, <4>4
    <3>3. Splits(v, t, f[half][first])
      BY <2>3, <2>4, <2>7, <2>9, <3>2
    <3>. QED  BY <2>4, <2>5, <2>9, <3>3
  <2>. QED  BY <2>6, <2>8, <2>9
<1>3. \A n \in 0 .. len : Right(n)
  BY <1>2
<1>. QED  BY <1>3 DEF f

\* So it does of the whole vector.
LEMMA LowerBoundSplits ==
    ASSUME NEW S, IsTagged(S), NEW v \in Seq(S), Sorted(v), NEW t \in Nat
    PROVE  Splits(v, t, LowerBound(v, t))
<1>1. /\ Len(v) \in 0 .. Len(v) /\ 1 \in 1 .. Len(v) + 1 /\ 1 + Len(v) <= Len(v) + 1
      /\ 1 .. 1 - 1 = {} /\ (1 + Len(v)) .. Len(v) = {}
  <2>1. Len(v) \in Nat
    OBVIOUS
  <2>. QED  BY <2>1
<1>2. Splits(v, t, Bisection(v, t)[Len(v)][1])
  BY <1>1, BisectionSplits
<1>. QED  BY <1>2 DEF LowerBound

\* An element is found by its tag.
LEMMA FoundByTag ==
    ASSUME NEW S, IsTagged(S), NEW v \in Seq(S), Sorted(v), NEW k \in 1 .. Len(v)
    PROVE  LowerBound(v, v[k].tag) = k
<1> DEFINE t == v[k].tag
           r == LowerBound(v, t)
<1>1. Len(v) \in Nat /\ \A i \in 1 .. Len(v) : v[i].tag \in Nat
  <2>1. Len(v) \in Nat /\ \A i \in 1 .. Len(v) : v[i] \in S
    OBVIOUS
  <2>. QED  BY <2>1 DEF IsTagged
<1>2. t \in Nat
  BY <1>1
<1>3. Splits(v, t, r)
  BY <1>2, LowerBoundSplits
<1> HIDE DEF r
<1>4. ~(k < r)
  BY <1>1, <1>3 DEF Splits
<1>5. ~(r < k)
  <2> SUFFICES ASSUME r < k PROVE FALSE
    OBVIOUS
  <2>1. r \in 1 .. Len(v)
    BY <1>1, <1>3 DEF Splits
  <2>2. v[r].tag < t
    BY <2>1 DEF Sorted
  <2>3. r < r
    BY <1>3, <2>1, <2>2 DEF Splits
  <2>. QED  BY <2>1, <2>3
<1>. QED  BY <1>1, <1>3, <1>4, <1>5 DEF r, Splits

\* w is v with e before position k.
IsInserted(S, w, v, k, e) ==
    /\ w \in Seq(S) /\ Len(w) = Len(v) + 1
    /\ \A j \in 1 .. Len(v) + 1 :
          w[j] = IF j < k THEN v[j] ELSE IF j = k THEN e ELSE v[j - 1]

\* What insert leaves of a vector.
LEMMA Inserted ==
    ASSUME NEW S, NEW v \in Seq(S), NEW k \in 1 .. Len(v) + 1, NEW e \in S,
           NEW w, w = Cap!InsertAt(v, k, e)
    PROVE  IsInserted(S, w, v, k, e)
<1> DEFINE n == Len(v)
           a == SubSeq(v, 1, k - 1)
           b == <<e>>
           d == SubSeq(v, k, n)
           ab == a \o b
<1>1. n \in Nat /\ k \in Nat /\ k >= 1 /\ k <= n + 1 /\ \A i \in 1 .. n : v[i] \in S
  OBVIOUS
<1>2. a \in Seq(S) /\ Len(a) = k - 1 /\ \A i \in 1 .. k - 1 : a[i] = v[i]
  <2>1. \A i \in 1 .. k - 1 : v[i] \in S
    BY <1>1
  <2>2. 1 \in Int /\ k - 1 \in Int
    BY <1>1
  <2>3. /\ a \in Seq(S) /\ Len(a) = (IF 1 <= k - 1 THEN (k - 1) - 1 + 1 ELSE 0)
        /\ \A i \in 1 .. (k - 1) - 1 + 1 : a[i] = v[1 + i - 1]
    BY <2>1, <2>2, SubSeqProperties
  <2>. QED  BY <1>1, <2>3
<1>3. d \in Seq(S) /\ Len(d) = n - k + 1 /\ \A i \in 1 .. n - k + 1 : d[i] = v[k + i - 1]
  <2>1. \A i \in k .. n : v[i] \in S
    BY <1>1
  <2>2. k \in Int /\ n \in Int
    BY <1>1
  <2>3. /\ d \in Seq(S) /\ Len(d) = (IF k <= n THEN n - k + 1 ELSE 0)
        /\ \A i \in 1 .. n - k + 1 : d[i] = v[k + i - 1]
    BY <2>1, <2>2, SubSeqProperties
  <2>. QED  BY <1>1, <2>3
<1>4. b \in Seq(S) /\ Len(b) = 1 /\ b[1] = e
  OBVIOUS
<1>5. w = ab \o d
  BY DEF Cap!InsertAt
<1> HIDE DEF b, d, n, a, ab
<1>6. /\ ab \in Seq(S) /\ Len(ab) = k
      /\ \A i \in 1 .. k : ab[i] = IF i < k THEN v[i] ELSE e
  <2>1. /\ ab \in Seq(S) /\ Len(ab) = Len(a) + Len(b)
        /\ \A i \in 1 .. Len(a) + Len(b) :
             ab[i] = IF i <= Len(a) THEN a[i] ELSE b[i - Len(a)]
    BY <1>2, <1>4, ConcatProperties DEF ab
  <2>. QED  BY <1>1, <1>2, <1>4, <2>1
<1>7. /\ w \in Seq(S) /\ Len(w) = Len(ab) + Len(d)
      /\ \A i \in 1 .. Len(ab) + Len(d) :
           w[i] = IF i <= Len(ab) THEN ab[i] ELSE d[i - Len(ab)]
  <2>1. /\ ab \o d \in Seq(S) /\ Len(ab \o d) = Len(ab) + Len(d)
        /\ \A i \in 1 .. Len(ab) + Len(d) :
             (ab \o d)[i] = IF i <= Len(ab) THEN ab[i] ELSE d[i - Len(ab)]
    BY <1>3, <1>6, ConcatProperties
  <2>. QED  BY <1>5, <2>1
<1>8. ASSUME NEW j \in 1 .. n + 1
      PROVE  w[j] = IF j < k THEN v[j] ELSE IF j = k THEN e ELSE v[j - 1]
  <2>1. CASE j <= k
    <3>1. w[j] = ab[j]
      BY <1>1, <1>3, <1>6, <1>7, <1>8, <2>1
    <3>2. j \in 1 .. k
      BY <1>1, <1>8, <2>1
    <3>. QED  BY <1>1, <1>6, <2>1, <3>1, <3>2
  <2>2. CASE k < j
    <3>1. w[j] = d[j - k]
      BY <1>1, <1>3, <1>6, <1>7, <1>8, <2>2
    <3>2. (j - k) \in 1 .. n - k + 1 /\ k + (j - k) - 1 = j - 1
      BY <1>1, <1>8, <2>2
    <3>3. d[j - k] = v[k + (j - k) - 1]
      BY <1>3, <3>2
    <3>. QED  BY <1>1, <1>8, <2>2, <3>1, <3>2, <3>3
  <2>. QED  BY <1>1, <1>8, <2>1, <2>2
<1>9. w \in Seq(S) /\ Len(w) = n + 1
  BY <1>1, <1>3, <1>6, <1>7
<1>. QED  BY <1>8, <1>9 DEF n, IsInserted

\* What erase leaves of it.
LEMMA Removed ==
    ASSUME NEW S, NEW v \in Seq(S), NEW k \in 1 .. Len(v),
           NEW w, w = Cap!RemoveAt(v, k)
    PROVE  /\ w \in Seq(S) /\ Len(w) = Len(v) - 1
           /\ \A j \in 1 .. Len(v) - 1 : w[j] = IF j < k THEN v[j] ELSE v[j + 1]
<1> DEFINE n == Len(v)
           a == SubSeq(v, 1, k - 1)
           d == SubSeq(v, k + 1, n)
<1>1. n \in Nat /\ k \in Nat /\ k >= 1 /\ k <= n /\ \A i \in 1 .. n : v[i] \in S
  OBVIOUS
<1>2. a \in Seq(S) /\ Len(a) = k - 1 /\ \A i \in 1 .. k - 1 : a[i] = v[i]
  <2>1. \A i \in 1 .. k - 1 : v[i] \in S
    BY <1>1
  <2>2. 1 \in Int /\ k - 1 \in Int
    BY <1>1
  <2>3. /\ a \in Seq(S) /\ Len(a) = (IF 1 <= k - 1 THEN (k - 1) - 1 + 1 ELSE 0)
        /\ \A i \in 1 .. (k - 1) - 1 + 1 : a[i] = v[1 + i - 1]
    BY <2>1, <2>2, SubSeqProperties
  <2>. QED  BY <1>1, <2>3
<1>3. d \in Seq(S) /\ Len(d) = n - k /\ \A i \in 1 .. n - k : d[i] = v[k + i]
  <2>1. \A i \in k + 1 .. n : v[i] \in S
    BY <1>1
  <2>2. k + 1 \in Int /\ n \in Int
    BY <1>1
  <2>3. /\ d \in Seq(S) /\ Len(d) = (IF k + 1 <= n THEN n - (k + 1) + 1 ELSE 0)
        /\ \A i \in 1 .. n - (k + 1) + 1 : d[i] = v[k + 1 + i - 1]
    BY <2>1, <2>2, SubSeqProperties
  <2>. QED  BY <1>1, <2>3
<1>4. w = a \o d
  BY DEF Cap!RemoveAt
<1> HIDE DEF a, d, n
<1>5. /\ w \in Seq(S) /\ Len(w) = Len(a) + Len(d)
      /\ \A i \in 1 .. Len(a) + Len(d) :
           w[i] = IF i <= Len(a) THEN a[i] ELSE d[i - Len(a)]
  <2>1. /\ a \o d \in Seq(S) /\ Len(a \o d) = Len(a) + Len(d)
        /\ \A i \in 1 .. Len(a) + Len(d) :
             (a \o d)[i] = IF i <= Len(a) THEN a[i] ELSE d[i - Len(a)]
    BY <1>2, <1>3, ConcatProperties
  <2>. QED  BY <1>4, <2>1
<1>6. ASSUME NEW j \in 1 .. n - 1
      PROVE  w[j] = IF j < k THEN v[j] ELSE v[j + 1]
  <2>1. CASE j < k
    BY <1>1, <1>2, <1>3, <1>5, <1>6, <2>1
  <2>2. CASE k <= j
    <3>1. w[j] = d[j - (k - 1)]
      BY <1>1, <1>2, <1>3, <1>5, <1>6, <2>2
    <3>2. (j - (k - 1)) \in 1 .. n - k /\ k + (j - (k - 1)) = j + 1
      BY <1>1, <1>6, <2>2
    <3>3. d[j - (k - 1)] = v[k + (j - (k - 1))]
      BY <1>3, <3>2
    <3>. QED  BY <1>1, <1>6, <2>2, <3>1, <3>2, <3>3
  <2>. QED  BY <1>1, <1>6, <2>1, <2>2
<1>7. w \in Seq(S) /\ Len(w) = n - 1
  BY <1>1, <1>2, <1>3, <1>5
<1>. QED  BY <1>6, <1>7 DEF n

\* w is in order and has c and those of v with other tags.
HasPut(S, w, v, c) ==
    /\ w \in Seq(S) /\ Sorted(w)
    /\ \E k \in 1 .. Len(w) : w[k] = c
    /\ \A j \in 1 .. Len(v) : v[j].tag # c.tag => \E k \in 1 .. Len(w) : w[k] = v[j]

\* w is in order and has c, all of v, and no more.
IsGrown(S, w, v, c) ==
    /\ w \in Seq(S) /\ Len(w) = Len(v) + 1 /\ Sorted(w)
    /\ \E k \in 1 .. Len(w) : w[k] = c
    /\ \A j \in 1 .. Len(v) : \E k \in 1 .. Len(w) : w[k] = v[j]
    /\ \A k \in 1 .. Len(w) : w[k] = c \/ \E j \in 1 .. Len(v) : w[k] = v[j]

\* A new tag is inserted where it belongs, and the rest stays.
LEMMA InsertKeepsOrder ==
    ASSUME NEW S, IsTagged(S), NEW v \in Seq(S), Sorted(v), NEW c \in S,
           NEW i, Splits(v, c.tag, i), ~(i <= Len(v) /\ v[i].tag = c.tag),
           NEW w, w = Cap!InsertAt(v, i, c)
    PROVE  IsGrown(S, w, v, c)
<1> DEFINE n == Len(v)
<1>1. n \in Nat /\ c.tag \in Nat /\ \A j \in 1 .. n : v[j].tag \in Nat
  <2>1. n \in Nat /\ c \in S /\ \A j \in 1 .. n : v[j] \in S
    OBVIOUS
  <2>. QED  BY <2>1 DEF IsTagged
<1>2. i \in 1 .. n + 1 /\ \A j \in 1 .. n : v[j].tag < c.tag <=> j < i
  BY DEF Splits
<1>3. \A j, k \in 1 .. n : j < k => v[j].tag < v[k].tag
  BY DEF Sorted
<1>4. /\ w \in Seq(S) /\ Len(w) = n + 1
      /\ \A j \in 1 .. n + 1 : w[j] = IF j < i THEN v[j] ELSE IF j = i THEN c ELSE v[j - 1]
  <2> HIDE DEF n
  <2>1. i \in 1 .. Len(v) + 1
    BY <1>2 DEF n
  <2>2. IsInserted(S, w, v, i, c)
    BY <2>1, Inserted
  <2>. QED  BY <2>2 DEF n, IsInserted
<1>5. ASSUME NEW j \in 1 .. n, i <= j PROVE c.tag < v[j].tag
  <2>1. i \in 1 .. n
    BY <1>1, <1>2, <1>5
  <2>2. v[i].tag # c.tag /\ ~(v[i].tag < c.tag)
    BY <1>2, <2>1
  <2>3. c.tag < v[i].tag
    BY <1>1, <2>1, <2>2
  <2>4. i = j \/ i < j
    BY <1>5, <2>1
  <2>5. i < j => v[i].tag < v[j].tag
    BY <1>3, <2>1
  <2>. QED  BY <1>1, <2>1, <2>3, <2>4, <2>5
<1> HIDE DEF n
<1>6. ASSUME NEW p \in 1 .. n + 1, NEW q \in 1 .. n + 1, p < q
      PROVE  w[p].tag < w[q].tag
  <2>0. n \in Nat /\ i \in Nat /\ p \in Nat /\ q \in Nat
    BY <1>1, <1>2
  <2>1. CASE q < i
    <3>1. p \in 1 .. n /\ q \in 1 .. n /\ w[p] = v[p] /\ w[q] = v[q]
      BY <1>2, <1>4, <1>6, <2>0, <2>1
    <3>. QED  BY <1>3, <1>6, <3>1
  <2>2. CASE q = i
    <3>1. p \in 1 .. n /\ p < i /\ w[p] = v[p] /\ w[q] = c
      BY <1>2, <1>4, <1>6, <2>0, <2>2
    <3>. QED  BY <1>2, <3>1
  <2>3. CASE i < q /\ p < i
    <3>1. p \in 1 .. n /\ (q - 1) \in 1 .. n /\ p < q - 1 /\ w[p] = v[p] /\ w[q] = v[q - 1]
      BY <1>2, <1>4, <1>6, <2>0, <2>3
    <3>. QED  BY <1>3, <3>1
  <2>4. CASE i < q /\ p = i
    <3>1. (q - 1) \in 1 .. n /\ i <= q - 1 /\ w[p] = c /\ w[q] = v[q - 1]
      BY <1>2, <1>4, <1>6, <2>0, <2>4
    <3>. QED  BY <1>5, <3>1
  <2>5. CASE i < p
    <3>1. /\ (p - 1) \in 1 .. n /\ (q - 1) \in 1 .. n /\ p - 1 < q - 1
          /\ w[p] = v[p - 1] /\ w[q] = v[q - 1]
      BY <1>2, <1>4, <1>6, <2>0, <2>5
    <3>. QED  BY <1>3, <3>1
  <2>. QED  BY <1>6, <2>0, <2>1, <2>2, <2>3, <2>4, <2>5
<1>7. Sorted(w)
  BY <1>4, <1>6 DEF Sorted
<1>8. w[i] = c /\ i \in 1 .. Len(w)
  BY <1>1, <1>2, <1>4
<1>9. ASSUME NEW j \in 1 .. n PROVE \E k \in 1 .. Len(w) : w[k] = v[j]
  <2>1. CASE j < i
    <3>1. j \in 1 .. Len(w) /\ w[j] = v[j]
      BY <1>1, <1>2, <1>4, <2>1
    <3>. QED  BY <3>1
  <2>2. CASE i <= j
    <3>1. (j + 1) \in 1 .. n + 1 /\ ~(j + 1 < i) /\ j + 1 # i /\ (j + 1) - 1 = j
      BY <1>1, <1>2, <2>2
    <3>2. w[j + 1] = v[j] /\ (j + 1) \in 1 .. Len(w)
      BY <1>4, <3>1
    <3>. QED  BY <3>2
  <2>. QED  BY <1>1, <1>2, <2>1, <2>2
<1>10. ASSUME NEW k \in 1 .. n + 1, k # i PROVE \E j \in 1 .. n : w[k] = v[j]
  <2>1. CASE k < i
    <3>1. k \in 1 .. n /\ w[k] = v[k]
      BY <1>1, <1>2, <1>4, <2>1
    <3>. QED  BY <3>1
  <2>2. CASE i < k
    <3>1. k - 1 \in 1 .. n /\ w[k] = v[k - 1]
      BY <1>1, <1>2, <1>4, <2>2
    <3>. QED  BY <3>1
  <2>. QED  BY <1>1, <1>2, <1>10, <2>1, <2>2
<1>11. \A k \in 1 .. Len(w) : w[k] = c \/ \E j \in 1 .. n : w[k] = v[j]
  BY <1>4, <1>8, <1>10
<1>. QED  BY <1>4, <1>7, <1>8, <1>9, <1>11 DEF n, IsGrown

-----------------------------------------------------------------------------
(* Capabilities are set and found.                                         *)

\* Capabilities are such elements.
LEMMA CapabilitiesAreTagged == Cap!TagsAreNumbers => IsTagged(Cap!Capability)
BY DEF Cap!TagsAreNumbers, Cap!Capability, IsTagged

\* What find_ and put_ rely on: the order, which no caller can disturb.
CapInv == caps \in Seq(Cap!Capability) /\ Sorted(caps)

\* find_ is std::lower_bound.
LEMMA FindSplits ==
    ASSUME Cap!TagsAreNumbers, CapInv, NEW t \in Tag
    PROVE  Cap!Find(t) = LowerBound(caps, t) /\ Splits(caps, t, Cap!Find(t))
<1>1. Cap!Find(t) = LowerBound(caps, t)
  BY DEF Cap!Find, Cap!LowerBound, Cap!Bisection, LowerBound, Bisection
<1>2. Splits(caps, t, LowerBound(caps, t))
  BY CapabilitiesAreTagged, LowerBoundSplits DEF CapInv, Cap!TagsAreNumbers
<1>. QED  BY <1>1, <1>2

\* Put keeps the order, has the new capability, and those with other tags.
LEMMA PutFacts ==
    ASSUME Cap!TagsAreNumbers, CapInv, NEW c \in Cap!Capability, NEW w, w = Cap!Put(c)
    PROVE  HasPut(Cap!Capability, w, caps, c)
<1> DEFINE i == LowerBound(caps, c.tag)
<1>1. c.tag \in Tag /\ c.tag \in Nat /\ IsTagged(Cap!Capability)
  BY CapabilitiesAreTagged DEF Cap!Capability, Cap!TagsAreNumbers
<1>2. caps \in Seq(Cap!Capability) /\ Sorted(caps)
  BY DEF CapInv
<1>3. Splits(caps, c.tag, i)
  BY <1>1, <1>2, LowerBoundSplits
<1>4. w = IF i <= Len(caps) /\ caps[i].tag = c.tag THEN [caps EXCEPT ![i] = c]
          ELSE Cap!InsertAt(caps, i, c)
  BY DEF Cap!Put, Cap!LowerBound, Cap!Bisection, LowerBound, Bisection
<1> HIDE DEF i
<1>5. CASE i <= Len(caps) /\ caps[i].tag = c.tag
  <2>1. i \in 1 .. Len(caps)
    BY <1>2, <1>3, <1>5 DEF Splits
  <2>2. /\ w \in Seq(Cap!Capability) /\ Len(w) = Len(caps)
        /\ \A j \in 1 .. Len(caps) : w[j] = IF j = i THEN c ELSE caps[j]
    BY <1>2, <1>4, <1>5, <2>1
  <2>3. \A j \in 1 .. Len(caps) : w[j].tag = caps[j].tag
    BY <1>5, <2>1, <2>2
  <2>4. Sorted(w)
    BY <1>2, <2>2, <2>3 DEF Sorted
  <2>5. w[i] = c
    BY <2>1, <2>2
  <2>6. ASSUME NEW j \in 1 .. Len(caps), caps[j].tag # c.tag PROVE w[j] = caps[j]
    BY <1>5, <2>2, <2>6
  <2>7. (\E k \in 1 .. Len(w) : w[k] = c) /\ \A j \in 1 .. Len(caps) : j \in 1 .. Len(w)
    BY <2>1, <2>2, <2>5
  <2>. QED  BY <2>2, <2>4, <2>6, <2>7 DEF HasPut
<1>6. CASE ~(i <= Len(caps) /\ caps[i].tag = c.tag)
  <2>1. w = Cap!InsertAt(caps, i, c)
    BY <1>4, <1>6
  <2>2. IsGrown(Cap!Capability, w, caps, c)
    BY <1>1, <1>2, <1>3, <1>6, <2>1, InsertKeepsOrder
  <2>. QED  BY <2>2 DEF IsGrown, HasPut
<1>. QED  BY <1>5, <1>6

\* Erasing a capability keeps the order of the others.
LEMMA UnsetFacts ==
    ASSUME CapInv, NEW k \in 1 .. Len(caps), NEW w, w = Cap!RemoveAt(caps, k)
    PROVE  w \in Seq(Cap!Capability) /\ Sorted(w)
<1>1. /\ w \in Seq(Cap!Capability) /\ Len(w) = Len(caps) - 1
      /\ \A j \in 1 .. Len(caps) - 1 : w[j] = IF j < k THEN caps[j] ELSE caps[j + 1]
  <2>1. caps \in Seq(Cap!Capability)
    BY DEF CapInv
  <2>. QED  BY <2>1, Removed
<1>2. Len(caps) \in Nat /\ k \in Nat
  BY DEF CapInv
<1>3. ASSUME NEW p \in 1 .. Len(w), NEW q \in 1 .. Len(w), p < q
      PROVE  w[p].tag < w[q].tag
  <2>0. p \in 1 .. Len(caps) - 1 /\ q \in 1 .. Len(caps) - 1
    BY <1>1, <1>2
  <2>1. CASE q < k
    <3>1. /\ p \in 1 .. Len(caps) /\ q \in 1 .. Len(caps)
          /\ w[p] = caps[p] /\ w[q] = caps[q]
      BY <1>1, <1>2, <1>3, <2>0, <2>1
    <3>. QED  BY <1>3, <3>1 DEF CapInv, Sorted
  <2>2. CASE p < k /\ k <= q
    <3>1. p \in 1 .. Len(caps) /\ q + 1 \in 1 .. Len(caps) /\ p < q + 1
      BY <1>2, <1>3, <2>0
    <3>2. w[p] = caps[p] /\ w[q] = caps[q + 1]
      BY <1>1, <1>2, <2>0, <2>2
    <3>. QED  BY <3>1, <3>2 DEF CapInv, Sorted
  <2>3. CASE k <= p
    <3>1. p + 1 \in 1 .. Len(caps) /\ q + 1 \in 1 .. Len(caps) /\ p + 1 < q + 1
      BY <1>2, <1>3, <2>0
    <3>2. w[p] = caps[p + 1] /\ w[q] = caps[q + 1]
      BY <1>1, <1>2, <1>3, <2>0, <2>3
    <3>. QED  BY <3>1, <3>2 DEF CapInv, Sorted
  <2>. QED  BY <1>2, <2>0, <2>1, <2>2, <2>3
<1>. QED  BY <1>1, <1>3 DEF Sorted

\* Every operation keeps the order.
LEMMA CapInvariant == Cap!TagsAreNumbers => (Cap!Spec => []CapInv)
<1> SUFFICES ASSUME Cap!TagsAreNumbers PROVE Cap!Spec => []CapInv
  OBVIOUS
<1>1. Cap!Init => CapInv
  BY DEF Cap!Init, CapInv, Sorted
<1>2. CapInv /\ [Cap!Next]_caps => CapInv'
  <2> SUFFICES ASSUME CapInv, [Cap!Next]_caps PROVE CapInv'
    OBVIOUS
  <2>1. ASSUME NEW c \in Cap!Capability, Cap!Set(c) PROVE CapInv'
    <3>1. caps' = Cap!Put(c)
      BY <2>1 DEF Cap!Set
    <3>2. HasPut(Cap!Capability, caps', caps, c)
      BY <3>1, PutFacts
    <3>. QED  BY <3>2 DEF CapInv, HasPut, Sorted
  <2>2. ASSUME NEW t \in Tag, Cap!Unset(t) PROVE CapInv'
    <3> DEFINE k == Cap!Find(t)
    <3>1. CASE k <= Len(caps)
      <4>1. caps' = Cap!RemoveAt(caps, k)
        BY <2>2, <3>1 DEF Cap!Unset
      <4>2. k \in 1 .. Len(caps)
        <5>1. Splits(caps, t, k) /\ Len(caps) \in Nat
          BY FindSplits DEF CapInv
        <5> HIDE DEF k
        <5>. QED  BY <3>1, <5>1 DEF Splits
      <4> HIDE DEF k
      <4>3. caps' \in Seq(Cap!Capability) /\ Sorted(caps')
        BY <4>1, <4>2, UnsetFacts
      <4>. QED  BY <4>3 DEF CapInv, Sorted
    <3>2. CASE ~(k <= Len(caps))
      <4>1. caps' = caps
        BY <2>2, <3>2 DEF Cap!Unset
      <4>. QED  BY <4>1 DEF CapInv, Sorted
    <3>. QED  BY <3>1, <3>2
  <2>3. CASE UNCHANGED caps
    BY <2>3 DEF CapInv, Sorted
  <2>. QED  BY <2>1, <2>2, <2>3 DEF Cap!Next
<1>. QED  BY <1>1, <1>2, PTL DEF Cap!Spec

\* A capability that is set is answered, and every other as before, however
\* many there are (capability.hpp, put_ and find_).
LEMMA GettersInCapabilities ==
    ASSUME Cap!TagsAreNumbers
    PROVE  Cap!Spec => [][Cap!SetKeepsTheOthers]_caps
<1>1. CapInv => Cap!SetKeepsTheOthers
  <2> SUFFICES ASSUME CapInv, NEW c \in Cap!Capability, Cap!Set(c)
               PROVE  /\ Cap!Get(c.tag, c.kind)' = c.value
                      /\ \A other \in Cap!ToSet(caps) : other.tag # c.tag =>
                            Cap!Get(other.tag, other.kind)' = other.value
    BY DEF Cap!SetKeepsTheOthers
  <2>1. /\ caps' \in Seq(Cap!Capability) /\ Sorted(caps')
        /\ \E k \in 1 .. Len(caps') : caps'[k] = c
        /\ \A i \in 1 .. Len(caps) : caps[i].tag # c.tag =>
              \E k \in 1 .. Len(caps') : caps'[k] = caps[i]
    <3>1. caps' = Cap!Put(c)
      BY DEF Cap!Set
    <3>2. HasPut(Cap!Capability, caps', caps, c)
      BY <3>1, PutFacts
    <3>. QED  BY <3>2 DEF HasPut
  <2>2. ASSUME NEW k \in 1 .. Len(caps'), NEW e, caps'[k] = e
        PROVE  Cap!Get(e.tag, e.kind)' = e.value
    <3>1. LowerBound(caps', e.tag) = k
      BY <2>1, <2>2, CapabilitiesAreTagged, FoundByTag
    <3>2. Cap!LowerBound(caps', e.tag) = k
      BY <3>1 DEF Cap!LowerBound, Cap!Bisection, LowerBound, Bisection
    <3>3. k <= Len(caps')
      BY <2>1
    <3>. QED  BY <2>2, <3>2, <3>3 DEF Cap!Get, Cap!Find
  <2>3. Cap!Get(c.tag, c.kind)' = c.value
    BY <2>1, <2>2
  <2>4. ASSUME NEW other \in Cap!ToSet(caps), other.tag # c.tag
        PROVE  Cap!Get(other.tag, other.kind)' = other.value
    <3>1. PICK i \in 1 .. Len(caps) : caps[i] = other
      BY DEF Cap!ToSet, CapInv
    <3>2. PICK k \in 1 .. Len(caps') : caps'[k] = other
      BY <2>1, <2>4, <3>1
    <3>. QED  BY <2>2, <3>2
  <2>. QED  BY <2>3, <2>4
<1>2. CapInv /\ [Cap!Next]_caps => [Cap!SetKeepsTheOthers]_caps
  BY <1>1
<1>. QED  BY <1>2, CapInvariant, PTL DEF Cap!Spec

-----------------------------------------------------------------------------
(* Records are made of fields.                                             *)

\* One set of fields has one order.
LEMMA OneOrder ==
    ASSUME NEW S, IsTagged(S), NEW v \in Seq(S), NEW w \in Seq(S), Sorted(v), Sorted(w),
           Rec!ToSet(v) = Rec!ToSet(w)
    PROVE  v = w
<1> DEFINE wrong == {k \in 1 .. Len(v) : k \in 1 .. Len(w) /\ v[k] # w[k]}
<1>0. Len(v) \in Nat /\ Len(w) \in Nat
  OBVIOUS
<1>1. /\ \A i \in 1 .. Len(v) : \E j \in 1 .. Len(w) : w[j] = v[i]
      /\ \A i \in 1 .. Len(w) : \E j \in 1 .. Len(v) : v[j] = w[i]
  <2>1. /\ Rec!ToSet(v) = {v[i] : i \in 1 .. Len(v)}
        /\ Rec!ToSet(w) = {w[i] : i \in 1 .. Len(w)}
    BY DEF Rec!ToSet
  <2>. QED  BY <2>1
<1>2. /\ \A i \in 1 .. Len(v) : v[i].tag \in Nat
      /\ \A i \in 1 .. Len(w) : w[i].tag \in Nat
  <2>1. (\A i \in 1 .. Len(v) : v[i] \in S) /\ (\A i \in 1 .. Len(w) : w[i] \in S)
    OBVIOUS
  <2>. QED  BY <2>1 DEF IsTagged
<1>3. /\ \A i, j \in 1 .. Len(v) : i < j => v[i].tag < v[j].tag
      /\ \A i, j \in 1 .. Len(w) : i < j => w[i].tag < w[j].tag
  BY DEF Sorted
<1>4. ASSUME NEW k \in 1 .. Len(v), k \in 1 .. Len(w), v[k] # w[k],
             \A i \in 1 .. k - 1 : v[i] = w[i]
      PROVE  FALSE
  <2>1. PICK j \in 1 .. Len(w) : w[j] = v[k]
    BY <1>1
  <2>2. k < j
    <3>1. ~(j < k)
      <4> SUFFICES ASSUME j < k PROVE FALSE
        OBVIOUS
      <4>1. j \in 1 .. Len(v) /\ v[j] = w[j]
        BY <1>0, <1>4
      <4>2. v[j].tag < v[k].tag /\ v[k].tag \in Nat
        BY <1>2, <1>3, <4>1
      <4>. QED  BY <2>1, <4>1, <4>2
    <3>2. j # k
      BY <1>4, <2>1
    <3>. QED  BY <3>1, <3>2
  <2>3. w[k].tag < v[k].tag
    BY <1>3, <1>4, <2>1, <2>2
  <2>4. PICK i \in 1 .. Len(v) : v[i] = w[k]
    BY <1>1, <1>4
  <2>5. k < i
    <3>1. ~(i < k)
      <4> SUFFICES ASSUME i < k PROVE FALSE
        OBVIOUS
      <4>1. i \in 1 .. Len(w) /\ v[i] = w[i]
        BY <1>0, <1>4
      <4>2. w[i].tag < w[k].tag /\ w[k].tag \in Nat
        BY <1>2, <1>3, <1>4, <4>1
      <4>. QED  BY <2>4, <4>1, <4>2
    <3>2. i # k
      BY <1>4, <2>4
    <3>. QED  BY <3>1, <3>2
  <2>6. v[k].tag < w[k].tag
    BY <1>3, <2>4, <2>5
  <2>7. v[k].tag \in Nat /\ w[k].tag \in Nat
    BY <1>2, <1>4
  <2>. QED  BY <2>3, <2>6, <2>7
<1>5. wrong = {}
  <2> SUFFICES ASSUME wrong # {} PROVE FALSE
    OBVIOUS
  <2>1. wrong \in SUBSET Nat
    OBVIOUS
  <2>2. PICK k \in wrong : \A i \in wrong : k <= i
    <3> HIDE DEF wrong
    <3>. QED  BY <2>1, LeastNumber
  <2>3. k \in 1 .. Len(v) /\ k \in 1 .. Len(w) /\ v[k] # w[k]
    BY <2>2
  <2>4. ASSUME NEW i \in 1 .. k - 1 PROVE v[i] = w[i]
    <3>1. i \in 1 .. Len(v) /\ i \in 1 .. Len(w) /\ ~(k <= i)
      BY <1>0, <2>3
    <3>2. i \notin wrong
      <4> HIDE DEF wrong
      <4>. QED  BY <2>2, <3>1
    <3>. QED  BY <3>1, <3>2
  <2>. QED  BY <1>4, <2>3, <2>4
<1>6. \A k \in 1 .. Len(v) : k \in 1 .. Len(w) => v[k] = w[k]
  BY <1>5
<1>7. ~(Len(v) < Len(w))
  <2> SUFFICES ASSUME Len(v) < Len(w) PROVE FALSE
    OBVIOUS
  <2>1. Len(w) \in 1 .. Len(w)
    BY <1>0
  <2>2. PICK j \in 1 .. Len(v) : v[j] = w[Len(w)]
    BY <1>1, <2>1
  <2>3. j \in 1 .. Len(w) /\ j < Len(w)
    BY <1>0
  <2>4. w[j] = w[Len(w)]
    BY <1>6, <2>2, <2>3
  <2>5. w[j].tag < w[Len(w)].tag /\ w[j].tag \in Nat
    BY <1>2, <1>3, <2>1, <2>3
  <2>. QED  BY <2>4, <2>5
<1>8. ~(Len(w) < Len(v))
  <2> SUFFICES ASSUME Len(w) < Len(v) PROVE FALSE
    OBVIOUS
  <2>1. Len(v) \in 1 .. Len(v)
    BY <1>0
  <2>2. PICK j \in 1 .. Len(w) : w[j] = v[Len(v)]
    BY <1>1, <2>1
  <2>3. j \in 1 .. Len(v) /\ j < Len(v)
    BY <1>0
  <2>4. v[j] = v[Len(v)]
    BY <1>6, <2>2, <2>3
  <2>5. v[j].tag < v[Len(v)].tag /\ v[j].tag \in Nat
    BY <1>2, <1>3, <2>1, <2>3
  <2>. QED  BY <2>4, <2>5
<1>9. Len(v) = Len(w)
  BY <1>0, <1>7, <1>8
<1>. QED  BY <1>6, <1>9

\* Fields with different tags have an order.
LEMMA SomeOrder ==
    ASSUME NEW S, IsTagged(S), NEW put \in Seq(S), ~Rec!HasDuplicate(put)
    PROVE  \E w \in Seq(S) : Sorted(w) /\ Len(w) = Len(put) /\ Rec!ToSet(w) = Rec!ToSet(put)
<1> DEFINE n == Len(put)
           Orders(w, k) ==
              /\ w \in Seq(S) /\ Sorted(w) /\ Len(w) = k
              /\ \A i \in 1 .. k : \E j \in 1 .. Len(w) : w[j] = put[i]
              /\ \A j \in 1 .. Len(w) : \E i \in 1 .. k : w[j] = put[i]
           wrong == {k \in 0 .. n : ~\E w : Orders(w, k)}
<1>0. n \in Nat /\ \A i \in 1 .. n : put[i] \in S
  OBVIOUS
<1>1. Orders(<<>>, 0)
  BY DEF Sorted
<1>2. ASSUME NEW k \in 1 .. n, NEW v, Orders(v, k - 1) PROVE \E w : Orders(w, k)
  <2> DEFINE c == put[k]
             i == LowerBound(v, c.tag)
             w == Cap!InsertAt(v, i, c)
  <2>1. c \in S /\ c.tag \in Nat /\ v \in Seq(S) /\ Sorted(v) /\ Len(v) = k - 1
    BY <1>0, <1>2 DEF IsTagged
  <2>2. Splits(v, c.tag, i)
    BY <2>1, LowerBoundSplits
  <2>3. ~(i <= Len(v) /\ v[i].tag = c.tag)
    <3> SUFFICES ASSUME i <= Len(v), v[i].tag = c.tag PROVE FALSE
      OBVIOUS
    <3>1. i \in 1 .. Len(v)
      <4>1. i \in 1 .. Len(v) + 1 /\ Len(v) \in Nat
        BY <2>1, <2>2 DEF Splits
      <4> HIDE DEF i
      <4>. QED  BY <4>1
    <3> HIDE DEF i
    <3>2. PICK j \in 1 .. k - 1 : v[i] = put[j]
      BY <1>2, <3>1
    <3>3. j \in 1 .. n /\ k \in 1 .. n /\ j # k /\ put[j].tag = put[k].tag
      BY <1>0, <3>2
    <3>4. DOMAIN put = 1 .. n
      BY <1>0
    <3>. QED  BY <3>3, <3>4 DEF Rec!HasDuplicate
  <2> HIDE DEF i, w, c
  <2>4. /\ w \in Seq(S) /\ Len(w) = Len(v) + 1 /\ Sorted(w)
        /\ \E j \in 1 .. Len(w) : w[j] = c
        /\ \A p \in 1 .. Len(v) : \E j \in 1 .. Len(w) : w[j] = v[p]
        /\ \A j \in 1 .. Len(w) : w[j] = c \/ \E p \in 1 .. Len(v) : w[j] = v[p]
    <3>1. w = Cap!InsertAt(v, i, c)
      BY DEF w
    <3> HIDE DEF Orders, wrong, n
    <3>2. IsGrown(S, w, v, c)
      BY <2>1, <2>2, <2>3, <3>1, InsertKeepsOrder
    <3>. QED  BY <3>2 DEF IsGrown
  <2>5. ASSUME NEW m \in 1 .. k PROVE \E j \in 1 .. Len(w) : w[j] = put[m]
    <3>1. CASE m = k
      BY <2>4, <3>1 DEF c
    <3>2. CASE m # k
      <4>1. m \in 1 .. k - 1
        BY <3>2
      <4>2. PICK p \in 1 .. Len(v) : v[p] = put[m]
        BY <1>2, <4>1
      <4>. QED  BY <2>4, <4>2
    <3>. QED  BY <3>1, <3>2
  <2>6. ASSUME NEW j \in 1 .. Len(w) PROVE \E m \in 1 .. k : w[j] = put[m]
    <3>1. CASE w[j] = c
      <4>1. k \in 1 .. k
        OBVIOUS
      <4>. QED  BY <3>1, <4>1 DEF c
    <3>2. CASE w[j] # c
      <4>1. PICK p \in 1 .. Len(v) : w[j] = v[p]
        BY <2>4, <3>2
      <4>2. PICK m \in 1 .. k - 1 : v[p] = put[m]
        BY <1>2
      <4>3. m \in 1 .. k
        OBVIOUS
      <4>. QED  BY <4>1, <4>2, <4>3
    <3>. QED  BY <3>1, <3>2
  <2>7. Len(w) = k
    BY <2>1, <2>4
  <2>. QED  BY <2>4, <2>5, <2>6, <2>7
<1> HIDE DEF Orders
<1>3. wrong = {}
  <2> SUFFICES ASSUME wrong # {} PROVE FALSE
    OBVIOUS
  <2>1. wrong \in SUBSET Nat
    OBVIOUS
  <2>2. PICK k \in wrong : \A j \in wrong : k <= j
    <3> HIDE DEF wrong
    <3>. QED  BY <2>1, LeastNumber
  <2>3. k \in 0 .. n /\ ~\E w : Orders(w, k)
    BY <2>2
  <2>4. k # 0
    BY <1>1, <2>3
  <2>5. k \in 1 .. n /\ k - 1 \in 0 .. n /\ ~(k <= k - 1)
    BY <1>0, <2>3, <2>4
  <2>6. k - 1 \notin wrong
    <3> HIDE DEF wrong
    <3>. QED  BY <2>2, <2>5
  <2>. QED  BY <1>2, <2>3, <2>5, <2>6
<1>4. PICK w : Orders(w, n)
  <2>1. n \in 0 .. n
    BY <1>0
  <2>. QED  BY <1>3, <2>1
<1>5. Rec!ToSet(w) = Rec!ToSet(put)
  <2>1. w \in Seq(S) /\ put \in Seq(S)
    BY <1>4 DEF Orders
  <2>2. /\ Rec!ToSet(w) = {w[j] : j \in 1 .. Len(w)}
        /\ Rec!ToSet(put) = {put[j] : j \in 1 .. n}
    BY <2>1 DEF Rec!ToSet
  <2>3. /\ \A i \in 1 .. n : \E j \in 1 .. Len(w) : w[j] = put[i]
        /\ \A j \in 1 .. Len(w) : \E i \in 1 .. n : w[j] = put[i]
    BY <1>4 DEF Orders
  <2>. QED  BY <2>2, <2>3
<1>. QED  BY <1>4, <1>5 DEF Orders

\* mk_record keeps the fields that were put, in order.
LEMMA RecordsAreSorted ==
    ASSUME NEW S, IsTagged(S), NEW put \in Seq(S), ~Rec!HasDuplicate(put),
           NEW r, r = Rec!SortByTag(put)
    PROVE  r \in Seq(S) /\ Sorted(r) /\ Rec!ToSet(r) = Rec!ToSet(put)
<1> DEFINE Arranged(w) ==
              /\ w \in [DOMAIN put -> Rec!ToSet(put)]
              /\ Rec!ToSet(w) = Rec!ToSet(put)
              /\ \A i, j \in DOMAIN put : i < j => w[i].tag < w[j].tag
<1>1. /\ DOMAIN put = 1 .. Len(put) /\ Len(put) \in Nat
      /\ Rec!ToSet(put) \subseteq S
  <2>1. DOMAIN put = 1 .. Len(put) /\ Len(put) \in Nat /\ \A i \in 1 .. Len(put) : put[i] \in S
    OBVIOUS
  <2>. QED  BY <2>1 DEF Rec!ToSet
<1>2. PICK w \in Seq(S) : Sorted(w) /\ Len(w) = Len(put) /\ Rec!ToSet(w) = Rec!ToSet(put)
  BY SomeOrder
<1>3. Arranged(w)
  <2>1. DOMAIN w = 1 .. Len(put) /\ w = [i \in DOMAIN w |-> w[i]]
    BY <1>2
  <2>2. \A i \in DOMAIN w : w[i] \in Rec!ToSet(w)
    BY DEF Rec!ToSet
  <2>3. w \in [DOMAIN put -> Rec!ToSet(put)]
    BY <1>1, <1>2, <2>1, <2>2
  <2>4. \A i, j \in DOMAIN put : i < j => w[i].tag < w[j].tag
    BY <1>1, <1>2 DEF Sorted
  <2>. QED  BY <1>2, <2>3, <2>4
<1>4. r = CHOOSE v : Arranged(v)
  <2>1. Rec!SortByTag(put) = CHOOSE v \in [DOMAIN put -> Rec!ToSet(put)] :
            /\ Rec!ToSet(v) = Rec!ToSet(put)
            /\ \A i, j \in DOMAIN put : i < j => v[i].tag < v[j].tag
    BY DEF Rec!SortByTag
  <2>. QED  BY <2>1
<1>5. Arranged(r)
  <2> HIDE DEF Arranged
  <2>. QED  BY <1>3, <1>4
<1>6. r \in [1 .. Len(put) -> S]
  BY <1>1, <1>5
<1>7. r \in Seq(S) /\ Len(r) = Len(put)
  BY <1>1, <1>6
<1>8. Sorted(r)
  BY <1>1, <1>5, <1>7 DEF Sorted
<1>. QED  BY <1>5, <1>7, <1>8

\* Another order of the same fields repeats a tag when the first one does.
LEMMA OtherOrder ==
    ASSUME NEW S, NEW put \in Seq(S), NEW p \in Rec!Bijection(DOMAIN put, DOMAIN put),
           NEW other, other = [i \in DOMAIN put |-> put[p[i]]]
    PROVE  /\ other \in Seq(S) /\ Rec!ToSet(other) = Rec!ToSet(put)
           /\ Rec!HasDuplicate(other) <=> Rec!HasDuplicate(put)
<1>1. DOMAIN put = 1 .. Len(put) /\ Len(put) \in Nat /\ \A i \in DOMAIN put : put[i] \in S
  OBVIOUS
<1>2. /\ p \in [DOMAIN put -> DOMAIN put]
      /\ \A i, j \in DOMAIN put : p[i] = p[j] => i = j
      /\ \A i \in DOMAIN put : \E j \in DOMAIN put : p[j] = i
  <2>1. /\ p \in {M \in [DOMAIN put -> DOMAIN put] :
                     \A a, b \in DOMAIN put : M[a] = M[b] => a = b}
        /\ p \in {M \in [DOMAIN put -> DOMAIN put] :
                     \A i \in DOMAIN put : \E j \in DOMAIN put : M[j] = i}
    BY DEF Rec!Bijection, Rec!Injection, Rec!IsInjective, Rec!Surjection
  <2>. QED  BY <2>1
<1>3. DOMAIN other = DOMAIN put /\ \A i \in DOMAIN put : other[i] = put[p[i]] /\ other[i] \in S
  BY <1>1, <1>2
<1>4. other \in Seq(S)
  <2>1. other \in [1 .. Len(put) -> S]
    BY <1>1, <1>2
  <2>. QED  BY <1>1, <2>1
<1>5. Rec!ToSet(other) = Rec!ToSet(put)
  <2>1. /\ Rec!ToSet(other) = {other[i] : i \in DOMAIN other}
        /\ Rec!ToSet(put) = {put[i] : i \in DOMAIN put}
    BY DEF Rec!ToSet
  <2>2. \A i \in DOMAIN other : \E j \in DOMAIN put : other[i] = put[j]
    BY <1>2, <1>3
  <2>3. \A i \in DOMAIN put : \E j \in DOMAIN other : put[i] = other[j]
    BY <1>2, <1>3
  <2>4. Rec!ToSet(other) \subseteq Rec!ToSet(put)
    BY <2>1, <2>2
  <2>5. Rec!ToSet(put) \subseteq Rec!ToSet(other)
    BY <2>1, <2>3
  <2>. QED  BY <2>4, <2>5
<1>6. Rec!HasDuplicate(other) => Rec!HasDuplicate(put)
  <2> SUFFICES ASSUME NEW i \in DOMAIN other, NEW j \in DOMAIN other,
                      i # j, other[i].tag = other[j].tag
               PROVE  Rec!HasDuplicate(put)
    BY DEF Rec!HasDuplicate
  <2>1. p[i] \in DOMAIN put /\ p[j] \in DOMAIN put /\ p[i] # p[j]
    BY <1>2, <1>3
  <2>2. put[p[i]].tag = put[p[j]].tag
    BY <1>3
  <2>. QED  BY <2>1, <2>2 DEF Rec!HasDuplicate
<1>7. Rec!HasDuplicate(put) => Rec!HasDuplicate(other)
  <2> SUFFICES ASSUME NEW i \in DOMAIN put, NEW j \in DOMAIN put,
                      i # j, put[i].tag = put[j].tag
               PROVE  Rec!HasDuplicate(other)
    BY DEF Rec!HasDuplicate
  <2>1. PICK a \in DOMAIN put : p[a] = i
    BY <1>2
  <2>2. PICK b \in DOMAIN put : p[b] = j
    BY <1>2
  <2>3. a # b /\ other[a].tag = other[b].tag
    BY <1>3, <2>1, <2>2
  <2>. QED  BY <1>3, <2>3 DEF Rec!HasDuplicate
<1>. QED  BY <1>4, <1>5, <1>6, <1>7

\* What has been put.
FieldsTyped == fields \in Seq([tag : FieldTag, value : FieldValue])

\* A record is the same in whatever order its fields are put, and gives each
\* field the value that was put there (canonical.cpp, mk_record and field).
LEMMA PutIsFound ==
    ASSUME Rec!TagsAreNumbers, FieldsTyped
    PROVE  Rec!OrderOfPutIsForgotten /\ Rec!FieldsAreFound
<1> DEFINE Items == [tag : FieldTag, value : FieldValue]
<1>1. IsTagged(Items) /\ fields \in Seq(Items)
  BY DEF IsTagged, FieldsTyped, Rec!TagsAreNumbers
<1> HIDE DEF Items
<1>2. Rec!OrderOfPutIsForgotten
  <2> SUFFICES ASSUME NEW p \in Rec!Bijection(DOMAIN fields, DOMAIN fields),
                      NEW other, other = [i \in DOMAIN fields |-> fields[p[i]]]
               PROVE  Rec!MkRecord(other) = Rec!MkRecord(fields)
    BY DEF Rec!OrderOfPutIsForgotten
  <2>1. /\ other \in Seq(Items) /\ Rec!ToSet(other) = Rec!ToSet(fields)
        /\ Rec!HasDuplicate(other) <=> Rec!HasDuplicate(fields)
    BY <1>1, OtherOrder
  <2>2. CASE Rec!HasDuplicate(fields)
    BY <2>1, <2>2 DEF Rec!MkRecord
  <2>3. CASE ~Rec!HasDuplicate(fields)
    <3> DEFINE v == Rec!SortByTag(fields)
               w == Rec!SortByTag(other)
    <3>1. v \in Seq(Items) /\ Sorted(v) /\ Rec!ToSet(v) = Rec!ToSet(fields)
      BY <1>1, <2>3, RecordsAreSorted
    <3>2. w \in Seq(Items) /\ Sorted(w) /\ Rec!ToSet(w) = Rec!ToSet(other)
      BY <1>1, <2>1, <2>3, RecordsAreSorted
    <3>3. v = w
      <4> HIDE DEF v, w
      <4>. QED  BY <1>1, <2>1, <3>1, <3>2, OneOrder
    <3>. QED  BY <2>1, <2>3, <3>3 DEF Rec!MkRecord
  <2>. QED  BY <2>2, <2>3
<1>3. Rec!FieldsAreFound
  <2> DEFINE r == Rec!MkRecord(fields)
             Places(t) == {i \in DOMAIN fields : fields[i].tag = t}
  <2> SUFFICES ASSUME r.ok, NEW t \in FieldTag
               PROVE  Rec!Field(r.value, t) =
                         IF Places(t) = {} THEN <<>> ELSE <<fields[CHOOSE i \in Places(t) : TRUE].value>>
    BY DEF Rec!FieldsAreFound
  <2> DEFINE v == Rec!SortByTag(fields)
             k == LowerBound(v, t)
  <2>1. ~Rec!HasDuplicate(fields)
    BY DEF Rec!MkRecord, Rec!Raises
  <2>2. v \in Seq(Items) /\ Sorted(v) /\ Rec!ToSet(v) = Rec!ToSet(fields)
    BY <1>1, <2>1, RecordsAreSorted
  <2>3. Rec!Field(r.value, t) = IF k <= Len(v) /\ v[k].tag = t THEN <<v[k].value>> ELSE <<>>
    <3>1. r.value.kind = "Record" /\ r.value.items = v
      BY <2>1 DEF Rec!MkRecord
    <3>2. Rec!LowerBound(v, t) = k
      BY DEF Rec!LowerBound, Rec!Bisection, LowerBound, Bisection
    <3> HIDE DEF r, v, k
    <3>. QED  BY <3>1, <3>2 DEF Rec!Field
  <2> HIDE DEF r, v
  <2>4. /\ Rec!ToSet(v) = {v[i] : i \in 1 .. Len(v)}
        /\ Rec!ToSet(fields) = {fields[i] : i \in DOMAIN fields}
        /\ Len(v) \in Nat
    BY <2>2 DEF Rec!ToSet
  <2>5. CASE Places(t) = {}
    <3>1. ~(k <= Len(v) /\ v[k].tag = t)
      <4> SUFFICES ASSUME k <= Len(v), v[k].tag = t PROVE FALSE
        OBVIOUS
      <4>1. Splits(v, t, k)
        <5>1. t \in Nat
          BY DEF Rec!TagsAreNumbers
        <5>. QED  BY <1>1, <2>2, <5>1, LowerBoundSplits
      <4> HIDE DEF k
      <4>2. k \in 1 .. Len(v)
        BY <2>4, <4>1 DEF Splits
      <4>3. PICK i \in DOMAIN fields : fields[i] = v[k]
        BY <2>2, <2>4, <4>2
      <4>. QED  BY <2>5, <4>3
    <3>. QED  BY <2>3, <2>5, <3>1
  <2>6. CASE Places(t) # {}
    <3> DEFINE i == CHOOSE j \in Places(t) : TRUE
    <3>1. i \in DOMAIN fields /\ fields[i].tag = t
      BY <2>6
    <3> HIDE DEF i, k
    <3>2. PICK j \in 1 .. Len(v) : v[j] = fields[i]
      BY <2>2, <2>4, <3>1
    <3>3. LowerBound(v, v[j].tag) = j
      BY <1>1, <2>2, FoundByTag
    <3>4. k = j
      BY <3>1, <3>2, <3>3 DEF k
    <3>5. k <= Len(v) /\ v[k].tag = t /\ v[k].value = fields[i].value
      BY <2>4, <3>1, <3>2, <3>4
    <3>. QED  BY <2>3, <2>6, <3>5 DEF i
  <2>. QED  BY <2>5, <2>6
<1>. QED  BY <1>2, <1>3

\* Callers only ever put fields.
LEMMA FieldsInRecords ==
    ASSUME Rec!TagsAreNumbers
    PROVE  Rec!FieldsSpec(FieldValue) => [](Rec!OrderOfPutIsForgotten /\ Rec!FieldsAreFound)
<1>1. Rec!FieldsInit => FieldsTyped
  BY DEF Rec!FieldsInit, FieldsTyped
<1>2. FieldsTyped /\ [Rec!FieldsNext(FieldValue)]_fields => FieldsTyped'
  <2> SUFFICES ASSUME FieldsTyped, [Rec!FieldsNext(FieldValue)]_fields PROVE FieldsTyped'
    OBVIOUS
  <2>1. ASSUME NEW tag \in FieldTag, NEW v \in FieldValue, Rec!PutField(tag, v)
        PROVE  FieldsTyped'
    <3> DEFINE Items == [tag : FieldTag, value : FieldValue]
               e == [tag |-> tag, value |-> v]
    <3>1. e \in Items /\ fields \in Seq(Items) /\ fields' = Append(fields, e)
      BY <2>1 DEF FieldsTyped, Rec!PutField
    <3> HIDE DEF Items, e
    <3>2. fields' \in Seq(Items)
      BY <3>1
    <3>. QED  BY <3>2 DEF FieldsTyped, Items
  <2>2. CASE Rec!TakeFields
    BY <2>2 DEF FieldsTyped, Rec!TakeFields
  <2>3. CASE UNCHANGED fields
    BY <2>3 DEF FieldsTyped
  <2>. QED  BY <2>1, <2>2, <2>3 DEF Rec!FieldsNext
<1>3. FieldsTyped => Rec!OrderOfPutIsForgotten /\ Rec!FieldsAreFound
  BY PutIsFound
<1>. QED  BY <1>1, <1>2, <1>3, PTL DEF Rec!FieldsSpec

-----------------------------------------------------------------------------
(* Values are encoded and decoded.                                         *)

\* One step of the recursion on the depth of values.
NestedBody(f, d) ==
    [kind : Can!ToSet(Can!Kinds), cells : Seq(Nat),
     items : Seq([tag : Nat, value : IF d = 0 THEN {} ELSE f[d - 1]])]

LEMMA NestedIsItsBody ==
    ASSUME MaxDepth \in Nat
    PROVE  \A d \in 0 .. MaxDepth : Can!Nested[d] = NestedBody(Can!Nested, d)
<1> DEFINE Solves(f, k) == f = [d \in 0 .. k |-> NestedBody(f, d)]
           none == {k \in 0 .. MaxDepth : ~\E f : Solves(f, k)}
<1>1. none = {}
  <2> SUFFICES ASSUME none # {} PROVE FALSE
    OBVIOUS
  <2>1. none \in SUBSET Nat
    OBVIOUS
  <2>2. PICK k \in none : \A n \in none : k <= n
    <3> HIDE DEF none
    <3>. QED  BY <2>1, LeastNumber
  <2>3. k \in Nat /\ ~\E f : Solves(f, k)
    BY <2>2
  <2>4. PICK f : \A n \in 0 .. k - 1 : f[n] = NestedBody(f, n)
    <3>1. CASE k = 0
      BY <3>1
    <3>2. CASE k # 0
      <4>1. k - 1 \in 0 .. MaxDepth /\ k - 1 \notin none
        <5>1. k \in 0 .. MaxDepth
          BY <2>2
        <5>2. k - 1 \in 0 .. MaxDepth /\ ~(k <= k - 1)
          BY <3>2, <5>1
        <5> HIDE DEF none
        <5>. QED  BY <2>2, <5>2
      <4>2. PICK f : Solves(f, k - 1)
        BY <4>1
      <4>. QED  BY <4>2
    <3>. QED  BY <3>1, <3>2
  <2> DEFINE g == [n \in 0 .. k |-> IF n = k THEN NestedBody(f, k) ELSE f[n]]
  <2>5. ASSUME NEW n \in 0 .. k PROVE NestedBody(g, n) = NestedBody(f, n)
    <3>1. n # 0 => g[n - 1] = f[n - 1]
      BY <2>3
    <3> HIDE DEF g
    <3>. QED  BY <3>1 DEF NestedBody
  <2>6. g = [n \in 0 .. k |-> NestedBody(g, n)]
    <3>1. \A n \in 0 .. k : g[n] = NestedBody(f, n)
      BY <2>3, <2>4
    <3>2. g = [n \in 0 .. k |-> g[n]]
      OBVIOUS
    <3> HIDE DEF g
    <3>. QED  BY <2>5, <3>1, <3>2
  <2>. QED  BY <2>3, <2>6
<1>2. Can!Nested = CHOOSE f : Solves(f, MaxDepth)
  BY DEF Can!Nested, NestedBody
<1>3. Solves(Can!Nested, MaxDepth)
  <2>1. \E f : Solves(f, MaxDepth)
    BY <1>1
  <2> HIDE DEF Solves
  <2>. QED  BY <1>2, <2>1
<1>. QED  BY <1>3

\* And of the encoder.
ElementBody(f, d) ==
    [v \in Can!Nested[d] |-> Can!ElementCells(v, IF d = 0 THEN <<>> ELSE f[d - 1])]

LEMMA ElementIsItsBody ==
    ASSUME MaxDepth \in Nat
    PROVE  \A d \in 0 .. MaxDepth : Can!Element[d] = ElementBody(Can!Element, d)
<1> DEFINE Solves(f, k) == f = [d \in 0 .. k |-> ElementBody(f, d)]
           none == {k \in 0 .. MaxDepth : ~\E f : Solves(f, k)}
<1>1. none = {}
  <2> SUFFICES ASSUME none # {} PROVE FALSE
    OBVIOUS
  <2>1. none \in SUBSET Nat
    OBVIOUS
  <2>2. PICK k \in none : \A n \in none : k <= n
    <3> HIDE DEF none
    <3>. QED  BY <2>1, LeastNumber
  <2>3. k \in Nat /\ ~\E f : Solves(f, k)
    BY <2>2
  <2>4. PICK f : \A n \in 0 .. k - 1 : f[n] = ElementBody(f, n)
    <3>1. CASE k = 0
      BY <3>1
    <3>2. CASE k # 0
      <4>1. k - 1 \in 0 .. MaxDepth /\ k - 1 \notin none
        <5>1. k \in 0 .. MaxDepth
          BY <2>2
        <5>2. k - 1 \in 0 .. MaxDepth /\ ~(k <= k - 1)
          BY <3>2, <5>1
        <5> HIDE DEF none
        <5>. QED  BY <2>2, <5>2
      <4>2. PICK f : Solves(f, k - 1)
        BY <4>1
      <4>. QED  BY <4>2
    <3>. QED  BY <3>1, <3>2
  <2> DEFINE g == [n \in 0 .. k |-> IF n = k THEN ElementBody(f, k) ELSE f[n]]
  <2>5. ASSUME NEW n \in 0 .. k PROVE ElementBody(g, n) = ElementBody(f, n)
    <3>1. n # 0 => g[n - 1] = f[n - 1]
      BY <2>3
    <3>2. (IF n = 0 THEN <<>> ELSE g[n - 1]) = IF n = 0 THEN <<>> ELSE f[n - 1]
      BY <3>1
    <3> HIDE DEF g
    <3>. QED  BY <3>2 DEF ElementBody
  <2>6. g = [n \in 0 .. k |-> ElementBody(g, n)]
    <3>1. \A n \in 0 .. k : g[n] = ElementBody(f, n)
      BY <2>3, <2>4
    <3>2. g = [n \in 0 .. k |-> g[n]]
      OBVIOUS
    <3> HIDE DEF g
    <3>. QED  BY <2>5, <3>1, <3>2
  <2>. QED  BY <2>3, <2>6
<1>2. Can!Element = CHOOSE f : Solves(f, MaxDepth)
  BY DEF Can!Element, ElementBody
<1>3. Solves(Can!Element, MaxDepth)
  <2>1. \E f : Solves(f, MaxDepth)
    BY <1>1
  <2> HIDE DEF Solves
  <2>. QED  BY <1>2, <2>1
<1>. QED  BY <1>3

\* What a payload is made of has the form of a parse.
IsParse(result) ==
    /\ result.ok \in BOOLEAN
    /\ result.ok => result = [ok |-> result.ok, value |-> result.value, next |-> 0]

LEMMA PayloadForm ==
    ASSUME NEW kind, NEW body, NEW inner
    PROVE  IsParse(Can!Payload(kind, body, inner))
<1> DEFINE result == Can!Payload(kind, body, inner)
           many == IF inner = Can!UndefinedItems THEN Can!Undefined
                   ELSE IF ~inner.ok THEN Can!Raises
                   ELSE IF kind = "Sequence" THEN Can!Made(Can!MkSeq(inner.items))
                   ELSE Can!MkRecord(inner.items)
<1>1. IsParse(Can!Raises) /\ ~Can!Undefined.ok
  BY DEF IsParse, Can!Raises, Can!Undefined
<1>2. IsParse(Can!Undefined)
  BY <1>1 DEF IsParse, Can!Raises, Can!Undefined
<1>3. \A v : IsParse(Can!Made(v))
  BY DEF IsParse, Can!Made
<1>4. \A items : IsParse(Can!MkRecord(items))
  BY DEF IsParse, Can!MkRecord, Can!Raises
<1>5. IsParse(many)
  BY <1>1, <1>2, <1>3, <1>4
<1>6. result = CASE kind = "Null" -> IF body = <<>> THEN Can!Made(Can!Null) ELSE Can!Raises
                 [] kind \in Can!Words -> IF Len(body) = 1 /\ Can!Admits(kind, body[1])
                                          THEN Can!Made(Can!Scalar(kind, body)) ELSE Can!Raises
                 [] kind \in Can!Texts -> Can!Made(Can!Scalar(kind, body))
                 [] OTHER -> many
  BY DEF Can!Payload
<1> HIDE DEF result, many
<1>7. kind = "Null" => kind \notin Can!Words /\ kind \notin Can!Texts
  BY DEF Can!Words, Can!Texts
<1>8. kind \in Can!Words => kind \notin Can!Texts
  BY DEF Can!Words, Can!Texts
<1>. QED  BY <1>1, <1>3, <1>5, <1>6, <1>7, <1>8 DEF result

\* An element that is parsed is within the buffer, and has the length that its
\* header says.
EndsAsHeaded(s, f, pos, end) ==
    LET item == Can!ElementAt(s, f, pos, end)
        last == pos + 1 + s[pos + 1]
    IN  item.ok => ~(pos + 1 > Len(s)) /\ ~(last > Len(s)) /\ item.next = last + 1

LEMMA LengthInHeader ==
    ASSUME NEW s, NEW f, NEW pos, NEW end
    PROVE  EndsAsHeaded(s, f, pos, end)
<1> DEFINE kind == Can!Kinds[s[pos] + 1]
           last == pos + 1 + s[pos + 1]
           inner == f[pos + 2][kind = "Record"][last]
           result == Can!Payload(kind, SubSeq(s, pos + 2, last), inner)
           item == Can!ElementAt(s, f, pos, end)
<1>1. item = IF pos + 1 > Len(s) \/ s[pos] + 1 \notin DOMAIN Can!Kinds THEN Can!Raises
             ELSE IF pos + 1 <= end /\ last > end THEN Can!Raises
             ELSE IF last > Len(s)
                  THEN IF kind \in Can!Words \cup {"Null"} THEN Can!Raises ELSE Can!Undefined
             ELSE IF result.ok THEN [result EXCEPT !.next = last + 1]
             ELSE result
  BY DEF Can!ElementAt
<1> HIDE DEF inner, kind
<1>2. IsParse(result)
  BY PayloadForm
<1>3. ~Can!Raises.ok /\ ~Can!Undefined.ok
  BY DEF Can!Raises, Can!Undefined
<1> HIDE DEF result, item
<1>4. item.ok => /\ ~(pos + 1 > Len(s)) /\ ~(last > Len(s))
                 /\ result.ok /\ item = [result EXCEPT !.next = last + 1]
  BY <1>1, <1>3
<1>5. item.ok => item.next = last + 1
  BY <1>2, <1>4 DEF IsParse
<1>. QED  BY <1>4, <1>5 DEF EndsAsHeaded, item

\* A parse that succeeds ends behind where it began, within the buffer.
LEMMA ElementAdvances ==
    ASSUME NEW s \in Seq(Nat), NEW f, NEW pos \in Nat \ {0}, NEW end \in Nat,
           NEW item, item = Can!ElementAt(s, f, pos, end), item.ok
    PROVE  pos + 1 <= Len(s) /\ item.next \in pos + 2 .. Len(s) + 1
<1> DEFINE last == pos + 1 + s[pos + 1]
<1>1. ~(pos + 1 > Len(s)) /\ ~(last > Len(s)) /\ item.next = last + 1
  <2>1. EndsAsHeaded(s, f, pos, end)
    BY LengthInHeader
  <2>. QED  BY <2>1 DEF EndsAsHeaded
<1>2. pos + 1 \in 1 .. Len(s) /\ Len(s) \in Nat
  BY <1>1
<1>3. s[pos + 1] \in Nat
  BY <1>2
<1>4. last \in Nat /\ last >= pos + 1
  BY <1>3
<1> HIDE DEF last
<1>5. last <= Len(s)
  BY <1>1, <1>2, <1>4
<1>. QED  BY <1>1, <1>2, <1>4, <1>5

\* The parse of an element looks at the items behind its header only ...
LEMMA ElementRestsOn ==
    ASSUME NEW s \in Seq(Nat), NEW f, NEW g, NEW pos \in Nat \ {0}, NEW end,
           pos + 1 <= Len(s) => f[pos + 2] = g[pos + 2]
    PROVE  Can!ElementAt(s, f, pos, end) = Can!ElementAt(s, g, pos, end)
<1>1. CASE f[pos + 2] = g[pos + 2]
  BY <1>1 DEF Can!ElementAt
<1>2. CASE pos + 1 > Len(s)
  BY <1>2 DEF Can!ElementAt
<1>3. pos + 1 > Len(s) \/ pos + 1 <= Len(s)
  OBVIOUS
<1>. QED  BY <1>1, <1>2, <1>3

\* ... and that of items at what is behind the position they begin at.
LEMMA ItemsRestOn ==
    ASSUME NEW s \in Seq(Nat), NEW f, NEW g, NEW pos \in 1 .. Len(s) + 1,
           \A q \in pos + 1 .. Len(s) + 1 : f[q] = g[q],
           NEW tagged \in BOOLEAN, NEW last \in 0 .. Len(s)
    PROVE  Can!ItemsAt(s, f, pos, tagged, last) = Can!ItemsAt(s, g, pos, tagged, last)
<1> DEFINE from == IF tagged THEN pos + 1 ELSE pos
           item == Can!ElementAt(s, f, from, last)
<1>1. item = Can!ElementAt(s, g, from, last)
  <2>1. from \in Nat \ {0} /\ (from + 1 <= Len(s) => from + 2 \in pos + 1 .. Len(s) + 1)
    OBVIOUS
  <2>2. from + 1 <= Len(s) => f[from + 2] = g[from + 2]
    BY <2>1
  <2>3. ASSUME NEW p \in Nat \ {0}, p + 1 <= Len(s) => f[p + 2] = g[p + 2]
        PROVE  Can!ElementAt(s, f, p, last) = Can!ElementAt(s, g, p, last)
    BY <2>3, ElementRestsOn
  <2> HIDE DEF from
  <2>. QED  BY <2>1, <2>2, <2>3 DEF item
<1>2. item.ok => f[item.next] = g[item.next]
  <2> SUFFICES ASSUME item.ok PROVE f[item.next] = g[item.next]
    OBVIOUS
  <2>1. from \in Nat \ {0} /\ from >= pos /\ last \in Nat
    OBVIOUS
  <2>2. item.next \in from + 2 .. Len(s) + 1
    <3> HIDE DEF from
    <3>. QED  BY <2>1, ElementAdvances
  <2>3. item.next \in pos + 1 .. Len(s) + 1
    BY <2>1, <2>2
  <2>. QED  BY <2>3
<1> DEFINE tag == IF tagged THEN s[pos] ELSE 0
           parsed(h) == IF pos > last THEN Can!NoItems(pos = last + 1)
                        ELSE Can!Joined(tagged, tag, item, h[item.next][tagged][last])
<1>3. Can!ItemsAt(s, f, pos, tagged, last) = parsed(f)
  BY DEF Can!ItemsAt
<1>4. Can!ItemsAt(s, g, pos, tagged, last) = parsed(g)
  BY <1>1 DEF Can!ItemsAt
<1> HIDE DEF item
<1>5. parsed(f) = parsed(g)
  <2>1. CASE item.ok
    BY <1>2, <2>1
  <2>2. CASE ~item.ok
    BY <2>2 DEF Can!Joined
  <2>. QED  BY <2>1, <2>2
<1>. QED  BY <1>3, <1>4, <1>5

\* One step of the recursion on positions.
ItemsBody(s, f, pos) ==
    [tagged \in BOOLEAN |-> [last \in 0 .. Len(s) |-> Can!ItemsAt(s, f, pos, tagged, last)]]

LEMMA BodyRestsOn ==
    ASSUME NEW s \in Seq(Nat), NEW f, NEW g, NEW pos \in 1 .. Len(s) + 1,
           \A q \in pos + 1 .. Len(s) + 1 : g[q] = f[q]
    PROVE  ItemsBody(s, g, pos) = ItemsBody(s, f, pos)
<1>1. ASSUME NEW tagged \in BOOLEAN, NEW last \in 0 .. Len(s)
      PROVE  Can!ItemsAt(s, g, pos, tagged, last) = Can!ItemsAt(s, f, pos, tagged, last)
  BY ItemsRestOn
<1>. QED  BY <1>1 DEF ItemsBody

\* The recursion has a solution: else there were a least number of cells from
\* the end for which it had none.
LEMMA ItemsAreTheirBody ==
    ASSUME NEW s \in Seq(Nat)
    PROVE  \A pos \in 1 .. Len(s) + 1 : Can!Items(s)[pos] = ItemsBody(s, Can!Items(s), pos)
<1> DEFINE size == Len(s) + 1
           From(k) == size + 1 - k .. size
           Solves(f, k) == \A pos \in From(k) : f[pos] = ItemsBody(s, f, pos)
           none == {k \in 0 .. size : ~\E f : Solves(f, k)}
<1>0. size \in Nat
  OBVIOUS
<1>1. none = {}
  <2> SUFFICES ASSUME none # {} PROVE FALSE
    OBVIOUS
  <2>1. none \in SUBSET Nat
    OBVIOUS
  <2>2. PICK k \in none : \A n \in none : k <= n
    <3> HIDE DEF none
    <3>. QED  BY <2>1, LeastNumber
  <2>3. k \in 0 .. size /\ ~\E f : Solves(f, k)
    BY <2>2
  <2>4. k # 0
    <3>1. From(0) = {}
      BY <1>0
    <3>2. \A f : Solves(f, 0)
      BY <3>1
    <3>. QED  BY <2>3, <3>2
  <2>5. PICK f : Solves(f, k - 1)
    <3>1. k - 1 \in 0 .. size /\ ~(k <= k - 1)
      BY <2>3, <2>4
    <3>2. k - 1 \notin none
      <4> HIDE DEF none
      <4>. QED  BY <2>2, <3>1
    <3>. QED  BY <3>1, <3>2
  <2> DEFINE first == size + 1 - k
             g == [pos \in From(k) |-> IF pos = first THEN ItemsBody(s, f, pos) ELSE f[pos]]
  <2>6. /\ \A pos \in From(k) : pos \in 1 .. Len(s) + 1
        /\ \A pos \in From(k) : pos # first => pos \in From(k - 1)
        /\ \A pos \in From(k) : \A q \in pos + 1 .. size : q \in From(k) /\ q # first
    <3>1. k \in Nat /\ first \in Nat /\ first >= 1 /\ size + 1 - (k - 1) = first + 1
      BY <1>0, <2>3, <2>4
    <3>2. From(k) = first .. size /\ From(k - 1) = first + 1 .. size
      BY <3>1
    <3> HIDE DEF From, first, none, Solves
    <3>. QED  BY <1>0, <3>1, <3>2
  <2>7. ASSUME NEW pos \in From(k) PROVE ItemsBody(s, g, pos) = ItemsBody(s, f, pos)
    <3>1. \A q \in pos + 1 .. Len(s) + 1 : g[q] = f[q]
      BY <2>6
    <3>0. pos \in 1 .. Len(s) + 1
      BY <2>6
    <3> HIDE DEF g, From
    <3>. QED  BY <3>0, <3>1, BodyRestsOn
  <2>8. ASSUME NEW pos \in From(k) PROVE g[pos] = ItemsBody(s, f, pos)
    BY <2>5, <2>6
  <2>9. Solves(g, k)
    <3> HIDE DEF g, From
    <3>. QED  BY <2>7, <2>8
  <2>. QED  BY <2>3, <2>9
<1> DEFINE D == 1 .. Len(s) + 1
           Recursion(f) == f = [pos \in D |-> ItemsBody(s, f, pos)]
<1>2. \E f : Recursion(f)
  <2>1. size \in 0 .. size /\ From(size) = D
    BY <1>0
  <2>2. PICK f : \A pos \in D : f[pos] = ItemsBody(s, f, pos)
    <3> HIDE DEF From, D
    <3>. QED  BY <1>1, <2>1
  <2> DEFINE g == [pos \in D |-> f[pos]]
  <2>3. ASSUME NEW pos \in D PROVE ItemsBody(s, g, pos) = ItemsBody(s, f, pos)
    <3>1. \A q \in pos + 1 .. Len(s) + 1 : g[q] = f[q]
      OBVIOUS
    <3> HIDE DEF g
    <3>2. ASSUME NEW tagged \in BOOLEAN, NEW last \in 0 .. Len(s)
          PROVE  Can!ItemsAt(s, g, pos, tagged, last) = Can!ItemsAt(s, f, pos, tagged, last)
      BY <3>1, ItemsRestOn
    <3>. QED  BY <3>2 DEF ItemsBody
  <2>4. \A pos \in D : f[pos] = ItemsBody(s, g, pos)
    <3> HIDE DEF g, D
    <3>. QED  BY <2>2, <2>3
  <2>5. g = [pos \in D |-> ItemsBody(s, g, pos)]
    <3> HIDE DEF D
    <3>1. \A pos \in D : g[pos] = ItemsBody(s, g, pos)
      BY <2>4
    <3>2. g = [pos \in D |-> g[pos]]
      OBVIOUS
    <3> HIDE DEF g
    <3>. QED  BY <3>1, <3>2
  <2>. QED  BY <2>5
<1>3. Can!Items(s) = CHOOSE f : Recursion(f)
  BY DEF Can!Items, ItemsBody
<1>4. Recursion(Can!Items(s))
  <2> HIDE DEF Recursion
  <2>. QED  BY <1>2, <1>3
<1>. QED  BY <1>4

\* One step of the recursion that puts parts one behind the other.
FlatBody(parts, f, i) == IF i = 1 THEN parts[i] ELSE f[i - 1] \o parts[i]

\* It has a solution.
LEMMA PartsAreJoined ==
    ASSUME NEW parts, Len(parts) \in Nat \ {0}
    PROVE  \E f : /\ \A i \in 1 .. Len(parts) : f[i] = FlatBody(parts, f, i)
                  /\ Can!FlattenSeq(parts) = f[Len(parts)]
<1> DEFINE n == Len(parts)
           Solves(f, k) == f = [i \in 1 .. k |-> FlatBody(parts, f, i)]
           none == {k \in 0 .. n : ~\E f : Solves(f, k)}
<1>1. none = {}
  <2> SUFFICES ASSUME none # {} PROVE FALSE
    OBVIOUS
  <2>1. none \in SUBSET Nat
    OBVIOUS
  <2>2. PICK k \in none : \A m \in none : k <= m
    <3> HIDE DEF none
    <3>. QED  BY <2>1, LeastNumber
  <2>3. k \in 0 .. n /\ ~\E f : Solves(f, k)
    BY <2>2
  <2>4. k # 0
    <3>1. Solves([i \in {} |-> {}], 0)
      OBVIOUS
    <3>. QED  BY <2>3, <3>1
  <2>5. PICK f : Solves(f, k - 1)
    <3>1. k - 1 \in 0 .. n /\ ~(k <= k - 1)
      BY <2>3, <2>4
    <3>2. k - 1 \notin none
      <4> HIDE DEF none
      <4>. QED  BY <2>2, <3>1
    <3>. QED  BY <3>1, <3>2
  <2> DEFINE g == [i \in 1 .. k |-> IF i = k THEN FlatBody(parts, f, k) ELSE f[i]]
  <2>6. ASSUME NEW i \in 1 .. k PROVE FlatBody(parts, g, i) = FlatBody(parts, f, i)
    <3>1. i # 1 => i - 1 \in 1 .. k /\ i - 1 # k
      BY <2>3
    <3>2. i # 1 => g[i - 1] = f[i - 1]
      BY <3>1
    <3> HIDE DEF g
    <3>. QED  BY <3>2 DEF FlatBody
  <2>7. \A i \in 1 .. k : g[i] = FlatBody(parts, f, i)
    <3>1. \A i \in 1 .. k : i # k => i \in 1 .. k - 1
      BY <2>3
    <3>. QED  BY <2>5, <3>1
  <2>8. g = [i \in 1 .. k |-> FlatBody(parts, g, i)]
    <3>1. g = [i \in 1 .. k |-> g[i]]
      OBVIOUS
    <3> HIDE DEF g
    <3>. QED  BY <2>6, <2>7, <3>1
  <2>. QED  BY <2>3, <2>8
<1>2. Can!FlattenSeq(parts) = (CHOOSE f : Solves(f, n))[n]
  BY DEF Can!FlattenSeq, FlatBody
<1>3. Solves(CHOOSE f : Solves(f, n), n)
  <2>1. \E f : Solves(f, n)
    BY <1>1
  <2> HIDE DEF Solves
  <2>. QED  BY <2>1
<1> DEFINE flat == CHOOSE f : Solves(f, n)
<1>4. \A i \in 1 .. n : flat[i] = FlatBody(parts, flat, i)
  <2> HIDE DEF flat
  <2>1. flat = [i \in 1 .. n |-> FlatBody(parts, flat, i)]
    BY <1>3 DEF flat
  <2>. QED  BY <2>1
<1> HIDE DEF Solves
<1>. QED  BY <1>2, <1>4

\* The first k parts stand one behind the other, each after position at.
Lays(parts, k, whole, at) ==
    /\ whole \in Seq(Nat) /\ at \in [1 .. k + 1 -> Nat]
    /\ at[1] = 0 /\ at[k + 1] = Len(whole)
    /\ \A i \in 1 .. k :
          /\ at[i + 1] = at[i] + Len(parts[i])
          /\ \A j \in 1 .. Len(parts[i]) : /\ at[i] + j \in 1 .. Len(whole)
                                           /\ whole[at[i] + j] = parts[i][j]

LEMMA OneMorePart ==
    ASSUME NEW parts, NEW k \in Nat, NEW u, NEW at, Lays(parts, k, u, at),
           NEW w \in Seq(Nat), w = parts[k + 1],
           NEW more, more = [i \in 1 .. k + 2 |-> IF i = k + 2 THEN Len(u) + Len(w) ELSE at[i]]
    PROVE  Lays(parts, k + 1, u \o w, more)
<1>1. /\ u \in Seq(Nat) /\ at \in [1 .. k + 1 -> Nat] /\ at[1] = 0 /\ at[k + 1] = Len(u)
      /\ \A i \in 1 .. k :
            /\ at[i + 1] = at[i] + Len(parts[i])
            /\ \A j \in 1 .. Len(parts[i]) : /\ at[i] + j \in 1 .. Len(u)
                                             /\ u[at[i] + j] = parts[i][j]
  BY DEF Lays
<1> DEFINE whole == u \o w
<1>2. /\ whole \in Seq(Nat) /\ Len(whole) = Len(u) + Len(w)
      /\ Len(u) \in Nat /\ Len(w) \in Nat
      /\ \A j \in 1 .. Len(u) : whole[j] = u[j]
  BY <1>1
<1>3. \A j \in 1 .. Len(w) : Len(u) + j \in 1 .. Len(whole) /\ whole[Len(u) + j] = w[j]
  BY <1>1
<1> HIDE DEF whole
<1>4. /\ more \in [1 .. k + 2 -> Nat] /\ more[k + 2] = Len(whole)
      /\ \A i \in 1 .. k + 1 : more[i] = at[i]
  <2>1. \A i \in 1 .. k + 1 : i \in 1 .. k + 2 /\ i # k + 2
    OBVIOUS
  <2>2. \A i \in 1 .. k + 2 : i = k + 2 \/ i \in 1 .. k + 1
    OBVIOUS
  <2>3. \A i \in 1 .. k + 2 : more[i] \in Nat
    BY <1>1, <1>2, <2>2
  <2>. QED  BY <1>2, <2>1, <2>3
<1>5. more[1] = 0
  BY <1>1, <1>4
<1>6. ASSUME NEW i \in 1 .. k + 1
      PROVE  /\ more[i + 1] = more[i] + Len(parts[i])
             /\ \A j \in 1 .. Len(parts[i]) : /\ more[i] + j \in 1 .. Len(whole)
                                              /\ whole[more[i] + j] = parts[i][j]
  <2>1. CASE i = k + 1
    <3>1. more[i + 1] = Len(whole) /\ more[i] = Len(u) /\ parts[i] = w
      BY <1>1, <1>4, <2>1
    <3>. QED  BY <1>2, <1>3, <3>1
  <2>2. CASE i # k + 1
    <3>1. i \in 1 .. k /\ i + 1 \in 1 .. k + 1
      BY <2>2
    <3>2. more[i + 1] = at[i + 1] /\ more[i] = at[i]
      BY <1>4, <3>1
    <3>3. \A j \in 1 .. Len(parts[i]) : at[i] + j \in 1 .. Len(u)
      BY <1>1, <3>1
    <3>4. 1 .. Len(u) \subseteq 1 .. Len(whole)
      BY <1>2
    <3>5. at[i + 1] = at[i] + Len(parts[i])
      BY <1>1, <3>1
    <3>6. ASSUME NEW j \in 1 .. Len(parts[i])
          PROVE  at[i] + j \in 1 .. Len(whole) /\ whole[at[i] + j] = parts[i][j]
      <4>1. at[i] + j \in 1 .. Len(u) /\ u[at[i] + j] = parts[i][j]
        BY <1>1, <3>1
      <4>. QED  BY <1>2, <3>4, <4>1
    <3>. QED  BY <3>2, <3>5, <3>6
  <2>. QED  BY <2>1, <2>2
<1>7. Len(whole) = more[k + 1 + 1] /\ more \in [1 .. k + 1 + 1 -> Nat]
  BY <1>4
<1> HIDE DEF whole
<1>8. Lays(parts, k + 1, whole, more)
  BY <1>2, <1>5, <1>6, <1>7 DEF Lays
<1>. QED  BY <1>8 DEF whole

\* All parts do in the whole.
LEMMA PartsInFlat ==
    ASSUME NEW parts \in Seq(Seq(Nat))
    PROVE  \E at : Lays(parts, Len(parts), Can!FlattenSeq(parts), at)
<1> DEFINE n == Len(parts)
<1>0. n \in Nat /\ \A i \in 1 .. n : parts[i] \in Seq(Nat)
  OBVIOUS
<1>1. \E at : Lays(parts, 0, <<>>, at)
  <2> DEFINE at == [i \in 1 .. 1 |-> 0]
  <2>1. at \in [1 .. 0 + 1 -> Nat] /\ at[1] = 0 /\ at[0 + 1] = Len(<<>>) /\ <<>> \in Seq(Nat)
    OBVIOUS
  <2>2. \A i \in 1 .. 0 : FALSE
    OBVIOUS
  <2> HIDE DEF at
  <2>3. Lays(parts, 0, <<>>, at)
    BY <2>1, <2>2 DEF Lays
  <2>. QED  BY <2>3
<1>2. CASE n = 0
  <2>1. Can!FlattenSeq(parts) = <<>>
    BY <1>2 DEF Can!FlattenSeq
  <2>. QED  BY <1>1, <1>2, <2>1
<1>3. CASE n # 0
  <2>1. PICK f : /\ \A i \in 1 .. n : f[i] = FlatBody(parts, f, i)
                 /\ Can!FlattenSeq(parts) = f[n]
    BY <1>0, <1>3, PartsAreJoined
  <2> DEFINE wrong == {k \in 1 .. n : ~\E at : Lays(parts, k, f[k], at)}
  <2>2. wrong = {}
    <3> SUFFICES ASSUME wrong # {} PROVE FALSE
      OBVIOUS
    <3>1. wrong \in SUBSET Nat
      BY <1>0
    <3>2. PICK k \in wrong : \A m \in wrong : k <= m
      <4> HIDE DEF wrong
      <4>. QED  BY <3>1, LeastNumber
    <3>3. k \in 1 .. n /\ ~\E at : Lays(parts, k, f[k], at)
      BY <3>2
    <3> DEFINE u == IF k = 1 THEN <<>> ELSE f[k - 1]
    <3>4. \E at : Lays(parts, k - 1, u, at)
      <4>1. CASE k = 1
        BY <1>1, <4>1
      <4>2. CASE k # 1
        <5>1. k - 1 \in 1 .. n /\ ~(k <= k - 1)
          BY <1>0, <3>3, <4>2
        <5>2. k - 1 \notin wrong
          <6> HIDE DEF wrong
          <6>. QED  BY <3>2, <5>1
        <5>. QED  BY <4>2, <5>1, <5>2
      <4>. QED  BY <4>1, <4>2
    <3>5. k - 1 \in Nat /\ parts[k] \in Seq(Nat) /\ (k - 1) + 1 = k
      BY <1>0, <3>3
    <3>6. f[k] = u \o parts[k]
      <4>1. f[k] = FlatBody(parts, f, k)
        BY <2>1, <3>3
      <4>2. <<>> \o parts[k] = parts[k]
        BY <3>5
      <4>3. CASE k = 1
        BY <4>1, <4>2, <4>3 DEF FlatBody
      <4>4. CASE k # 1
        BY <4>1, <4>4 DEF FlatBody
      <4>. QED  BY <4>3, <4>4
    <3> HIDE DEF u, wrong
    <3>7. \E at : Lays(parts, (k - 1) + 1, u \o parts[k], at)
      BY <3>4, <3>5, OneMorePart
    <3>. QED  BY <3>3, <3>5, <3>6, <3>7
  <2>3. n \in 1 .. n
    BY <1>0, <1>3
  <2>. QED  BY <2>1, <2>2, <2>3
<1>. QED  BY <1>0, <1>2, <1>3

\* What constructors and the decoder make.
IsCanonical(v) ==
    /\ v.kind \in {"Record", "Sequence"} => v.cells = <<>>
    /\ v.kind \notin {"Record", "Sequence"} => v.items = <<>>
    /\ v.kind = "Null" => v.cells = <<>>
    /\ v.kind \in Can!Words => Len(v.cells) = 1 /\ Can!Admits(v.kind, v.cells[1])
    /\ v.kind = "Record" => Sorted(v.items)
    /\ v.kind = "Sequence" => \A i \in 1 .. Len(v.items) : v.items[i].tag = 0

\* Cells stand in a buffer from a position on.
StandsAt(s, e, pos) ==
    pos + Len(e) - 1 <= Len(s) /\ \A j \in 1 .. Len(e) : s[pos + (j - 1)] = e[j]

\* Wherever the cells stand, the value is parsed from them, and nothing else.
ParsesTo(e, v) ==
    /\ e \in Seq(Nat) /\ Len(e) >= 2
    /\ \A s \in Seq(Nat), pos \in Nat \ {0}, end \in Nat :
          StandsAt(s, e, pos) /\ pos + Len(e) - 1 <= end
          => Can!ElementAt(s, Can!Items(s), pos, end)
                = [ok |-> TRUE, value |-> v, next |-> pos + Len(e)]

\* Kinds have different codes.
LEMMA CodeOfKind ==
    ASSUME NEW kind \in Can!ToSet(Can!Kinds)
    PROVE  /\ Can!Code(kind) \in Nat /\ Can!Code(kind) + 1 \in DOMAIN Can!Kinds
           /\ Can!Kinds[Can!Code(kind) + 1] = kind
<1> DEFINE i == CHOOSE j \in DOMAIN Can!Kinds : Can!Kinds[j] = kind
<1>1. DOMAIN Can!Kinds = 1 .. 10
  BY DEF Can!Kinds
<1>2. \E j \in DOMAIN Can!Kinds : Can!Kinds[j] = kind
  BY DEF Can!ToSet
<1>3. i \in DOMAIN Can!Kinds /\ Can!Kinds[i] = kind
  BY <1>2
<1>4. Can!Code(kind) = i - 1
  BY DEF Can!Code
<1> HIDE DEF i
<1>. QED  BY <1>1, <1>3, <1>4

\* Cells c stand in a buffer behind the header of their kind: e is both.
HeaderStands(kind, c, e, s, pos) ==
    /\ kind \in Can!ToSet(Can!Kinds) /\ c \in Seq(Nat)
    /\ e = <<Can!Code(kind), Len(c)>> \o c
    /\ s \in Seq(Nat) /\ pos \in Nat \ {0} /\ StandsAt(s, e, pos)

\* What is made of them, with the items from f.
HeaderMakes(kind, c, f, pos) ==
    Can!Payload(kind, c, f[pos + 2][kind = "Record"][pos + 1 + Len(c)])

\* The decoder reads the header that the encoder wrote.
LEMMA HeaderIsRead ==
    ASSUME NEW kind, NEW c, NEW e, NEW s, NEW pos, HeaderStands(kind, c, e, s, pos),
           NEW end \in Nat, pos + Len(e) - 1 <= end,
           NEW f, HeaderMakes(kind, c, f, pos).ok
    PROVE  Can!ElementAt(s, f, pos, end)
              = [ok |-> TRUE, value |-> HeaderMakes(kind, c, f, pos).value, next |-> pos + Len(e)]
<1> DEFINE result == HeaderMakes(kind, c, f, pos)
<1>0. /\ kind \in Can!ToSet(Can!Kinds) /\ c \in Seq(Nat)
      /\ e = <<Can!Code(kind), Len(c)>> \o c
      /\ s \in Seq(Nat) /\ pos \in Nat \ {0} /\ StandsAt(s, e, pos)
  BY DEF HeaderStands
<1>1. Can!Code(kind) \in Nat /\ Len(c) \in Nat
  BY <1>0, CodeOfKind
<1>2. /\ Len(e) = Len(c) + 2 /\ e[1] = Can!Code(kind) /\ e[2] = Len(c)
      /\ \A j \in 1 .. Len(c) : e[j + 2] = c[j]
  BY <1>0, <1>1
<1>3. /\ pos + 1 <= Len(s) /\ pos + 1 <= end
      /\ s[pos] = Can!Code(kind) /\ s[pos + 1] = Len(c)
  <2>1. 1 \in 1 .. Len(e) /\ 2 \in 1 .. Len(e)
    BY <1>0, <1>1, <1>2
  <2>2. s[pos + (1 - 1)] = e[1] /\ s[pos + (2 - 1)] = e[2]
    BY <1>0, <2>1 DEF StandsAt
  <2>3. pos + (1 - 1) = pos /\ pos + (2 - 1) = pos + 1
    BY <1>0
  <2>. QED  BY <1>0, <1>1, <1>2, <2>2, <2>3 DEF StandsAt
<1> DEFINE last == pos + 1 + Len(c)
<1>4. last = pos + Len(e) - 1 /\ last <= Len(s) /\ last <= end /\ last + 1 = pos + Len(e)
  <2>1. pos + Len(e) - 1 <= Len(s)
    BY <1>0 DEF StandsAt
  <2>2. Len(s) \in Nat /\ pos \in Nat
    BY <1>0
  <2>3. Len(e) = Len(c) + 2
    BY <1>2
  <2>. QED  BY <1>1, <2>1, <2>2, <2>3
<1>5. SubSeq(s, pos + 2, last) = c
  <2>1. ASSUME NEW j \in 1 .. Len(c) PROVE s[pos + 2 + j - 1] = c[j]
    <3>1. j + 2 \in 1 .. Len(e) /\ pos + ((j + 2) - 1) = pos + 2 + j - 1
      BY <1>0, <1>1, <1>2
    <3>2. s[pos + ((j + 2) - 1)] = e[j + 2]
      BY <1>0, <3>1 DEF StandsAt
    <3>. QED  BY <1>2, <3>1, <3>2
  <2> DEFINE body == SubSeq(s, pos + 2, last)
  <2>2. body = [j \in 1 .. Len(c) |-> s[pos + 2 + j - 1]]
    <3>1. last - (pos + 2) + 1 = Len(c) /\ pos + 2 \in Nat /\ last \in Nat
      BY <1>0, <1>1
    <3> HIDE DEF last
    <3>. QED  BY <1>0, <3>1
  <2>3. c = [j \in 1 .. Len(c) |-> c[j]]
    BY <1>0
  <2> HIDE DEF last, body
  <2>4. body = [j \in 1 .. Len(c) |-> c[j]]
    BY <2>1, <2>2
  <2>. QED  BY <2>3, <2>4 DEF body
<1>6. Can!Kinds[s[pos] + 1] = kind /\ s[pos] + 1 \in DOMAIN Can!Kinds
  BY <1>0, <1>3, CodeOfKind
<1>7. ~(pos + 1 > Len(s)) /\ ~(last > Len(s)) /\ ~(last > end)
  <2>1. pos \in Nat /\ Len(s) \in Nat
    BY <1>0
  <2>2. last \in Nat
    BY <1>1, <2>1
  <2> HIDE DEF last
  <2>3. pos + 1 <= Len(s) /\ last <= Len(s) /\ last <= end
    BY <1>3, <1>4
  <2>. QED  BY <2>1, <2>2, <2>3
<1>8. pos + 1 + s[pos + 1] = last
  BY <1>3
<1> HIDE DEF last
<1>9. Can!ElementAt(s, f, pos, end) = [result EXCEPT !.next = last + 1]
  <2>1. result = Can!Payload(kind, SubSeq(s, pos + 2, last), f[pos + 2][kind = "Record"][last])
    BY <1>5 DEF last, HeaderMakes
  <2>. QED  BY <1>6, <1>7, <1>8, <2>1 DEF Can!ElementAt
<1>10. result = [ok |-> result.ok, value |-> result.value, next |-> 0] /\ result.ok \in BOOLEAN
  <2>1. IsParse(result)
    BY PayloadForm DEF HeaderMakes
  <2>2. result.ok
    OBVIOUS
  <2> HIDE DEF result
  <2>. QED  BY <2>1, <2>2 DEF IsParse
<1>11. result.ok
  OBVIOUS
<1> HIDE DEF result
<1>12. [result EXCEPT !.next = last + 1] = [ok |-> result.ok, value |-> result.value, next |-> last + 1]
  BY <1>10
<1>. QED  BY <1>4, <1>9, <1>10, <1>11, <1>12 DEF result

\* The fields of a record that is made are in order: to encode them and to make
\* the record again leaves them so.
LEMMA OrderIsKept ==
    ASSUME NEW S, IsTagged(S), NEW v \in Seq(S), Sorted(v)
    PROVE  ~Can!HasDuplicate(v) /\ Can!SortByTag(v) = v
<1>1. DOMAIN v = 1 .. Len(v) /\ Len(v) \in Nat /\ \A i \in 1 .. Len(v) : v[i].tag \in Nat
  BY DEF IsTagged
<1>2. ~Rec!HasDuplicate(v)
  <2>1. \A i, j \in 1 .. Len(v) : i # j => i < j \/ j < i
    BY <1>1
  <2>. QED  BY <1>1, <2>1 DEF Rec!HasDuplicate, Sorted
<1> DEFINE r == Rec!SortByTag(v)
<1>3. r \in Seq(S) /\ Sorted(r) /\ Rec!ToSet(r) = Rec!ToSet(v)
  BY <1>2, RecordsAreSorted
<1> HIDE DEF r
<1>4. r = v
  BY <1>3, OneOrder
<1>5. Can!SortByTag(v) = r
  BY DEF r, Can!SortByTag, Rec!SortByTag, Can!ToSet, Rec!ToSet
<1>. QED  BY <1>2, <1>4, <1>5 DEF Can!HasDuplicate, Rec!HasDuplicate

\* A cell before others.
LEMMA CellBefore ==
    ASSUME NEW t \in Nat, NEW w \in Seq(Nat), NEW e, e = <<t>> \o w
    PROVE  /\ e \in Seq(Nat) /\ Len(e) = Len(w) + 1 /\ Len(w) \in Nat /\ e[1] = t
           /\ \A j \in 1 .. Len(w) : e[j + 1] = w[j]
<1>1. <<t>> \in Seq(Nat) /\ Len(<<t>>) = 1
  OBVIOUS
<1>. QED  BY <1>1

\* The cells of an item: those of its value, w, after its tag in a record.
ItemCells(tag, w, tagged) == IF tagged THEN <<tag>> \o w ELSE w

\* They are cells.
LEMMA ItemCellsTyped ==
    ASSUME NEW tag \in Nat, NEW w \in Seq(Nat), Len(w) >= 2,
           NEW tagged \in BOOLEAN, NEW e, e = ItemCells(tag, w, tagged)
    PROVE  e \in Seq(Nat) /\ Len(e) \in Nat /\ Len(e) >= 2
<1>1. CASE tagged
  <2>1. e = <<tag>> \o w
    BY <1>1 DEF ItemCells
  <2>2. e \in Seq(Nat) /\ Len(e) = Len(w) + 1 /\ Len(w) \in Nat
    BY <2>1, CellBefore
  <2>. QED  BY <2>2
<1>2. CASE ~tagged
  BY <1>2 DEF ItemCells
<1>. QED  BY <1>1, <1>2

\* The cells e of an item stand in a buffer, before position last.
ItemStands(tag, v, w, tagged, e, s, pos, last) ==
    /\ tag \in Nat /\ ParsesTo(w, v) /\ tagged \in BOOLEAN /\ e = ItemCells(tag, w, tagged)
    /\ s \in Seq(Nat) /\ pos \in Nat \ {0} /\ last \in Nat /\ last <= Len(s)
    /\ StandsAt(s, e, pos) /\ pos + Len(e) - 1 <= last

\* From them the loop takes the item.
LEMMA ItemIsTaken ==
    ASSUME NEW tag, NEW v, NEW w, NEW tagged, NEW e, NEW s, NEW pos, NEW last,
           ItemStands(tag, v, w, tagged, e, s, pos, last)
    PROVE  /\ tagged => s[pos] = tag
           /\ Can!ElementAt(s, Can!Items(s), IF tagged THEN pos + 1 ELSE pos, last)
                 = [ok |-> TRUE, value |-> v, next |-> pos + Len(e)]
<1>0. /\ tag \in Nat /\ ParsesTo(w, v) /\ tagged \in BOOLEAN /\ e = ItemCells(tag, w, tagged)
      /\ s \in Seq(Nat) /\ pos \in Nat \ {0} /\ last \in Nat /\ last <= Len(s)
      /\ StandsAt(s, e, pos) /\ pos + Len(e) - 1 <= last
  BY DEF ItemStands
<1>1. w \in Seq(Nat) /\ Len(w) \in Nat /\ Len(w) >= 2
  BY <1>0 DEF ParsesTo
<1>2. ASSUME NEW at \in Nat \ {0}, StandsAt(s, w, at), at + Len(w) - 1 <= last
      PROVE  Can!ElementAt(s, Can!Items(s), at, last)
                = [ok |-> TRUE, value |-> v, next |-> at + Len(w)]
  BY <1>0, <1>2 DEF ParsesTo
<1>3. CASE tagged
  <2>1. e = <<tag>> \o w
    BY <1>0, <1>3 DEF ItemCells
  <2>2. /\ Len(e) = Len(w) + 1 /\ e[1] = tag
        /\ \A j \in 1 .. Len(w) : e[j + 1] = w[j]
    BY <1>0, <1>1, <2>1, CellBefore
  <2>3. s[pos] = tag
    <3>1. s[pos + (1 - 1)] = e[1]
      <4>1. 1 \in 1 .. Len(e)
        BY <1>1, <2>2
      <4>2. StandsAt(s, e, pos)
        BY <1>0
      <4>. QED  BY <4>1, <4>2 DEF StandsAt
    <3>2. pos + (1 - 1) = pos
      BY <1>0
    <3>. QED  BY <2>2, <3>1, <3>2
  <2>4. StandsAt(s, w, pos + 1)
    <3>1. ASSUME NEW j \in 1 .. Len(w) PROVE s[pos + 1 + (j - 1)] = w[j]
      <4>1. j + 1 \in 1 .. Len(e) /\ pos + ((j + 1) - 1) = pos + 1 + (j - 1)
        BY <1>0, <1>1, <2>2
      <4>2. s[pos + ((j + 1) - 1)] = e[j + 1]
        BY <1>0, <4>1 DEF StandsAt
      <4>. QED  BY <2>2, <4>1, <4>2
    <3>2. pos + 1 + Len(w) - 1 <= Len(s)
      BY <1>0, <1>1, <2>2 DEF StandsAt
    <3>. QED  BY <3>1, <3>2 DEF StandsAt
  <2>5. pos + 1 \in Nat \ {0} /\ pos + 1 + Len(w) - 1 <= last /\ pos + 1 + Len(w) = pos + Len(e)
    <3>1. /\ pos \in Nat \ {0} /\ last \in Nat /\ pos + Len(e) - 1 <= last
          /\ Len(w) \in Nat /\ Len(e) = Len(w) + 1
      BY <1>0, <1>1, <2>2
    <3>. QED  BY <3>1
  <2>6. Can!ElementAt(s, Can!Items(s), pos + 1, last)
           = [ok |-> TRUE, value |-> v, next |-> pos + 1 + Len(w)]
    BY <1>0, <1>2, <2>4, <2>5
  <2>. QED  BY <1>3, <2>3, <2>5, <2>6
<1>4. CASE ~tagged
  <2>1. e = w
    BY <1>0, <1>4 DEF ItemCells
  <2>2. Can!ElementAt(s, Can!Items(s), pos, last)
           = [ok |-> TRUE, value |-> v, next |-> pos + Len(w)]
    BY <1>0, <1>2, <2>1
  <2>. QED  BY <1>4, <2>1, <2>2
<1>. QED  BY <1>3, <1>4

\* An element before the rest of a sequence.
LEMMA ElementBefore ==
    ASSUME NEW S, NEW v \in Seq(S), NEW k \in 1 .. Len(v)
    PROVE  <<v[k]>> \o SubSeq(v, k + 1, Len(v)) = SubSeq(v, k, Len(v))
<1> DEFINE n == Len(v)
           b == SubSeq(v, k + 1, n)
           c == SubSeq(v, k, n)
           d == <<v[k]>> \o b
<1>0. n \in Nat /\ k \in Nat /\ k >= 1 /\ k <= n /\ v[k] \in S
  OBVIOUS
<1>1. /\ b \in Seq(S) /\ Len(b) = n - k
      /\ \A j \in 1 .. n - k : b[j] = v[k + j]
  <2>1. \A j \in k + 1 .. n : v[j] \in S
    OBVIOUS
  <2> HIDE DEF n
  <2>2. b = [j \in 1 .. n - (k + 1) + 1 |-> v[j + (k + 1) - 1]]
    BY <1>0
  <2>3. n - (k + 1) + 1 = n - k /\ n - k \in Nat
        /\ \A j \in 1 .. n - k : j + (k + 1) - 1 = k + j /\ k + j \in k + 1 .. n
    BY <1>0
  <2>4. b = [j \in 1 .. n - k |-> v[k + j]]
    <3> HIDE DEF b
    <3>. QED  BY <2>2, <2>3
  <2> HIDE DEF b
  <2>. QED  BY <2>1, <2>3, <2>4
<1>2. /\ c \in Seq(S) /\ Len(c) = n - k + 1
      /\ \A j \in 1 .. n - k + 1 : c[j] = v[k + j - 1]
  <2>1. \A j \in k .. n : v[j] \in S
    OBVIOUS
  <2> HIDE DEF n
  <2>2. c = [j \in 1 .. n - k + 1 |-> v[j + k - 1]]
    BY <1>0
  <2>3. n - k + 1 \in Nat /\ \A j \in 1 .. n - k + 1 : j + k - 1 = k + j - 1 /\ k + j - 1 \in k .. n
    BY <1>0
  <2>4. c = [j \in 1 .. n - k + 1 |-> v[k + j - 1]]
    <3> HIDE DEF c
    <3>. QED  BY <2>2, <2>3
  <2> HIDE DEF c
  <2>. QED  BY <2>1, <2>3, <2>4
<1> HIDE DEF n, b, c
<1>3. /\ d \in Seq(S) /\ Len(d) = n - k + 1 /\ d[1] = v[k]
      /\ \A j \in 1 .. n - k : d[j + 1] = b[j]
  <2>1. <<v[k]>> \in Seq(S) /\ Len(<<v[k]>>) = 1 /\ n - k \in Nat
    BY <1>0
  <2>. QED  BY <1>1, <2>1
<1> HIDE DEF d
<1>4. ASSUME NEW j \in 1 .. Len(d) PROVE d[j] = c[j]
  <2>1. CASE j = 1
    <3>1. 1 \in 1 .. n - k + 1 /\ k + 1 - 1 = k
      BY <1>0
    <3>2. c[1] = v[k + 1 - 1]
      BY <1>2, <3>1
    <3>. QED  BY <1>3, <2>1, <3>1, <3>2
  <2>2. CASE j # 1
    <3> DEFINE i == j - 1
    <3>1. i \in 1 .. n - k /\ j \in 1 .. n - k + 1 /\ i + 1 = j /\ k + j - 1 = k + i
      BY <1>0, <1>3, <2>2
    <3> HIDE DEF i
    <3>2. d[j] = b[i] /\ b[i] = v[k + i] /\ c[j] = v[k + j - 1]
      BY <1>1, <1>2, <1>3, <3>1
    <3>. QED  BY <3>1, <3>2
  <2>. QED  BY <2>1, <2>2
<1>5. d = c
  BY <1>2, <1>3, <1>4, SeqEqual
<1>. QED  BY <1>5 DEF b, c, d, n

\* The items of a record or a sequence, and the cells that stand for them.
Written(items, els, tagged, parts, whole, at) ==
    /\ items \in Seq([tag : Nat, value : {items[i].value : i \in 1 .. Len(items)}])
    /\ tagged \in BOOLEAN
    /\ tagged => Sorted(items)
    /\ ~tagged => \A i \in 1 .. Len(items) : items[i].tag = 0
    /\ \A i \in 1 .. Len(items) : /\ ParsesTo(els[i], items[i].value)
                                  /\ parts[i] = ItemCells(items[i].tag, els[i], tagged)
    /\ Lays(parts, Len(items), whole, at)

\* Where the cells of an item stand in the whole.
PartStands(items, els, tagged, parts, whole, at, k) ==
    /\ Len(items) \in Nat /\ whole \in Seq(Nat) /\ Len(whole) \in Nat
    /\ tagged \in BOOLEAN /\ items[k].tag \in Nat
    /\ items[k] = [tag |-> items[k].tag, value |-> items[k].value]
    /\ ParsesTo(els[k], items[k].value)
    /\ parts[k] = ItemCells(items[k].tag, els[k], tagged)
    /\ parts[k] \in Seq(Nat) /\ Len(parts[k]) \in Nat /\ Len(parts[k]) >= 2
    /\ at[k] \in Nat /\ at[k + 1] = at[k] + Len(parts[k])
    /\ \A j \in 1 .. Len(parts[k]) : /\ at[k] + j \in 1 .. Len(whole)
                                     /\ whole[at[k] + j] = parts[k][j]

LEMMA PartsStand ==
    ASSUME NEW items, NEW els, NEW tagged, NEW parts, NEW whole, NEW at,
           Written(items, els, tagged, parts, whole, at), NEW k \in 1 .. Len(items)
    PROVE  PartStands(items, els, tagged, parts, whole, at, k)
<1> DEFINE Item == [tag : Nat, value : {items[i].value : i \in 1 .. Len(items)}]
<1>1. items \in Seq(Item) /\ tagged \in BOOLEAN
  BY DEF Written
<1>2. Len(items) \in Nat /\ items[k] \in Item
  <2> HIDE DEF Item
  <2>. QED  BY <1>1
<1>3. items[k].tag \in Nat /\ items[k] = [tag |-> items[k].tag, value |-> items[k].value]
  BY <1>2
<1>4. /\ ParsesTo(els[k], items[k].value)
      /\ parts[k] = ItemCells(items[k].tag, els[k], tagged)
  BY DEF Written
<1>5. parts[k] \in Seq(Nat) /\ Len(parts[k]) \in Nat /\ Len(parts[k]) >= 2
  <2>1. els[k] \in Seq(Nat) /\ Len(els[k]) >= 2
    BY <1>4 DEF ParsesTo
  <2>. QED  BY <1>1, <1>3, <1>4, <2>1, ItemCellsTyped
<1>6. Lays(parts, Len(items), whole, at)
  BY DEF Written
<1>7. whole \in Seq(Nat) /\ at \in [1 .. Len(items) + 1 -> Nat]
  BY <1>6 DEF Lays
<1>8. k \in 1 .. Len(items) + 1
  BY <1>2
<1>9. Len(whole) \in Nat /\ at[k] \in Nat
  <2>1. at[k] \in Nat
    BY <1>7, <1>8
  <2>. QED  BY <1>7, <2>1
<1>10. /\ at[k + 1] = at[k] + Len(parts[k])
       /\ \A j \in 1 .. Len(parts[k]) : /\ at[k] + j \in 1 .. Len(whole)
                                        /\ whole[at[k] + j] = parts[k][j]
  BY <1>6 DEF Lays
<1>. QED  BY <1>1, <1>2, <1>3, <1>4, <1>5, <1>7, <1>9, <1>10 DEF PartStands

\* The items stand in a buffer, from a position on.
WrittenAt(items, els, tagged, parts, whole, at, s, pos) ==
    /\ Written(items, els, tagged, parts, whole, at)
    /\ s \in Seq(Nat) /\ pos \in Nat \ {0} /\ StandsAt(s, whole, pos)

\* What the table says of the items from the k-th on, and what the loop makes
\* of it for them.
TakenFrom(items, tagged, whole, at, s, pos, k) ==
    Can!Items(s)[pos + at[k]][tagged][pos + Len(whole) - 1]
       = [ok |-> TRUE, items |-> SubSeq(items, k, Len(items))]
LoopTakes(items, tagged, whole, at, s, pos, k) ==
    Can!ItemsAt(s, Can!Items(s), pos + at[k], tagged, pos + Len(whole) - 1)
       = [ok |-> TRUE, items |-> SubSeq(items, k, Len(items))]

\* The loop takes an item before those it takes behind it.
LEMMA OneItemMore ==
    ASSUME NEW items, NEW els, NEW tagged, NEW parts, NEW whole, NEW at, NEW s, NEW pos,
           WrittenAt(items, els, tagged, parts, whole, at, s, pos), NEW k \in 1 .. Len(items),
           TakenFrom(items, tagged, whole, at, s, pos, k + 1)
    PROVE  LoopTakes(items, tagged, whole, at, s, pos, k)
<1> DEFINE last == pos + Len(whole) - 1
<1>w. /\ Written(items, els, tagged, parts, whole, at)
      /\ s \in Seq(Nat) /\ pos \in Nat \ {0} /\ StandsAt(s, whole, pos)
  BY DEF WrittenAt
<1>0. PartStands(items, els, tagged, parts, whole, at, k)
  BY <1>w, PartsStand
<1> DEFINE e == parts[k]
           v == items[k].value
           t == items[k].tag
           n == Len(items)
<1>1. /\ n \in Nat /\ whole \in Seq(Nat) /\ Len(whole) \in Nat
      /\ tagged \in BOOLEAN /\ t \in Nat
      /\ items[k] = [tag |-> t, value |-> v]
      /\ ParsesTo(els[k], v) /\ e = ItemCells(t, els[k], tagged)
      /\ e \in Seq(Nat) /\ Len(e) \in Nat /\ Len(e) >= 2
      /\ at[k] \in Nat /\ at[k + 1] = at[k] + Len(e)
  BY <1>0 DEF PartStands
<1>2. \A j \in 1 .. Len(e) : at[k] + j \in 1 .. Len(whole) /\ whole[at[k] + j] = e[j]
  BY <1>0 DEF PartStands
<1> HIDE DEF e, v, t, n
<1> DEFINE here == pos + at[k]
<1>n. at[k] \in Nat /\ Len(e) \in Nat /\ Len(e) >= 2 /\ Len(whole) \in Nat /\ here \in Nat \ {0}
      /\ last \in Nat
  <2>1. at[k] \in Nat /\ Len(e) \in Nat /\ Len(e) >= 2 /\ Len(whole) \in Nat
    BY <1>1
  <2>2. here \in Nat \ {0}
    BY <1>w, <2>1
  <2>3. at[k] + Len(e) <= Len(whole)
    <3>1. Len(e) \in 1 .. Len(e)
      BY <2>1
    <3>2. at[k] + Len(e) \in 1 .. Len(whole)
      BY <1>2, <3>1
    <3>. QED  BY <2>1, <3>2
  <2>4. last \in Nat
    BY <1>w, <2>1, <2>3
  <2>. QED  BY <2>1, <2>2, <2>4
<1>3. here \in Nat \ {0} /\ here + Len(e) - 1 <= last /\ ~(here > last) /\ last <= Len(s)
  <2>1. Len(e) \in 1 .. Len(e)
    BY <1>1
  <2>2. at[k] + Len(e) \in 1 .. Len(whole)
    BY <1>2, <2>1
  <2>3. at[k] + Len(e) <= Len(whole)
    BY <1>1, <2>2
  <2>4. last <= Len(s)
    BY <1>w DEF StandsAt
  <2>5. here + Len(e) - 1 <= last
    <3>1. ASSUME NEW p \in Nat, NEW q \in Nat, NEW r \in Nat, NEW l \in Nat, q + r <= l
          PROVE  p + q + r - 1 <= p + l - 1
      BY <3>1
    <3>. QED  BY <1>w, <1>n, <2>3, <3>1
  <2> HIDE DEF here, last
  <2>6. here <= last
    BY <1>n, <2>5
  <2>. QED  BY <1>n, <2>4, <2>5, <2>6
<1>4. StandsAt(s, e, here)
  <2>1. ASSUME NEW j \in 1 .. Len(e) PROVE s[here + (j - 1)] = e[j]
    <3>1. at[k] + j \in 1 .. Len(whole) /\ whole[at[k] + j] = e[j]
      BY <1>2
    <3>2. s[pos + ((at[k] + j) - 1)] = whole[at[k] + j]
      BY <1>w, <3>1 DEF StandsAt
    <3>3. pos + ((at[k] + j) - 1) = here + (j - 1)
      <4>1. pos \in Nat /\ at[k] \in Nat /\ j \in Nat
        BY <1>w, <1>n
      <4>2. ASSUME NEW p \in Nat, NEW q \in Nat, NEW r \in Nat
            PROVE  p + ((q + r) - 1) = p + q + (r - 1)
        OBVIOUS
      <4>. QED  BY <4>1, <4>2
    <3>. QED  BY <3>1, <3>2, <3>3
  <2>2. here + Len(e) - 1 <= Len(s)
    <3>1. Len(s) \in Nat
      BY <1>w
    <3>2. /\ here \in Nat /\ Len(e) \in Nat /\ last \in Nat
          /\ here + Len(e) - 1 <= last /\ last <= Len(s)
      BY <1>n, <1>3
    <3> HIDE DEF here
    <3>. QED  BY <3>1, <3>2
  <2> HIDE DEF here
  <2>. QED  BY <2>1, <2>2 DEF StandsAt
<1>5. here + Len(e) = pos + at[k + 1]
  <2>1. at[k + 1] = at[k] + Len(e)
    BY <1>1
  <2>2. pos \in Nat /\ at[k] \in Nat /\ Len(e) \in Nat
    BY <1>w, <1>n
  <2>. QED  BY <2>1, <2>2
<1> HIDE DEF here
<1>6a. /\ tagged => s[here] = t
       /\ Can!ElementAt(s, Can!Items(s), IF tagged THEN here + 1 ELSE here, last)
             = [ok |-> TRUE, value |-> v, next |-> here + Len(e)]
  <2>1. here \in Nat \ {0} /\ last <= Len(s) /\ here + Len(e) - 1 <= last /\ last \in Nat
    BY <1>n, <1>3
  <2>2. ItemStands(t, v, els[k], tagged, e, s, here, last)
    BY <1>w, <1>1, <1>4, <2>1 DEF ItemStands
  <2>. QED  BY <2>2, ItemIsTaken
<1> DEFINE tag == IF tagged THEN s[here] ELSE 0
           rest == [ok |-> TRUE, items |-> SubSeq(items, k + 1, n)]
           item == [ok |-> TRUE, value |-> v, next |-> here + Len(e)]
<1>6. /\ tagged => s[here] = t
      /\ Can!ElementAt(s, Can!Items(s), IF tagged THEN here + 1 ELSE here, last) = item
  BY <1>6a
<1>7. tag = t
  <2>1. ~tagged => t = 0
    BY <1>w DEF Written, t
  <2>. QED  BY <1>1, <1>6, <2>1
<1>8. Can!ItemsAt(s, Can!Items(s), here, tagged, last)
         = Can!Joined(tagged, tag, item, Can!Items(s)[item.next][tagged][last])
  BY <1>3, <1>6 DEF Can!ItemsAt
<1>9. Can!Items(s)[item.next][tagged][last] = rest
  BY <1>5 DEF n, TakenFrom
<1>10. tagged /\ rest.items # <<>> => ~(rest.items[1].tag <= tag)
  <2> SUFFICES ASSUME tagged, rest.items # <<>> PROVE ~(rest.items[1].tag <= tag)
    OBVIOUS
  <2> DEFINE w == SubSeq(items, k + 1, n)
  <2>1. w # <<>>
    OBVIOUS
  <2>2. k + 1 \in 1 .. n
    <3>1. k <= n /\ k \in Nat
      BY <1>1 DEF n
    <3>2. CASE k = n
      <4>1. w = <<>>
        BY <1>1, <3>2
      <4>. QED  BY <2>1, <4>1
    <3>3. CASE k # n
      BY <1>1, <3>1, <3>3
    <3>. QED  BY <3>2, <3>3
  <2>3. w[1] = items[k + 1]
    BY <1>1, <2>2
  <2>4. items[k + 1].tag \in Nat
    BY <1>w, <2>2, PartsStand DEF n, PartStands
  <2>5. t < items[k + 1].tag
    <3>1. k < k + 1 /\ k \in 1 .. n
      BY <1>1 DEF n
    <3>2. Sorted(items)
      BY <1>w DEF Written
    <3>. QED  BY <2>2, <3>1, <3>2 DEF Sorted, t, n
  <2>6. ~(w[1].tag <= tag)
    BY <1>1, <1>7, <2>3, <2>4, <2>5
  <2>. QED  BY <2>6
<1>11. Can!Joined(tagged, tag, item, rest)
          = [ok |-> TRUE, items |-> <<[tag |-> tag, value |-> v]>> \o SubSeq(items, k + 1, n)]
  <2>1. rest # Can!UndefinedItems /\ item # Can!Undefined
    BY DEF Can!UndefinedItems, Can!Undefined, Can!Raises
  <2> HIDE DEF tag
  <2>. QED  BY <1>1, <1>10, <2>1 DEF Can!Joined
<1>12. <<[tag |-> tag, value |-> v]>> \o SubSeq(items, k + 1, n) = SubSeq(items, k, n)
  <2> DEFINE Item == [tag : Nat, value : {items[i].value : i \in 1 .. Len(items)}]
  <2>1. items \in Seq(Item)
    BY <1>w DEF Written
  <2> HIDE DEF Item
  <2>2. <<items[k]>> \o SubSeq(items, k + 1, n) = SubSeq(items, k, n)
    BY <2>1, ElementBefore DEF n
  <2>. QED  BY <1>1, <1>7, <2>2
<1>. QED  BY <1>8, <1>9, <1>11, <1>12 DEF here, n, LoopTakes

\* So it takes them all.
LEMMA ItemsAreTaken ==
    ASSUME NEW items, NEW els, NEW tagged, NEW parts, NEW whole, NEW at, NEW s, NEW pos,
           WrittenAt(items, els, tagged, parts, whole, at, s, pos)
    PROVE  Can!Items(s)[pos][tagged][pos + Len(whole) - 1] = [ok |-> TRUE, items |-> items]
<1>w. /\ Written(items, els, tagged, parts, whole, at)
      /\ s \in Seq(Nat) /\ pos \in Nat \ {0} /\ StandsAt(s, whole, pos)
  BY DEF WrittenAt
<1> DEFINE n == Len(items)
           last == pos + Len(whole) - 1
           f == Can!Items(s)
           Took(k) == f[pos + at[k]][tagged][last] = [ok |-> TRUE, items |-> SubSeq(items, k, n)]
           wrong == {m \in 0 .. n : ~Took(n + 1 - m)}
           Item == [tag : Nat, value : {items[i].value : i \in 1 .. Len(items)}]
<1>1. /\ items \in Seq(Item) /\ tagged \in BOOLEAN
      /\ Lays(parts, n, whole, at)
  BY <1>w DEF Written
<1>2. n \in Nat
  <2> HIDE DEF Item
  <2>. QED  BY <1>1
<1>3. whole \in Seq(Nat) /\ at[1] = 0 /\ at[n + 1] = Len(whole)
  BY <1>1 DEF Lays
<1>4. Len(whole) \in Nat /\ last \in 0 .. Len(s)
  <2>1. Len(whole) \in Nat
    BY <1>3
  <2>. QED  BY <1>w, <2>1 DEF StandsAt
<1>5. ASSUME NEW k \in 1 .. n + 1
      PROVE  f[pos + at[k]][tagged][last] = Can!ItemsAt(s, f, pos + at[k], tagged, last)
  <2>1. at[k] \in Nat /\ at[k] <= Len(whole)
    <3>1. CASE k = n + 1
      BY <1>3, <1>4, <3>1
    <3>2. CASE k # n + 1
      <4>1. k \in 1 .. Len(items)
        BY <1>2, <3>2
      <4>p. PartStands(items, els, tagged, parts, whole, at, k)
        BY <1>w, <4>1, PartsStand
      <4>2. /\ Len(parts[k]) \in Nat /\ Len(parts[k]) >= 2 /\ at[k] \in Nat
            /\ \A j \in 1 .. Len(parts[k]) : at[k] + j \in 1 .. Len(whole)
        BY <4>p DEF PartStands
      <4>3. 1 \in 1 .. Len(parts[k])
        BY <4>2
      <4>4. at[k] + 1 \in 1 .. Len(whole)
        BY <4>2, <4>3
      <4>. QED  BY <1>4, <4>2, <4>4
    <3>. QED  BY <3>1, <3>2
  <2>2. pos + at[k] \in 1 .. Len(s) + 1
    BY <1>w, <1>4, <2>1
  <2>3. f[pos + at[k]] = ItemsBody(s, f, pos + at[k])
    BY <1>w, <2>2, ItemsAreTheirBody
  <2> HIDE DEF last, f
  <2>. QED  BY <1>1, <1>4, <2>3 DEF ItemsBody
<1>6. Took(n + 1)
  <2>1. n + 1 \in 1 .. n + 1 /\ pos + at[n + 1] = last + 1 /\ pos + at[n + 1] > last
    BY <1>w, <1>2, <1>3, <1>4
  <2>2. SubSeq(items, n + 1, n) = <<>>
    BY <1>2
  <2> HIDE DEF last, f
  <2>3. Can!ItemsAt(s, f, pos + at[n + 1], tagged, last) = Can!NoItems(TRUE)
    BY <2>1 DEF Can!ItemsAt
  <2>. QED  BY <1>5, <2>1, <2>2, <2>3 DEF Can!NoItems
<1>7. ASSUME NEW k \in 1 .. n, Took(k + 1) PROVE Took(k)
  <2>1. TakenFrom(items, tagged, whole, at, s, pos, k + 1)
    BY <1>7 DEF TakenFrom
  <2>2. k \in 1 .. Len(items)
    OBVIOUS
  <2>3. LoopTakes(items, tagged, whole, at, s, pos, k)
    BY <2>1, <2>2, OneItemMore
  <2>4. k \in 1 .. n + 1
    BY <1>2
  <2>. QED  BY <1>5, <2>3, <2>4 DEF LoopTakes
<1> HIDE DEF Took
<1>8. wrong = {}
  <2> SUFFICES ASSUME wrong # {} PROVE FALSE
    OBVIOUS
  <2>1. wrong \in SUBSET Nat
    BY <1>2
  <2>2. PICK m \in wrong : \A k \in wrong : m <= k
    <3> HIDE DEF wrong
    <3>. QED  BY <2>1, LeastNumber
  <2>3. m \in 0 .. n /\ ~Took(n + 1 - m)
    BY <2>2
  <2>4. m # 0
    <3>1. m = 0 => n + 1 - m = n + 1
      BY <1>2
    <3>. QED  BY <1>6, <2>3, <3>1
  <2>5. m - 1 \in 0 .. n /\ ~(m <= m - 1)
    BY <1>2, <2>3, <2>4
  <2>6. m - 1 \notin wrong
    <3> HIDE DEF wrong
    <3>. QED  BY <2>2, <2>5
  <2>7. Took(n + 1 - (m - 1))
    BY <2>5, <2>6
  <2>8. n + 1 - m \in 1 .. n /\ n + 1 - (m - 1) = (n + 1 - m) + 1
    BY <1>2, <2>3, <2>4
  <2>. QED  BY <1>7, <2>3, <2>7, <2>8
<1>9. Took(1)
  <2>1. n \in 0 .. n /\ n + 1 - n = 1
    BY <1>2
  <2>2. n \notin wrong
    BY <1>8
  <2>. QED  BY <2>1, <2>2
<1>10. SubSeq(items, 1, n) = items
  <2> HIDE DEF Item
  <2>. QED  BY <1>1
<1>11. pos + at[1] = pos
  BY <1>w, <1>3
<1>. QED  BY <1>9, <1>10, <1>11 DEF Took

\* What stands behind two cells.
Heads(head, c, e) == e = head \o c

Follows(head, c, e) ==
    /\ e \in Seq(Nat) /\ Len(e) = Len(c) + 2 /\ Len(c) \in Nat
    /\ e[1] = head[1] /\ e[2] = head[2]
    /\ \A j \in 1 .. Len(c) : e[j + 2] = c[j]

LEMMA BehindTwo ==
    ASSUME NEW head \in Seq(Nat), NEW c \in Seq(Nat), Len(head) = 2, NEW e, Heads(head, c, e)
    PROVE  Follows(head, c, e)
<1>1. /\ e \in Seq(Nat) /\ Len(e) = Len(head) + Len(c)
      /\ \A i \in 1 .. Len(head) + Len(c) :
            e[i] = IF i <= Len(head) THEN head[i] ELSE c[i - Len(head)]
  BY ConcatProperties DEF Heads
<1>2. /\ Len(c) \in Nat /\ Len(e) = 2 + Len(c)
      /\ \A i \in 1 .. 2 + Len(c) : e[i] = IF i <= 2 THEN head[i] ELSE c[i - 2]
  BY <1>1
<1>3. e[1] = head[1] /\ e[2] = head[2]
  <2>1. 1 \in 1 .. 2 + Len(c) /\ 2 \in 1 .. 2 + Len(c) /\ 1 <= 2 /\ 2 <= 2
    BY <1>2
  <2>. QED  BY <1>2, <2>1
<1>4. ASSUME NEW j \in 1 .. Len(c) PROVE e[j + 2] = c[j]
  <2>1. j + 2 \in 1 .. 2 + Len(c) /\ ~(j + 2 <= 2) /\ j + 2 - 2 = j
    BY <1>2
  <2>2. e[j + 2] = c[j + 2 - 2]
    BY <1>2, <2>1
  <2>. QED  BY <2>1, <2>2
<1>5. Len(e) = Len(c) + 2
  BY <1>2
<1>. QED  BY <1>1, <1>2, <1>3, <1>4, <1>5 DEF Follows

\* What stands behind a header.
LEMMA BehindHeader ==
    ASSUME NEW kind, NEW c, NEW e, NEW s, NEW pos, HeaderStands(kind, c, e, s, pos)
    PROVE  StandsAt(s, c, pos + 2)
<1>0. /\ kind \in Can!ToSet(Can!Kinds) /\ c \in Seq(Nat)
      /\ e = <<Can!Code(kind), Len(c)>> \o c
      /\ s \in Seq(Nat) /\ pos \in Nat \ {0} /\ StandsAt(s, e, pos)
  BY DEF HeaderStands
<1> DEFINE head == <<Can!Code(kind), Len(c)>>
<1>1. /\ head \in Seq(Nat) /\ Len(head) = 2 /\ c \in Seq(Nat) /\ Len(c) \in Nat
      /\ Heads(head, c, e)
  BY <1>0, CodeOfKind DEF Heads
<1> HIDE DEF head
<1>2. /\ e \in Seq(Nat) /\ Len(e) = Len(c) + 2
      /\ \A j \in 1 .. Len(c) : e[j + 2] = c[j]
  <2>1. Follows(head, c, e)
    BY <1>1, BehindTwo
  <2>. QED  BY <2>1 DEF Follows
<1>3. ASSUME NEW j \in 1 .. Len(c) PROVE s[pos + 2 + (j - 1)] = c[j]
  <2>1. j + 2 \in 1 .. Len(e) /\ pos + ((j + 2) - 1) = pos + 2 + (j - 1)
    BY <1>0, <1>1, <1>2
  <2>2. s[pos + ((j + 2) - 1)] = e[j + 2]
    BY <1>0, <2>1 DEF StandsAt
  <2>. QED  BY <1>2, <2>1, <2>2
<1>4. pos + 2 + Len(c) - 1 <= Len(s)
  BY <1>0, <1>1, <1>2 DEF StandsAt
<1>. QED  BY <1>0, <1>1, <1>2, <1>3, <1>4 DEF StandsAt

\* Values, with items whose values are in V.
ValueOf(V) == [kind : Can!ToSet(Can!Kinds), cells : Seq(Nat), items : Seq([tag : Nat, value : V])]

\* A kind is one of ten.
LEMMA KindsAre ==
    Can!ToSet(Can!Kinds) = {"Null", "Uint", "Int", "Bool", "Str", "Bytes", "Uuid", "Float",
                            "Record", "Sequence"}
<1>1. DOMAIN Can!Kinds = 1 .. 10
  BY DEF Can!Kinds
<1>2. Can!ToSet(Can!Kinds) = {Can!Kinds[i] : i \in 1 .. 10}
  BY <1>1 DEF Can!ToSet
<1>3. 1 .. 10 = {1, 2, 3, 4, 5, 6, 7, 8, 9, 10}
  OBVIOUS
<1>. QED  BY <1>2, <1>3 DEF Can!Kinds

\* A scalar is parsed from its cells.
LEMMA ScalarIsParsed ==
    ASSUME NEW V, NEW v \in ValueOf(V), IsCanonical(v), v.kind \notin {"Record", "Sequence"},
           NEW inner
    PROVE  Can!Payload(v.kind, v.cells, inner) = Can!Made(v)
<1>1. /\ v.items = <<>> /\ v = [kind |-> v.kind, cells |-> v.cells, items |-> v.items]
      /\ v.kind \in Can!ToSet(Can!Kinds)
  BY DEF IsCanonical, ValueOf
<1>2. v = Can!Scalar(v.kind, v.cells)
  BY <1>1 DEF Can!Scalar
<1>3. CASE v.kind = "Null"
  <2>1. v.cells = <<>> /\ v = Can!Null
    BY <1>2, <1>3 DEF IsCanonical, Can!Null
  <2>2. Can!Payload("Null", <<>>, inner) = Can!Made(Can!Null)
    BY DEF Can!Payload, Can!Words, Can!Texts
  <2>. QED  BY <1>3, <2>1, <2>2
<1>4. CASE v.kind \in Can!Words
  <2>1. v.kind # "Null"
    BY <1>4 DEF Can!Words
  <2>2. Len(v.cells) = 1 /\ Can!Admits(v.kind, v.cells[1])
    BY <1>4 DEF IsCanonical
  <2>. QED  BY <1>2, <1>4, <2>1, <2>2 DEF Can!Payload
<1>5. CASE v.kind \in Can!Texts
  <2>1. v.kind # "Null" /\ v.kind \notin Can!Words
    BY <1>5 DEF Can!Words, Can!Texts
  <2>2. Can!Payload(v.kind, v.cells, inner) = Can!Made(Can!Scalar(v.kind, v.cells))
    BY <1>5, <2>1 DEF Can!Payload
  <2>. QED  BY <1>2, <2>2
<1>6. v.kind = "Null" \/ v.kind \in Can!Words \/ v.kind \in Can!Texts
  BY <1>1, KindsAre DEF Can!Words, Can!Texts
<1>. QED  BY <1>3, <1>4, <1>5, <1>6

\* A record or a sequence is made again of its items.
LEMMA ItemsMakeTheValue ==
    ASSUME NEW V, NEW v \in ValueOf(V), IsCanonical(v), v.kind \in {"Record", "Sequence"},
           NEW body
    PROVE  LET result == Can!Payload(v.kind, body, [ok |-> TRUE, items |-> v.items])
           IN  result.ok /\ result.value = v
<1> DEFINE inner == [ok |-> TRUE, items |-> v.items]
           Item == [tag : Nat, value : V]
<1>1. /\ v.cells = <<>> /\ v.items \in Seq(Item)
      /\ v = [kind |-> v.kind, cells |-> v.cells, items |-> v.items]
      /\ v.kind # "Null" /\ v.kind \notin Can!Words /\ v.kind \notin Can!Texts
  BY DEF IsCanonical, ValueOf, Can!Words, Can!Texts
<1>4. inner.ok /\ inner # Can!UndefinedItems
  BY DEF Can!UndefinedItems
<1>2. CASE v.kind = "Sequence"
  <2>1. Can!Payload(v.kind, body, inner) = Can!Made(Can!MkSeq(v.items))
    BY <1>1, <1>2, <1>4 DEF Can!Payload
  <2>2. \A i \in 1 .. Len(v.items) : v.items[i].tag = 0
    BY <1>2 DEF IsCanonical
  <2>3. \A i \in 1 .. Len(v.items) : [tag |-> 0, value |-> v.items[i].value] = v.items[i]
    <3>1. \A i \in 1 .. Len(v.items) : v.items[i] \in Item
      <4> HIDE DEF Item
      <4>. QED  BY <1>1
    <3>2. \A item \in Item : item.tag = 0 => [tag |-> 0, value |-> item.value] = item
      OBVIOUS
    <3> HIDE DEF Item
    <3>. QED  BY <2>2, <3>1, <3>2
  <2>4. DOMAIN v.items = 1 .. Len(v.items) /\ v.items = [i \in DOMAIN v.items |-> v.items[i]]
    BY <1>1
  <2>5. [i \in DOMAIN v.items |-> [tag |-> 0, value |-> v.items[i].value]] = v.items
    BY <2>3, <2>4
  <2>6. Can!MkSeq(v.items) = v
    BY <1>1, <1>2, <2>5 DEF Can!MkSeq
  <2>. QED  BY <2>1, <2>6 DEF Can!Made
<1>3. CASE v.kind = "Record"
  <2>1. Can!Payload(v.kind, body, inner) = Can!MkRecord(v.items)
    BY <1>1, <1>3, <1>4 DEF Can!Payload
  <2>2. ~Can!HasDuplicate(v.items) /\ Can!SortByTag(v.items) = v.items
    <3>1. IsTagged(Item) /\ Sorted(v.items)
      BY <1>3 DEF IsTagged, IsCanonical
    <3> HIDE DEF Item
    <3>. QED  BY <1>1, <3>1, OrderIsKept
  <2>3. Can!MkRecord(v.items)
           = [ok |-> TRUE, next |-> 0, value |-> [kind |-> "Record", cells |-> <<>>, items |-> v.items]]
    BY <2>2 DEF Can!MkRecord
  <2>4. [kind |-> "Record", cells |-> <<>>, items |-> v.items] = v
    BY <1>1, <1>3
  <2>. QED  BY <2>1, <2>3, <2>4
<1>. QED  BY <1>2, <1>3

\* Values whose items are parsed from their cells are parsed from their own.
LEMMA ScalarParsesBack ==
    ASSUME NEW V, NEW v \in ValueOf(V), IsCanonical(v), v.kind \notin {"Record", "Sequence"}, NEW g
    PROVE  ParsesTo(Can!ElementCells(v, g), v)
<1> DEFINE c == v.cells
           e == <<Can!Code(v.kind), Len(c)>> \o c
<1>1. v.kind \in Can!ToSet(Can!Kinds) /\ c \in Seq(Nat)
  BY DEF ValueOf
<1>2. Can!ElementCells(v, g) = e
  BY DEF Can!ElementCells
<1>3. Can!Code(v.kind) \in Nat /\ Len(c) \in Nat
  BY <1>1, CodeOfKind
<1> HIDE DEF c
<1>4. e \in Seq(Nat) /\ Len(e) >= 2
  BY <1>1, <1>3
<1> HIDE DEF e
<1>5. ASSUME NEW s \in Seq(Nat), NEW pos \in Nat \ {0}, NEW end \in Nat,
             StandsAt(s, e, pos), pos + Len(e) - 1 <= end
      PROVE  Can!ElementAt(s, Can!Items(s), pos, end)
                = [ok |-> TRUE, value |-> v, next |-> pos + Len(e)]
  <2> DEFINE f == Can!Items(s)
             inner == f[pos + 2][v.kind = "Record"][pos + 1 + Len(c)]
             result == HeaderMakes(v.kind, c, f, pos)
  <2>1. result = Can!Made(v)
    BY ScalarIsParsed DEF c, HeaderMakes
  <2>2. result.ok /\ result.value = v
    BY <2>1 DEF Can!Made
  <2>3. Can!ElementAt(s, f, pos, end) = [ok |-> TRUE, value |-> result.value, next |-> pos + Len(e)]
    <3>1. e = <<Can!Code(v.kind), Len(c)>> \o c
      BY DEF e
    <3>2. HeaderStands(v.kind, c, e, s, pos)
      BY <1>1, <1>5, <3>1 DEF HeaderStands
    <3> HIDE DEF f
    <3>. QED  BY <1>5, <2>2, <3>2, HeaderIsRead
  <2>. QED  BY <2>2, <2>3
<1>6. ParsesTo(e, v)
  BY <1>4, <1>5 DEF ParsesTo
<1>. QED  BY <1>2, <1>6

\* Their cells, one item behind the other.
LEMMA ItemsAreWritten ==
    ASSUME NEW V, NEW v \in ValueOf(V), IsCanonical(v), v.kind \in {"Record", "Sequence"}, NEW g,
           \A i \in 1 .. Len(v.items) : ParsesTo(g[v.items[i].value], v.items[i].value)
    PROVE  \E els, parts, whole, at :
              /\ Written(v.items, els, v.kind = "Record", parts, whole, at)
              /\ Can!ElementCells(v, g) = <<Can!Code(v.kind), Len(whole)>> \o whole
<1> DEFINE Item == [tag : Nat, value : V]
           items == v.items
           n == Len(items)
           tagged == v.kind = "Record"
           tagOf(item) == IF v.kind = "Record" THEN <<item.tag>> ELSE <<>>
           els == [i \in 1 .. n |-> g[items[i].value]]
           parts == [i \in DOMAIN items |-> tagOf(items[i]) \o g[items[i].value]]
           whole == Can!FlattenSeq(parts)
<1>1. items \in Seq(Item)
  BY DEF ValueOf
<1>2. n \in Nat /\ DOMAIN items = 1 .. n /\ \A i \in 1 .. n : items[i] \in Item
  <2> HIDE DEF Item, items
  <2>. QED  BY <1>1
<1>3. Can!ElementCells(v, g) = <<Can!Code(v.kind), Len(whole)>> \o whole
  <2>1. v.kind = "Record" => Can!SortByTag(items) = items
    <3> SUFFICES ASSUME v.kind = "Record" PROVE Can!SortByTag(items) = items
      OBVIOUS
    <3>1. IsTagged(Item) /\ Sorted(items)
      BY DEF IsTagged, IsCanonical
    <3> HIDE DEF Item, items
    <3>. QED  BY <1>1, <3>1, OrderIsKept
  <2>2. (IF v.kind = "Record" THEN Can!SortByTag(v.items) ELSE v.items) = items
    BY <2>1
  <2>. QED  BY <2>2 DEF Can!ElementCells
<1>4. ASSUME NEW i \in 1 .. n
      PROVE  /\ ParsesTo(els[i], items[i].value)
             /\ parts[i] = ItemCells(items[i].tag, els[i], tagged)
             /\ parts[i] \in Seq(Nat)
  <2>1. els[i] = g[items[i].value] /\ parts[i] = tagOf(items[i]) \o els[i]
    BY <1>2
  <2>2. ParsesTo(els[i], items[i].value)
    BY <2>1
  <2>3. items[i].tag \in Nat
    BY <1>2
  <2>4. els[i] \in Seq(Nat) /\ Len(els[i]) >= 2
    BY <2>2 DEF ParsesTo
  <2> HIDE DEF els, parts, items
  <2>5. parts[i] = ItemCells(items[i].tag, els[i], tagged)
    <3>1. CASE tagged
      BY <2>1, <3>1 DEF ItemCells
    <3>2. CASE ~tagged
      <4>1. <<>> \o els[i] = els[i]
        BY <2>4
      <4>. QED  BY <2>1, <3>2, <4>1 DEF ItemCells
    <3>. QED  BY <3>1, <3>2
  <2>6. tagged \in BOOLEAN
    OBVIOUS
  <2> HIDE DEF tagged
  <2>7. parts[i] \in Seq(Nat)
    BY <2>3, <2>4, <2>5, <2>6, ItemCellsTyped
  <2>. QED  BY <2>2, <2>5, <2>7
<1>5. parts \in Seq(Seq(Nat)) /\ Len(parts) = n
  <2>1. parts = [i \in 1 .. n |-> parts[i]]
    BY <1>2
  <2> HIDE DEF parts, n
  <2>2. parts \in [1 .. n -> Seq(Nat)]
    BY <1>4, <2>1
  <2>. QED  BY <1>2, <2>2
<1>6. PICK at : Lays(parts, n, whole, at)
  <2> HIDE DEF parts, n
  <2>. QED  BY <1>5, PartsInFlat
<1>7. items \in Seq([tag : Nat, value : {items[i].value : i \in 1 .. n}])
  <2> DEFINE W == {items[i].value : i \in 1 .. n}
  <2>1. ASSUME NEW i \in 1 .. n PROVE items[i] \in [tag : Nat, value : W]
    <3>1. items[i] \in Item /\ items[i].value \in W
      BY <1>2
    <3> HIDE DEF W, items
    <3>. QED  BY <3>1
  <2> HIDE DEF W, Item, items
  <2>2. items = [i \in 1 .. n |-> items[i]] /\ n \in Nat
    BY <1>1, <1>2
  <2> HIDE DEF n
  <2>3. items \in [1 .. n -> [tag : Nat, value : W]]
    BY <2>1, <2>2
  <2>4. items \in Seq([tag : Nat, value : W])
    BY <2>2, <2>3
  <2>. QED  BY <2>4 DEF W
<1>8. Written(items, els, tagged, parts, whole, at)
  <2>1. /\ tagged \in BOOLEAN
        /\ tagged => Sorted(items)
        /\ ~tagged => \A i \in 1 .. n : items[i].tag = 0
    BY DEF IsCanonical
  <2> HIDE DEF els, parts, whole, tagged, items
  <2>. QED  BY <1>4, <1>6, <1>7, <2>1 DEF Written
<1>. QED  BY <1>3, <1>8

LEMMA ItemsParseBack ==
    ASSUME NEW V, NEW v \in ValueOf(V), IsCanonical(v), v.kind \in {"Record", "Sequence"}, NEW g,
           \A i \in 1 .. Len(v.items) : ParsesTo(g[v.items[i].value], v.items[i].value)
    PROVE  ParsesTo(Can!ElementCells(v, g), v)
<1> DEFINE tagged == v.kind = "Record"
<1>1. PICK els, parts, whole, at :
         /\ Written(v.items, els, tagged, parts, whole, at)
         /\ Can!ElementCells(v, g) = <<Can!Code(v.kind), Len(whole)>> \o whole
  BY ItemsAreWritten
<1> DEFINE e == <<Can!Code(v.kind), Len(whole)>> \o whole
<1>2. v.kind \in Can!ToSet(Can!Kinds)
  BY DEF ValueOf
<1>3. whole \in Seq(Nat)
  <2>1. Lays(parts, Len(v.items), whole, at)
    BY <1>1 DEF Written
  <2>. QED  BY <2>1 DEF Lays
<1>4. Can!Code(v.kind) \in Nat /\ Len(whole) \in Nat
  BY <1>2, <1>3, CodeOfKind
<1>5. e \in Seq(Nat) /\ Len(e) >= 2
  BY <1>3, <1>4
<1> HIDE DEF e
<1>6. ASSUME NEW s \in Seq(Nat), NEW pos \in Nat \ {0}, NEW end \in Nat,
             StandsAt(s, e, pos), pos + Len(e) - 1 <= end
      PROVE  Can!ElementAt(s, Can!Items(s), pos, end)
                = [ok |-> TRUE, value |-> v, next |-> pos + Len(e)]
  <2> DEFINE f == Can!Items(s)
             inner == f[pos + 2][v.kind = "Record"][pos + 1 + Len(whole)]
             result == HeaderMakes(v.kind, whole, f, pos)
  <2>1. e = <<Can!Code(v.kind), Len(whole)>> \o whole
    BY DEF e
  <2>0. HeaderStands(v.kind, whole, e, s, pos)
    BY <1>2, <1>3, <1>6, <2>1 DEF HeaderStands
  <2>2. StandsAt(s, whole, pos + 2)
    BY <2>0, BehindHeader
  <2>3. WrittenAt(v.items, els, tagged, parts, whole, at, s, pos + 2)
    BY <1>1, <2>2 DEF WrittenAt
  <2>4. f[pos + 2][tagged][pos + 2 + Len(whole) - 1] = [ok |-> TRUE, items |-> v.items]
    <3> HIDE DEF tagged
    <3>. QED  BY <2>3, ItemsAreTaken
  <2>5. pos + 2 + Len(whole) - 1 = pos + 1 + Len(whole)
    BY <1>4
  <2>6. inner = [ok |-> TRUE, items |-> v.items]
    <3> HIDE DEF f
    <3>. QED  BY <2>4, <2>5
  <2>7. result.ok /\ result.value = v
    <3>1. result = Can!Payload(v.kind, whole, inner)
      BY DEF HeaderMakes
    <3> HIDE DEF inner, result
    <3>. QED  BY <2>6, <3>1, ItemsMakeTheValue
  <2>8. Can!ElementAt(s, f, pos, end) = [ok |-> TRUE, value |-> result.value, next |-> pos + Len(e)]
    <3> HIDE DEF f
    <3>. QED  BY <1>6, <2>0, <2>7, HeaderIsRead
  <2>. QED  BY <2>7, <2>8
<1>7. ParsesTo(e, v)
  BY <1>5, <1>6 DEF ParsesTo
<1>. QED  BY <1>1, <1>7 DEF e

\* A set of values that are made by the constructors from each other.
AreMade(S) ==
    \A v \in S : IsCanonical(v) /\ \A i \in 1 .. Len(v.items) : v.items[i].value \in S

AllNested == UNION {Can!Nested[d] : d \in 0 .. MaxDepth}

\* The values that constructors can make.
Sound == UNION {S \in SUBSET AllNested : AreMade(S)}

LEMMA SoundIsMade == AreMade(Sound)
<1> SUFFICES ASSUME NEW v \in Sound
             PROVE  IsCanonical(v) /\ \A i \in 1 .. Len(v.items) : v.items[i].value \in Sound
  BY DEF AreMade
<1>1. PICK S \in SUBSET AllNested : AreMade(S) /\ v \in S
  BY DEF Sound
<1>2. S \subseteq Sound
  BY <1>1 DEF Sound
<1>. QED  BY <1>1, <1>2 DEF AreMade

LEMMA SoundGrows ==
    ASSUME NEW v \in AllNested, IsCanonical(v),
           \A i \in 1 .. Len(v.items) : v.items[i].value \in Sound
    PROVE  v \in Sound
<1> DEFINE S == Sound \cup {v}
<1>1. S \in SUBSET AllNested
  BY DEF Sound
<1>2. AreMade(S)
  BY SoundIsMade DEF AreMade
<1> HIDE DEF S
<1>3. S \subseteq Sound
  BY <1>1, <1>2 DEF Sound
<1>. QED  BY <1>3 DEF S

\* Every value that constructors make is parsed from its cells, wherever they
\* stand: else there were one with the least depth that is not.
LEMMA ElementsParseBack ==
    ASSUME MaxDepth \in Nat
    PROVE  \A d \in 0 .. MaxDepth :
              \A v \in Sound \cap Can!Nested[d] : ParsesTo(Can!Element[d][v], v)
<1> DEFINE Parsed(d) == \A v \in Sound \cap Can!Nested[d] : ParsesTo(Can!Element[d][v], v)
           wrong == {d \in 0 .. MaxDepth : ~Parsed(d)}
<1> SUFFICES ASSUME wrong # {} PROVE FALSE
  OBVIOUS
<1>1. wrong \in SUBSET Nat
  OBVIOUS
<1>2. PICK d \in wrong : \A n \in wrong : d <= n
  <2> HIDE DEF wrong
  <2>. QED  BY <1>1, LeastNumber
<1>3. d \in 0 .. MaxDepth
  BY <1>2
<1>4. d # 0 => Parsed(d - 1)
  <2> SUFFICES ASSUME d # 0 PROVE Parsed(d - 1)
    OBVIOUS
  <2>1. d - 1 \in 0 .. MaxDepth /\ ~(d <= d - 1)
    BY <1>3
  <2>2. d - 1 \notin wrong
    <3> HIDE DEF wrong
    <3>. QED  BY <1>2, <2>1
  <2> HIDE DEF Parsed
  <2>. QED  BY <2>1, <2>2
<1>5. ASSUME NEW v \in Sound \cap Can!Nested[d] PROVE ParsesTo(Can!Element[d][v], v)
  <2> DEFINE inner == IF d = 0 THEN {} ELSE Can!Nested[d - 1]
             g == IF d = 0 THEN <<>> ELSE Can!Element[d - 1]
  <2>1. v \in ValueOf(inner)
    <3>1. Can!Nested[d] = NestedBody(Can!Nested, d)
      BY <1>3, NestedIsItsBody
    <3>. QED  BY <3>1 DEF NestedBody, ValueOf
  <2>2. Can!Element[d][v] = Can!ElementCells(v, g)
    <3>1. Can!Element[d] = ElementBody(Can!Element, d)
      BY <1>3, ElementIsItsBody
    <3>. QED  BY <3>1 DEF ElementBody
  <2>3. IsCanonical(v) /\ \A i \in 1 .. Len(v.items) : v.items[i].value \in Sound
    BY SoundIsMade DEF AreMade
  <2>4. ASSUME NEW i \in 1 .. Len(v.items)
        PROVE  ParsesTo(g[v.items[i].value], v.items[i].value)
    <3> DEFINE Item == [tag : Nat, value : inner]
               w == v.items[i].value
    <3>1. w \in inner
      <4>1. v.items \in Seq(Item)
        BY <2>1 DEF ValueOf
      <4>2. v.items[i] \in Item
        <5> HIDE DEF Item
        <5>. QED  BY <4>1
      <4> HIDE DEF inner
      <4>. QED  BY <4>2
    <3>2. d # 0 /\ w \in Can!Nested[d - 1]
      BY <3>1
    <3>3. w \in Sound
      BY <2>3
    <3> HIDE DEF w
    <3>4. ParsesTo(Can!Element[d - 1][w], w)
      BY <1>4, <3>2, <3>3
    <3>. QED  BY <3>2, <3>4 DEF w
  <2>5. ParsesTo(Can!ElementCells(v, g), v)
    <3> HIDE DEF inner, g
    <3>1. CASE v.kind \in {"Record", "Sequence"}
      BY <2>1, <2>3, <2>4, <3>1, ItemsParseBack
    <3>2. CASE v.kind \notin {"Record", "Sequence"}
      BY <2>1, <2>3, <3>2, ScalarParsesBack
    <3>. QED  BY <3>1, <3>2
  <2>. QED  BY <2>2, <2>5
<1>6. Parsed(d)
  BY <1>5
<1>. QED  BY <1>2, <1>6

\* The decoder gives back what was encoded, and refuses what is shorter or
\* longer.
LEMMA CellsAreDecoded ==
    ASSUME NEW v, NEW e, ParsesTo(e, v), NEW s, Heads(<<Can!Magic, Can!Version>>, e, s)
    PROVE  /\ Can!Decode(s).ok /\ Can!Decode(s).value = v
           /\ s \in Seq(Nat)
           /\ \A n \in 0 .. Len(s) - 1 : Can!Decode(SubSeq(s, 1, n)) = Can!Raises
           /\ \A c \in Nat : Can!Decode(Append(s, c)) = Can!Raises
<1>1. e \in Seq(Nat) /\ Len(e) \in Nat /\ Len(e) >= 2
  BY DEF ParsesTo
<1>2. /\ s \in Seq(Nat) /\ Len(s) = Len(e) + 2 /\ s[1] = Can!Magic /\ s[2] = Can!Version
      /\ \A j \in 1 .. Len(e) : s[j + 2] = e[j]
  <2> DEFINE head == <<Can!Magic, Can!Version>>
  <2>1. head \in Seq(Nat) /\ Len(head) = 2 /\ head[1] = Can!Magic /\ head[2] = Can!Version
    BY DEF Can!Magic, Can!Version
  <2> HIDE DEF head
  <2>2. Heads(head, e, s)
    BY DEF head
  <2>3. /\ s \in Seq(Nat) /\ Len(s) = Len(e) + 2 /\ s[1] = head[1] /\ s[2] = head[2]
        /\ \A j \in 1 .. Len(e) : s[j + 2] = e[j]
    <3>1. Follows(head, e, s)
      BY <1>1, <2>1, <2>2, BehindTwo
    <3>. QED  BY <3>1 DEF Follows
  <2>. QED  BY <2>1, <2>3
<1>3. Can!Raises.next = 0 /\ Can!Raises # Can!Undefined
  BY DEF Can!Raises, Can!Undefined
<1>4. ASSUME NEW b \in Seq(Nat), NEW end \in Nat, Len(s) <= end, end <= Len(b),
             \A j \in 1 .. Len(s) : b[j] = s[j]
      PROVE  Can!ElementAt(b, Can!Items(b), 3, end)
                = [ok |-> TRUE, value |-> v, next |-> Len(s) + 1]
  <2>1. ASSUME NEW j \in 1 .. Len(e) PROVE b[3 + (j - 1)] = e[j]
    <3>1. j + 2 \in 1 .. Len(s) /\ 3 + (j - 1) = j + 2
      BY <1>1, <1>2
    <3>. QED  BY <1>2, <1>4, <3>1
  <2>2. 3 + Len(e) - 1 <= Len(b) /\ 3 + Len(e) - 1 <= end /\ 3 + Len(e) = Len(s) + 1
    <3>1. Len(b) \in Nat
      OBVIOUS
    <3>. QED  BY <1>1, <1>2, <1>4, <3>1
  <2>3. StandsAt(b, e, 3)
    BY <2>1, <2>2 DEF StandsAt
  <2>4. 3 \in Nat \ {0}
    OBVIOUS
  <2>5. Can!ElementAt(b, Can!Items(b), 3, end) = [ok |-> TRUE, value |-> v, next |-> 3 + Len(e)]
    BY <2>2, <2>3, <2>4 DEF ParsesTo
  <2>. QED  BY <2>2, <2>5
<1>5. Can!ElementAt(s, Can!Items(s), 3, Len(s)) = [ok |-> TRUE, value |-> v, next |-> Len(s) + 1]
  <2>1. Len(s) \in Nat /\ Len(s) <= Len(s)
    BY <1>1, <1>2
  <2>. QED  BY <1>2, <1>4, <2>1
<1>6. Len(s) >= 4 /\ Len(s) \in Nat
  BY <1>1, <1>2
<1>7. Can!Decode(s).ok /\ Can!Decode(s).value = v
  BY <1>2, <1>5, <1>6 DEF Can!Decode
<1>8. Len(s) + 1 = 3 + 1 + s[4] + 1 /\ s[4] \in Nat
  <2>1. s[4] \in Nat
    BY <1>2, <1>6
  <2>2. Can!ElementAt(s, Can!Items(s), 3, Len(s)).ok
    BY <1>5
  <2> DEFINE root == Can!ElementAt(s, Can!Items(s), 3, Len(s))
  <2>3. root.next = 3 + 1 + s[3 + 1] + 1
    <3>1. EndsAsHeaded(s, Can!Items(s), 3, Len(s))
      BY LengthInHeader
    <3>. QED  BY <2>2, <3>1 DEF EndsAsHeaded
  <2>4. Len(s) + 1 = 3 + 1 + s[3 + 1] + 1
    <3>1. root.next = Len(s) + 1
      BY <1>5
    <3>. QED  BY <2>3, <3>1
  <2>5. 3 + 1 = 4
    OBVIOUS
  <2>. QED  BY <2>1, <2>4, <2>5
<1>9. ASSUME NEW n \in 0 .. Len(s) - 1 PROVE Can!Decode(SubSeq(s, 1, n)) = Can!Raises
  <2> DEFINE b == SubSeq(s, 1, n)
  <2>1. n \in Nat /\ n < Len(s)
    BY <1>6
  <2>2. b = [j \in 1 .. n |-> s[j]] /\ Len(b) = n
    <3>1. b = [j \in 1 .. n - 1 + 1 |-> s[j + 1 - 1]]
      BY <1>6
    <3>2. n - 1 + 1 = n /\ \A j \in 1 .. n : j + 1 - 1 = j
      BY <2>1
    <3>3. b = [j \in 1 .. n |-> s[j]]
      <4> HIDE DEF b
      <4>. QED  BY <3>1, <3>2
    <3>4. Len(b) = n
      <4> HIDE DEF b
      <4>. QED  BY <2>1, <3>3
    <3>. QED  BY <3>3, <3>4
  <2> HIDE DEF b
  <2>3. CASE n < 4
    <3>1. Can!Decode(b) = Can!Raises
      BY <2>2, <2>3 DEF Can!Decode
    <3>. QED  BY <3>1 DEF b
  <2>4. CASE ~(n < 4)
    <3>1. b[4] = s[4]
      BY <2>1, <2>2, <2>4
    <3>2. 3 + 1 + b[3 + 1] > Len(b)
      <4>1. 3 + 1 = 4
        OBVIOUS
      <4>2. 3 + 1 + s[4] > n
        BY <1>6, <1>8, <2>1
      <4>. QED  BY <2>2, <3>1, <4>1, <4>2
    <3>3. Can!ElementAt(b, Can!Items(b), 3, Len(b)) = Can!Raises
      <4>1. 3 + 1 <= Len(b)
        BY <2>1, <2>2, <2>4
      <4>. QED  BY <3>2, <4>1 DEF Can!ElementAt
    <3>4. Can!Raises.next # Len(b) + 1
      BY <1>3, <2>1, <2>2
    <3>5. Can!Decode(b) = Can!Raises
      BY <1>3, <3>3, <3>4 DEF Can!Decode
    <3>. QED  BY <3>5 DEF b
  <2>. QED  BY <2>3, <2>4
<1>10. ASSUME NEW c \in Nat PROVE Can!Decode(Append(s, c)) = Can!Raises
  <2> DEFINE b == Append(s, c)
  <2>1. b \in Seq(Nat) /\ Len(b) = Len(s) + 1 /\ \A j \in 1 .. Len(s) : b[j] = s[j]
    BY <1>2
  <2> HIDE DEF b
  <2>2. Len(b) \in Nat /\ Len(s) <= Len(b) /\ Len(b) <= Len(b)
    BY <1>6, <2>1
  <2>3. Can!ElementAt(b, Can!Items(b), 3, Len(b)) = [ok |-> TRUE, value |-> v, next |-> Len(s) + 1]
    BY <1>4, <2>1, <2>2
  <2>4. Len(s) + 1 # Len(b) + 1
    BY <1>6, <2>1
  <2>5. [ok |-> TRUE, value |-> v, next |-> Len(s) + 1] # Can!Undefined
    BY DEF Can!Undefined, Can!Raises
  <2>6. Can!Decode(b) = Can!Raises
    BY <2>3, <2>4, <2>5 DEF Can!Decode
  <2>. QED  BY <2>6 DEF b
<1>. QED  BY <1>2, <1>7, <1>9, <1>10

\* A caller builds values of values it has made.
CanonInv ==
    /\ value \in Sound \cap Can!Nested[MaxDepth]
    /\ building \in Seq([tag : CanonTag, value : Sound \cap Can!Nested[MaxDepth - 1]])

\* A scalar, which has no items, is as deep as one likes.
LEMMA ScalarsAreSound ==
    ASSUME MaxDepth \in Nat, NEW d \in 0 .. MaxDepth,
           NEW kind \in Can!ToSet(Can!Kinds), NEW cells \in Seq(Nat),
           NEW v, v = Can!Scalar(kind, cells), IsCanonical(v)
    PROVE  v \in Sound \cap Can!Nested[d]
<1> DEFINE V == IF d = 0 THEN {} ELSE Can!Nested[d - 1]
<1>0. v = [kind |-> kind, cells |-> cells, items |-> <<>>]
  BY DEF Can!Scalar
<1>1. v \in Can!Nested[d]
  <2>1. <<>> \in Seq([tag : Nat, value : V])
    OBVIOUS
  <2>2. v \in ValueOf(V)
    <3> HIDE DEF V
    <3>. QED  BY <1>0, <2>1 DEF ValueOf
  <2>3. Can!Nested[d] = NestedBody(Can!Nested, d)
    BY NestedIsItsBody
  <2>. QED  BY <2>2, <2>3 DEF ValueOf, NestedBody
<1>2. v \in AllNested
  BY <1>1 DEF AllNested
<1>3. \A i \in 1 .. Len(v.items) : FALSE
  BY <1>0
<1>. QED  BY <1>1, <1>2, <1>3, SoundGrows

\* What is made of what was put is made by a constructor.
LEMMA MadeOfItems ==
    ASSUME MaxDepth \in Nat \ {0}, NEW kind \in {"Record", "Sequence"},
           NEW items \in Seq([tag : Nat, value : Sound \cap Can!Nested[MaxDepth - 1]]),
           NEW v, v = [kind |-> kind, cells |-> <<>>, items |-> items],
           kind = "Record" => Sorted(items),
           kind = "Sequence" => \A i \in 1 .. Len(items) : items[i].tag = 0
    PROVE  v \in Sound \cap Can!Nested[MaxDepth]
<1> DEFINE In == [tag : Nat, value : Sound \cap Can!Nested[MaxDepth - 1]]
           V == Can!Nested[MaxDepth - 1]
<1>1. /\ Len(items) \in Nat
      /\ \A i \in 1 .. Len(items) : /\ items[i] \in [tag : Nat, value : V]
                                    /\ items[i].value \in Sound
  <2>1. Len(items) \in Nat /\ \A i \in 1 .. Len(items) : items[i] \in In
    <3>1. items \in Seq(In)
      OBVIOUS
    <3> HIDE DEF In
    <3>. QED  BY <3>1
  <2> HIDE DEF V
  <2>2. \A item \in In : item \in [tag : Nat, value : V] /\ item.value \in Sound
    BY DEF V
  <2> HIDE DEF In
  <2>. QED  BY <2>1, <2>2
<1>2. items \in Seq([tag : Nat, value : V])
  <2> DEFINE Item == [tag : Nat, value : V]
  <2>1. \A i \in 1 .. Len(items) : items[i] \in Item
    BY <1>1
  <2>2. items = [i \in 1 .. Len(items) |-> items[i]]
    <3> HIDE DEF In
    <3>. QED  BY DEF In
  <2> HIDE DEF Item
  <2>3. items \in [1 .. Len(items) -> Item]
    BY <2>1, <2>2
  <2>4. Len(items) \in Nat
    BY <1>1
  <2>5. items \in Seq(Item)
    BY <2>3, <2>4, SeqDef
  <2>. QED  BY <2>5 DEF Item
<1>3. v \in Can!Nested[MaxDepth]
  <2>1. kind \in Can!ToSet(Can!Kinds) /\ <<>> \in Seq(Nat)
    BY KindsAre
  <2>2. v \in ValueOf(V)
    <3> HIDE DEF V
    <3>. QED  BY <1>2, <2>1 DEF ValueOf
  <2>3. MaxDepth \in 0 .. MaxDepth /\ MaxDepth # 0 /\ MaxDepth \in Nat
    OBVIOUS
  <2>4. Can!Nested[MaxDepth] = NestedBody(Can!Nested, MaxDepth)
    BY <2>3, NestedIsItsBody
  <2>5. NestedBody(Can!Nested, MaxDepth) = ValueOf(V)
    BY <2>3 DEF NestedBody, ValueOf
  <2>. QED  BY <2>2, <2>4, <2>5
<1>4. v \in AllNested
  <2>1. MaxDepth \in 0 .. MaxDepth
    OBVIOUS
  <2>. QED  BY <1>3, <2>1 DEF AllNested
<1>5. /\ v.kind = kind /\ v.cells = <<>> /\ v.items = items
      /\ v.kind # "Null" /\ v.kind \notin Can!Words
  BY DEF Can!Words
<1>6. IsCanonical(v)
  BY <1>5 DEF IsCanonical
<1>7. \A i \in 1 .. Len(v.items) : v.items[i].value \in Sound
  BY <1>1, <1>5
<1>. QED  BY <1>3, <1>4, <1>6, <1>7, SoundGrows

LEMMA CanonInvariant == Can!CellsAreNumbers => (Can!Spec => []CanonInv)
<1> SUFFICES ASSUME Can!CellsAreNumbers PROVE Can!Spec => []CanonInv
  OBVIOUS
<1>0. /\ MaxDepth \in Nat \ {0} /\ MaxDepth \in Nat /\ MaxDepth \in 0 .. MaxDepth
      /\ MaxDepth - 1 \in 0 .. MaxDepth
      /\ CanonTag \subseteq Nat /\ Cell \subseteq Nat /\ TextCells \subseteq Seq(Nat)
  <2>1. MaxDepth \in Nat \ {0}
    BY DEF Can!CellsAreNumbers
  <2>. QED  BY <2>1 DEF Can!CellsAreNumbers, Can!TagsAreNumbers
<1> DEFINE Inner == Sound \cap Can!Nested[MaxDepth - 1]
           Outer == Sound \cap Can!Nested[MaxDepth]
           Item == [tag : CanonTag, value : Inner]
<1>1. Can!Null \in Outer
  <2>1. "Null" \in Can!ToSet(Can!Kinds) /\ <<>> \in Seq(Nat)
    BY KindsAre
  <2>2. IsCanonical(Can!Null)
    BY DEF IsCanonical, Can!Null, Can!Scalar, Can!Words
  <2>3. Can!Null = Can!Scalar("Null", <<>>)
    BY DEF Can!Null
  <2>. QED  BY <1>0, <2>1, <2>2, <2>3, ScalarsAreSound
<1>2. Can!Init => CanonInv
  BY <1>1 DEF Can!Init, Can!FieldsInit, CanonInv
<1>3. ASSUME CanonInv, NEW tag \in CanonTag, NEW v \in Inner, Can!PutField(tag, v),
             value' = Can!Null \/ value' = value
      PROVE  CanonInv'
  <2> DEFINE item == [tag |-> tag, value |-> v]
  <2>1. building \in Seq(Item) /\ building' = Append(building, item) /\ value' \in Outer
    BY <1>1, <1>3 DEF CanonInv, Can!PutField
  <2>2. item \in Item
    BY <1>3
  <2> HIDE DEF Item, item
  <2>3. building' \in Seq(Item)
    BY <2>1, <2>2
  <2>. QED  BY <2>1, <2>3 DEF CanonInv, Item
<1>4. ASSUME CanonInv, NEW kind \in Can!ToSet(Can!Kinds), NEW tag \in CanonTag, NEW cells \in Seq(Nat),
             IsCanonical(Can!Scalar(kind, cells)), Can!Put(tag, Can!Scalar(kind, cells))
      PROVE  CanonInv'
  <2>1. Can!Scalar(kind, cells) \in Inner
    BY <1>0, <1>4, ScalarsAreSound
  <2>2. Can!PutField(tag, Can!Scalar(kind, cells)) /\ value' = value
    BY <1>4 DEF Can!Put
  <2> HIDE DEF Inner
  <2>. QED  BY <1>3, <1>4, <2>1, <2>2
<1>5. ASSUME CanonInv, NEW kind \in Can!Texts, NEW tag \in CanonTag, NEW cells \in TextCells,
             Can!PutText(tag, kind, cells)
      PROVE  CanonInv'
  <2>1. kind \in Can!ToSet(Can!Kinds) /\ kind \notin {"Null", "Record", "Sequence"} /\ kind \notin Can!Words
    BY KindsAre DEF Can!Texts, Can!Words
  <2>2. IsCanonical(Can!Scalar(kind, cells))
    BY <2>1 DEF IsCanonical, Can!Scalar
  <2>3. cells \in Seq(Nat)
    BY <1>0
  <2>. QED  BY <1>4, <1>5, <2>1, <2>2, <2>3 DEF Can!PutText
<1>6. ASSUME CanonInv, NEW kind \in Can!Words, NEW tag \in CanonTag, NEW cell \in Cell,
             Can!PutWord(tag, kind, cell)
      PROVE  CanonInv'
  <2>1. kind \in Can!ToSet(Can!Kinds) /\ kind \notin {"Null", "Record", "Sequence"}
    BY KindsAre DEF Can!Words
  <2>2. Can!Admits(kind, cell) /\ Can!Put(tag, Can!Scalar(kind, <<cell>>))
    BY <1>6 DEF Can!PutWord
  <2>3. cell \in Nat /\ <<cell>> \in Seq(Nat) /\ Len(<<cell>>) = 1 /\ <<cell>>[1] = cell
    BY <1>0
  <2>4. IsCanonical(Can!Scalar(kind, <<cell>>))
    BY <2>1, <2>2, <2>3 DEF IsCanonical, Can!Scalar
  <2>. QED  BY <1>4, <1>6, <2>1, <2>2, <2>3, <2>4
<1>7. ASSUME CanonInv, NEW tag \in CanonTag, Can!PutMade(tag) PROVE CanonInv'
  <2>1. value \in Inner /\ Can!PutField(tag, value) /\ value' = Can!Null
    BY <1>7 DEF CanonInv, Can!PutMade
  <2> HIDE DEF Inner
  <2>. QED  BY <1>3, <1>7, <2>1
<1> DEFINE NatItem == [tag : Nat, value : Inner]
<1>8. ASSUME CanonInv PROVE building \in Seq(NatItem) /\ IsTagged(NatItem)
  <2>1. building \in Seq(Item)
    BY <1>8 DEF CanonInv
  <2>2. Item \subseteq NatItem
    <3> HIDE DEF Inner
    <3>. QED  BY <1>0
  <2>3. IsTagged(NatItem)
    BY DEF IsTagged
  <2> HIDE DEF Item, NatItem
  <2>4. \A i \in 1 .. Len(building) : building[i] \in NatItem
    BY <2>1, <2>2
  <2>5. Len(building) \in Nat /\ building = [i \in 1 .. Len(building) |-> building[i]]
    BY <2>1
  <2>6. building \in [1 .. Len(building) -> NatItem]
    BY <2>4, <2>5
  <2>. QED  BY <2>3, <2>5, <2>6
<1>9. ASSUME building' = <<>>, value' \in Outer PROVE CanonInv'
  <2>1. building' \in Seq(Item)
    BY <1>9
  <2>. QED  BY <1>9, <2>1 DEF CanonInv
<1>10. ASSUME CanonInv, Can!MakeRecord PROVE CanonInv'
  <2> DEFINE result == Can!MkRecord(building)
  <2>1. building' = <<>> /\ value' = IF result.ok THEN result.value ELSE value
    BY <1>10 DEF Can!MakeRecord, Can!TakeFields
  <2>2. ASSUME result.ok PROVE result.value \in Outer
    <3> DEFINE sorted == Can!SortByTag(building)
    <3>1. ~Can!HasDuplicate(building)
      BY <2>2 DEF Can!MkRecord, Can!Raises
    <3>2. result.value = [kind |-> "Record", cells |-> <<>>, items |-> sorted]
      BY <3>1 DEF Can!MkRecord
    <3>3. sorted \in Seq(NatItem) /\ Sorted(sorted)
      <4>1. sorted = Rec!SortByTag(building)
        BY DEF Can!SortByTag, Rec!SortByTag, Can!ToSet, Rec!ToSet
      <4>2. ~Rec!HasDuplicate(building)
        BY <3>1 DEF Can!HasDuplicate, Rec!HasDuplicate
      <4>3. building \in Seq(NatItem) /\ IsTagged(NatItem)
        BY <1>8, <1>10
      <4> HIDE DEF sorted, NatItem
      <4>. QED  BY <4>1, <4>2, <4>3, RecordsAreSorted
    <3> HIDE DEF sorted, result
    <3>. QED  BY <1>0, <3>2, <3>3, MadeOfItems
  <2>3. value \in Outer
    BY <1>10 DEF CanonInv
  <2>4. value' \in Outer
    <3> HIDE DEF result, Outer
    <3>. QED  BY <2>1, <2>2, <2>3
  <2>. QED  BY <1>9, <2>1, <2>4
<1>11. ASSUME CanonInv, Can!MakeSeq PROVE CanonInv'
  <2> DEFINE items == [i \in DOMAIN building |-> [tag |-> 0, value |-> building[i].value]]
  <2>1. building' = <<>> /\ value' = [kind |-> "Sequence", cells |-> <<>>, items |-> items]
    BY <1>11 DEF Can!MakeSeq, Can!TakeFields, Can!MkSeq
  <2>2. building \in Seq(NatItem)
    BY <1>8, <1>11
  <2>3. /\ DOMAIN building = 1 .. Len(building) /\ Len(building) \in Nat
        /\ \A i \in 1 .. Len(building) : building[i] \in NatItem
    <3> HIDE DEF NatItem
    <3>. QED  BY <2>2
  <2>4. \A i \in DOMAIN building : [tag |-> 0, value |-> building[i].value] \in NatItem
    <3> HIDE DEF Inner
    <3>. QED  BY <2>3
  <2>5. items \in Seq(NatItem) /\ \A i \in 1 .. Len(items) : items[i].tag = 0
    <3> HIDE DEF NatItem
    <3>. QED  BY <2>3, <2>4
  <2> HIDE DEF items
  <2>6. value' \in Outer
    BY <1>0, <2>1, <2>5, MadeOfItems
  <2>. QED  BY <1>9, <2>1, <2>6
<1>12. CanonInv /\ [Can!Next]_(Can!canonicalVars) => CanonInv'
  <2> SUFFICES ASSUME CanonInv, [Can!Next]_(Can!canonicalVars) PROVE CanonInv'
    OBVIOUS
  <2>1. CASE UNCHANGED Can!canonicalVars
    BY <2>1 DEF Can!canonicalVars, CanonInv
  <2> HIDE DEF Inner, Outer
  <2>. QED  BY <1>5, <1>6, <1>7, <1>10, <1>11, <2>1 DEF Can!Next
<1>. QED  BY <1>2, <1>12, PTL DEF Can!Spec

\* What callers make is decoded as it was encoded, and nothing shorter or
\* longer is.
LEMMA DecodedInCanonical ==
    ASSUME Can!CellsAreNumbers
    PROVE  Can!Spec => [](Can!DecodesBack /\ Can!TruncatedIsRefused)
<1>1. CanonInv => Can!DecodesBack /\ Can!TruncatedIsRefused
  <2> SUFFICES ASSUME CanonInv PROVE Can!DecodesBack /\ Can!TruncatedIsRefused
    OBVIOUS
  <2> DEFINE e == Can!Element[MaxDepth][value]
             s == Can!Encode(value)
  <2>1. MaxDepth \in Nat /\ MaxDepth \in 0 .. MaxDepth /\ Cell \subseteq Nat
    <3>1. MaxDepth \in Nat
      BY DEF Can!CellsAreNumbers
    <3>. QED  BY <3>1 DEF Can!CellsAreNumbers
  <2>2. ParsesTo(e, value)
    BY <2>1, ElementsParseBack DEF CanonInv
  <2>3. Heads(<<Can!Magic, Can!Version>>, e, s)
    BY DEF Can!Encode, Heads
  <2> HIDE DEF e, s
  <2>4. /\ Can!Decode(s).ok /\ Can!Decode(s).value = value
        /\ \A n \in 0 .. Len(s) - 1 : Can!Decode(SubSeq(s, 1, n)) = Can!Raises
        /\ \A c \in Nat : Can!Decode(Append(s, c)) = Can!Raises
    BY <2>2, <2>3, CellsAreDecoded
  <2>. QED  BY <2>1, <2>4 DEF Can!DecodesBack, Can!TruncatedIsRefused, s
<1>. QED  BY <1>1, CanonInvariant, PTL

-----------------------------------------------------------------------------
(* Profiles have fields.                                                   *)

\* The tables of a kind agree: every field is put at a tag of its own and read
\* from there as what it is, and a name is given the tag of the field it names.
TablesAgree(S, P, T, N) ==
    /\ DOMAIN P = DOMAIN S /\ DOMAIN T = DOMAIN S
    /\ \A f \in DOMAIN S : S[f] \in Sorts
    /\ \A f, g \in DOMAIN S : P[f] = P[g] => f = g
    /\ \A f \in DOMAIN S : /\ T[f][1] = P[f]
                           /\ T[f][2] = S[f] \/ (S[f] = "text" /\ T[f][2] = "line")
    /\ \A f \in DOMAIN N : f \in DOMAIN S /\ N[f] = P[f]

LEMMA TablesOfAllKinds ==
    \A k \in ProfileKind : TablesAgree(Structures[k], Puts[k], Takes[k], Names[k])
<1>1. TablesAgree(ModelProfile, ModelPut, ModelTake, ModelNames)
  BY DEF TablesAgree, Sorts, Lists, ModelProfile, ModelPut, ModelTake, ModelNames
<1>2. TablesAgree(TokenizerProfile, TokenizerPut, TokenizerTake, TokenizerNames)
  BY DEF TablesAgree, Sorts, Lists, TokenizerProfile, TokenizerPut, TokenizerTake, TokenizerNames
<1>3. TablesAgree(TensorProfile, TensorPut, TensorTake, TensorNames)
  BY DEF TablesAgree, Sorts, Lists, TensorProfile, TensorPut, TensorTake, TensorNames
<1>4. TablesAgree(KvProfile, KvPut, KvTake, KvNames)
  BY DEF TablesAgree, Sorts, Lists, KvProfile, KvPut, KvTake, KvNames
<1>5. TablesAgree(KernelProfile, KernelPut, KernelTake, KernelNames)
  BY DEF TablesAgree, Sorts, Lists, KernelProfile, KernelPut, KernelTake, KernelNames
<1>6. TablesAgree(GraphProfile, GraphPut, GraphTake, GraphNames)
  BY DEF TablesAgree, Sorts, Lists, GraphProfile, GraphPut, GraphTake, GraphNames
<1>7. TablesAgree(AdapterProfile, AdapterPut, AdapterTake, AdapterNames)
  BY DEF TablesAgree, Sorts, Lists, AdapterProfile, AdapterPut, AdapterTake, AdapterNames
<1>8. TablesAgree(BackendProfile, BackendPut, BackendTake, BackendNames)
  BY DEF TablesAgree, Sorts, Lists, BackendProfile, BackendPut, BackendTake, BackendNames
<1>9. TablesAgree(DeviceProfile, DevicePut, DeviceTake, DeviceNames)
  BY DEF TablesAgree, Sorts, Lists, DeviceProfile, DevicePut, DeviceTake, DeviceNames
<1>10. TablesAgree(ProtocolProfile, ProtocolPut, ProtocolTake, ProtocolNames)
  BY DEF TablesAgree, Sorts, Lists, ProtocolProfile, ProtocolPut, ProtocolTake, ProtocolNames
<1>11. TablesAgree(PolicyProfile, PolicyPut, PolicyTake, PolicyNames)
  BY DEF TablesAgree, Sorts, Lists, PolicyProfile, PolicyPut, PolicyTake, PolicyNames
<1>12. ProfileKind = {"Model", "Tokenizer", "Tensor", "Kv", "Kernel", "Graph", "Adapter",
                      "Backend", "Device", "Protocol", "Policy"}
  BY DEF ProfileKind, Structures
<1>. QED  BY <1>1, <1>2, <1>3, <1>4, <1>5, <1>6, <1>7, <1>8, <1>9, <1>10, <1>11, <1>12
         DEF Structures, Puts, Takes, Names

\* What a function that is a list looks like one element longer.
LEMMA OneElementMore ==
    ASSUME NEW s, NEW n \in Nat
    PROVE  Append([j \in 1 .. n |-> s[j]], s[n + 1]) = [j \in 1 .. n + 1 |-> s[j]]
<1> DEFINE T == {s[j] : j \in 1 .. n + 1}
           u == [j \in 1 .. n |-> s[j]]
           w == [j \in 1 .. n + 1 |-> s[j]]
<1>1. u \in Seq(T) /\ Len(u) = n /\ w \in Seq(T) /\ Len(w) = n + 1
  <2>1. \A j \in 1 .. n + 1 : s[j] \in T
    OBVIOUS
  <2>2. \A j \in 1 .. n : j \in 1 .. n + 1
    OBVIOUS
  <2> HIDE DEF T
  <2>3. u \in [1 .. n -> T] /\ w \in [1 .. n + 1 -> T]
    BY <2>1, <2>2
  <2>. QED  BY <2>3
<1>2. s[n + 1] \in T
  OBVIOUS
<1> DEFINE a == Append(u, s[n + 1])
<1>3. a \in Seq(T) /\ Len(a) = n + 1 /\ a[n + 1] = s[n + 1] /\ \A j \in 1 .. n : a[j] = u[j]
  <2> HIDE DEF u, T
  <2>. QED  BY <1>1, <1>2
<1>4. \A j \in 1 .. n + 1 : a[j] = w[j]
  <2>1. \A j \in 1 .. n + 1 : j = n + 1 \/ j \in 1 .. n
    OBVIOUS
  <2>2. \A j \in 1 .. n : u[j] = s[j]
    OBVIOUS
  <2>3. \A j \in 1 .. n + 1 : w[j] = s[j]
    OBVIOUS
  <2> HIDE DEF a, u, w, T
  <2>. QED  BY <1>3, <2>1, <2>2, <2>3
<1> HIDE DEF a, u, w, T
<1>5. a = w
  BY <1>1, <1>3, <1>4, SeqEqual
<1>. QED  BY <1>5 DEF a, u, w

\* A list whose elements are written as values of one kind is read back.
ElementsBody(kind, s, f, n) ==
    IF n = 0 THEN <<>>
    ELSE IF s[n][1] = kind THEN Append(f[n - 1], s[n][2]) ELSE f[n - 1]

LEMMA ListsAreReadBack ==
    ASSUME NEW kind, NEW s, Len(s) \in Nat, s = [j \in 1 .. Len(s) |-> s[j]]
    PROVE  Elements(kind, Listed(kind, s)) = s
<1> DEFINE size == Len(s)
           t == Listed(kind, s)
           Own(n) == [j \in 1 .. n |-> s[j]]
           Solves(f) == f = [n \in 0 .. size |-> ElementsBody(kind, t, f, n)]
<1>1. t = [j \in 1 .. size |-> <<kind, s[j]>>] /\ DOMAIN s = 1 .. size
  BY DEF Listed
<1>2. Len(t) = size
  BY <1>1
<1>3. \A n \in 1 .. size : t[n][1] = kind /\ t[n][2] = s[n]
  BY <1>1
<1>4. Elements(kind, t) = (CHOOSE f : Solves(f))[size]
  BY <1>2 DEF Elements, ElementsBody
<1> HIDE DEF t
<1>5. Own(0) = <<>>
  OBVIOUS
<1>6. ASSUME NEW n \in 0 .. size, NEW f, n # 0 => f[n - 1] = Own(n - 1)
      PROVE  ElementsBody(kind, t, f, n) = Own(n)
  <2>1. CASE n = 0
    BY <1>5, <2>1 DEF ElementsBody
  <2>2. CASE n # 0
    <3>1. n - 1 \in Nat /\ n - 1 + 1 = n /\ n \in 1 .. size
      BY <2>2
    <3>2. Append(Own(n - 1), s[n]) = Own(n)
      BY <3>1, OneElementMore
    <3> HIDE DEF Own
    <3>. QED  BY <1>3, <1>6, <2>2, <3>1, <3>2 DEF ElementsBody
  <2>. QED  BY <2>1, <2>2
<1>7. \E f : Solves(f)
  <2> DEFINE g == [n \in 0 .. size |-> Own(n)]
  <2>1. ASSUME NEW n \in 0 .. size PROVE ElementsBody(kind, t, g, n) = Own(n)
    <3>1. n # 0 => n - 1 \in 0 .. size
      OBVIOUS
    <3>2. n # 0 => g[n - 1] = Own(n - 1)
      <4> HIDE DEF Own
      <4>. QED  BY <3>1
    <3> HIDE DEF g, Own
    <3>. QED  BY <1>6, <3>2
  <2>2. g = [n \in 0 .. size |-> ElementsBody(kind, t, g, n)]
    <3>1. \A n \in 0 .. size : g[n] = Own(n)
      OBVIOUS
    <3>2. g = [n \in 0 .. size |-> g[n]]
      OBVIOUS
    <3> HIDE DEF g, Own
    <3>. QED  BY <2>1, <3>1, <3>2
  <2> HIDE DEF g, Own
  <2>. QED  BY <2>2
<1> DEFINE own == CHOOSE f : Solves(f)
<1>8. Solves(own)
  <2> HIDE DEF Solves
  <2>. QED  BY <1>7
<1> HIDE DEF own
<1>9. \A n \in 0 .. size : own[n] = ElementsBody(kind, t, own, n)
  BY <1>8
<1> HIDE DEF Solves
<1> DEFINE wrong == {n \in 0 .. size : own[n] # Own(n)}
<1>10. wrong = {}
  <2> SUFFICES ASSUME wrong # {} PROVE FALSE
    OBVIOUS
  <2>1. wrong \in SUBSET Nat
    OBVIOUS
  <2>2. PICK n \in wrong : \A m \in wrong : n <= m
    <3> HIDE DEF wrong
    <3>. QED  BY <2>1, LeastNumber
  <2>3. n \in 0 .. size /\ own[n] # Own(n)
    BY <2>2
  <2>4. n # 0 => own[n - 1] = Own(n - 1)
    <3> SUFFICES ASSUME n # 0 PROVE own[n - 1] = Own(n - 1)
      OBVIOUS
    <3>1. n - 1 \in 0 .. size /\ ~(n <= n - 1)
      BY <2>3
    <3>2. n - 1 \notin wrong
      <4> HIDE DEF wrong
      <4>. QED  BY <2>2, <3>1
    <3> HIDE DEF Own
    <3>. QED  BY <3>1, <3>2
  <2> HIDE DEF Own, wrong
  <2>. QED  BY <1>6, <1>9, <2>3, <2>4
<1>11. own[size] = Own(size)
  <2>1. size \in 0 .. size
    OBVIOUS
  <2> HIDE DEF Own
  <2>. QED  BY <1>10, <2>1
<1>. QED  BY <1>4, <1>11 DEF own, t

\* Every profile has the fields of its structure, which hold what they can.
ProfilesTyped ==
    /\ profiles = [k \in ProfileKind |-> profiles[k]]
    /\ \A k \in ProfileKind :
          /\ profiles[k] = [f \in DOMAIN Structures[k] |-> profiles[k][f]]
          /\ \A f \in DOMAIN Structures[k] : Holds(Structures[k][f], profiles[k][f])

LEMMA DefaultsHold == \A sort \in Sorts : Holds(sort, Default(sort))
<1> SUFFICES ASSUME NEW sort \in Sorts PROVE Holds(sort, Default(sort))
  OBVIOUS
<1>1. CASE sort \in DOMAIN Lists
  <2>1. sort # "opt" /\ Default(sort) = <<>>
    BY <1>1 DEF Lists, Default
  <2>2. Len(<<>>) \in Nat /\ <<>> = [j \in 1 .. Len(<<>>) |-> <<>>[j]]
    OBVIOUS
  <2>. QED  BY <2>1, <2>2 DEF Holds
<1>2. CASE sort \notin DOMAIN Lists
  BY <1>2 DEF Holds, Default
<1>. QED  BY <1>1, <1>2

\* A pair that is a field has its kind and its name.
LEMMA FieldsAreOfKinds ==
    \A f \in Field : f[1] \in ProfileKind /\ f[2] \in DOMAIN Structures[f[1]]
<1> SUFFICES ASSUME NEW f \in Field
             PROVE  f[1] \in ProfileKind /\ f[2] \in DOMAIN Structures[f[1]]
  OBVIOUS
<1>1. PICK k \in ProfileKind : f \in {k} \X DOMAIN Structures[k]
  BY DEF Field
<1>. QED  BY <1>1

LEMMA ProfilesInvariant == GivenTyped => (TypesSpec => []ProfilesTyped)
<1> SUFFICES ASSUME GivenTyped PROVE TypesSpec => []ProfilesTyped
  OBVIOUS
<1>1. TypesInit => ProfilesTyped
  BY TablesOfAllKinds, DefaultsHold DEF TypesInit, Declared, ProfilesTyped, TablesAgree
<1>2. ProfilesTyped /\ [TypesNext]_profiles => ProfilesTyped'
  <2> SUFFICES ASSUME ProfilesTyped, [TypesNext]_profiles PROVE ProfilesTyped'
    OBVIOUS
  <2>1. CASE UNCHANGED profiles
    BY <2>1 DEF ProfilesTyped
  <2>2. CASE TypesNext
    <3>1. PICK f \in Field : \E v \in Given[Structures[f[1]][f[2]]] : Assign(f[1], f[2], v)
      BY <2>2 DEF TypesNext
    <3> DEFINE k == f[1]
               i == f[2]
    <3>2. PICK v \in Given[Structures[k][i]] : profiles' = [profiles EXCEPT ![k][i] = v]
      BY <3>1 DEF Assign
    <3>3. k \in ProfileKind /\ i \in DOMAIN Structures[k]
      BY FieldsAreOfKinds
    <3>4. Holds(Structures[k][i], v)
      BY <3>3, TablesOfAllKinds DEF GivenTyped, TablesAgree
    <3> HIDE DEF k, i
    <3> DEFINE p == [profiles[k] EXCEPT ![i] = v]
    <3>5. profiles' = [profiles EXCEPT ![k] = p]
      BY <3>2
    <3>6. /\ p = [j \in DOMAIN Structures[k] |-> p[j]]
          /\ \A j \in DOMAIN Structures[k] : Holds(Structures[k][j], p[j])
      <4>1. profiles[k] = [j \in DOMAIN Structures[k] |-> profiles[k][j]]
        BY <3>3 DEF ProfilesTyped
      <4>2. \A j \in DOMAIN Structures[k] : p[j] = IF j = i THEN v ELSE profiles[k][j]
        BY <4>1
      <4>3. p = [j \in DOMAIN Structures[k] |-> p[j]]
        BY <4>1
      <4>4. \A j \in DOMAIN Structures[k] : Holds(Structures[k][j], profiles[k][j])
        BY <3>3 DEF ProfilesTyped
      <4> HIDE DEF p
      <4>. QED  BY <3>4, <4>2, <4>3, <4>4
    <3> HIDE DEF p
    <3>7. profiles' = [l \in ProfileKind |-> profiles'[l]]
          /\ \A l \in ProfileKind : profiles'[l] = IF l = k THEN p ELSE profiles[l]
      <4>1. profiles = [l \in ProfileKind |-> profiles[l]]
        BY DEF ProfilesTyped
      <4>2. DOMAIN profiles = ProfileKind
        BY <4>1
      <4>. QED  BY <3>5, <4>1, <4>2
    <3>. QED  BY <3>6, <3>7 DEF ProfilesTyped
  <2>. QED  BY <2>1, <2>2
<1>. QED  BY <1>1, <1>2, PTL DEF TypesSpec

\* No more than one value is put for a field.
LEMMA OneIsPut ==
    ASSUME NEW sort, NEW v, Holds(sort, v), NEW w \in Put(sort, v)
    PROVE  Put(sort, v) = {w}
<1>1. CASE sort = "opt"
  BY <1>1 DEF Put, Holds
<1>2. CASE sort # "opt"
  BY <1>2 DEF Put
<1>. QED  BY <1>1, <1>2

\* What is found in the record at the tag of a field is what was put for it.
LEMMA FieldsAreWritten ==
    ASSUME NEW k \in ProfileKind, NEW p,
           \A f \in DOMAIN Structures[k] : Holds(Structures[k][f], p[f]),
           NEW f \in DOMAIN Structures[k]
    PROVE  At(ToCanon(k, p), {Puts[k][f]}) = Put(Structures[k][f], p[f])
<1> DEFINE put(g) == Put(Structures[k][g], p[g])
           there == {g \in DOMAIN Puts[k] : put(g) # {}}
           tags == {Puts[k][g] : g \in there}
           c == ToCanon(k, p)
<1>1. c = [t \in tags |-> CHOOSE v \in put(CHOOSE g \in there : Puts[k][g] = t) : TRUE]
  BY DEF ToCanon
<1>2. /\ DOMAIN Puts[k] = DOMAIN Structures[k]
      /\ \A g, h \in DOMAIN Structures[k] : Puts[k][g] = Puts[k][h] => g = h
  BY TablesOfAllKinds DEF TablesAgree
<1>3. \A g \in there : g \in DOMAIN Structures[k] /\ put(g) # {}
  BY <1>2
<1>4. f \in there <=> put(f) # {}
  BY <1>2
<1>5. Puts[k][f] \in tags <=> f \in there
  <2> HIDE DEF there, put
  <2>. QED  BY <1>2, <1>3
<1>6. ASSUME f \in there PROVE c[Puts[k][f]] \in put(f)
  <2>1. (CHOOSE g \in there : Puts[k][g] = Puts[k][f]) = f
    <3> HIDE DEF there, put
    <3>. QED  BY <1>2, <1>3, <1>6
  <2>2. c[Puts[k][f]] = CHOOSE v \in put(f) : TRUE
    <3> HIDE DEF there, put, tags, c
    <3>. QED  BY <1>1, <1>5, <1>6, <2>1
  <2>3. put(f) # {}
    BY <1>3, <1>6
  <2> HIDE DEF there, put, tags, c
  <2>. QED  BY <2>2, <2>3
<1>7. DOMAIN c = tags
  <2> HIDE DEF there, put, tags, c
  <2>. QED  BY <1>1
<1>8. \A w \in put(f) : put(f) = {w}
  BY OneIsPut
<1> HIDE DEF there, put, tags, c
<1>9. At(c, {Puts[k][f]}) = put(f)
  <2>1. CASE f \in there
    <3>1. Puts[k][f] \in DOMAIN c
      BY <1>5, <1>7, <2>1
    <3>2. At(c, {Puts[k][f]}) = {c[Puts[k][f]]}
      BY <3>1 DEF At
    <3>. QED  BY <1>6, <1>8, <2>1, <3>2
  <2>2. CASE f \notin there
    <3>1. Puts[k][f] \notin DOMAIN c /\ put(f) = {}
      BY <1>4, <1>5, <1>7, <2>2
    <3>. QED  BY <3>1 DEF At
  <2>. QED  BY <2>1, <2>2
<1>. QED  BY <1>9 DEF put, c

\* An optional number is not there at first.
LEMMA OptionalIsEmpty == Default("opt") = {}
BY DEF Default, Lists, NoFields

\* A field is read as what was put for it, and as declared if nothing was.
LEMMA FieldIsReadBack ==
    ASSUME NEW k \in ProfileKind, NEW c, NEW v, NEW f \in DOMAIN Structures[k],
           Holds(Structures[k][f], v), At(c, {Puts[k][f]}) = Put(Structures[k][f], v)
    PROVE  /\ Takes[k][f][2] \in {"uuid", "text"} => Has(c, Takes[k][f])
           /\ FromCanon(k, c)[f] = v
<1> DEFINE sort == Structures[k][f]
           tag == Takes[k][f][1]
           how == Takes[k][f][2]
<1>1. /\ tag = Puts[k][f] /\ f \in DOMAIN Takes[k] /\ sort \in Sorts
      /\ how = sort \/ (sort = "text" /\ how = "line")
  <2>1. TablesAgree(Structures[k], Puts[k], Takes[k], Names[k])
    BY TablesOfAllKinds
  <2>2. f \in DOMAIN Takes[k] /\ sort \in Sorts
    BY <2>1 DEF TablesAgree
  <2>3. tag = Puts[k][f]
    BY <2>1 DEF TablesAgree
  <2>4. how = sort \/ (sort = "text" /\ how = "line")
    BY <2>1 DEF TablesAgree
  <2>. QED  BY <2>2, <2>3, <2>4
<1>2. FromCanon(k, c)[f] = IF Has(c, Takes[k][f]) THEN Taken(how, c[tag][2]) ELSE Default(sort)
  BY <1>1 DEF FromCanon
<1>3. Has(c, Takes[k][f]) <=> tag \in DOMAIN c /\ c[tag][1] = KindOf(how)
  BY DEF Has
<1>4. /\ tag \notin DOMAIN c => Put(sort, v) = {}
      /\ tag \in DOMAIN c => Put(sort, v) = {c[tag]}
  BY <1>1 DEF At
<1>5. KindOf(how) = KindOf(sort)
  BY <1>1 DEF KindOf, Lists
<1>6. how = "opt" <=> sort = "opt"
  BY <1>1
<1>7. how \in DOMAIN Lists <=> sort \in DOMAIN Lists
  BY <1>1 DEF Lists
<1>8. "opt" \notin DOMAIN Lists /\ KindOf("opt") = "Uint"
  BY DEF Lists, KindOf
<1> HIDE DEF tag
<1>9. CASE sort = "opt"
  <2>1. Put(sort, v) = {<<"Uint", n>> : n \in v}
    BY <1>9 DEF Put
  <2>2. CASE tag \notin DOMAIN c
    <3>1. v = {}
      BY <1>4, <2>1, <2>2
    <3>. QED  BY <1>1, <1>2, <1>3, <1>9, <2>2, <3>1, OptionalIsEmpty
  <2>3. CASE tag \in DOMAIN c
    <3>1. c[tag] \in {<<"Uint", n>> : n \in v}
      BY <1>4, <2>1, <2>3
    <3>2. PICK n \in v : c[tag] = <<"Uint", n>>
      BY <3>1
    <3>3. v = {n}
      BY <1>9 DEF Holds
    <3>4. Has(c, Takes[k][f])
      BY <1>3, <1>5, <1>8, <1>9, <2>3, <3>2
    <3>5. Taken(how, c[tag][2]) = {n}
      BY <1>6, <1>9, <3>2 DEF Taken
    <3>. QED  BY <1>1, <1>2, <1>9, <3>3, <3>4, <3>5
  <2>. QED  BY <2>2, <2>3
<1>10. CASE sort # "opt"
  <2> DEFINE content == IF sort \in DOMAIN Lists THEN Listed(Lists[sort], v) ELSE v
  <2>1. Put(sort, v) = {<<KindOf(sort), content>>}
    BY <1>10 DEF Put
  <2>2. tag \in DOMAIN c /\ c[tag] = <<KindOf(sort), content>>
    <3> HIDE DEF content
    <3>. QED  BY <1>4, <2>1
  <2>3. Has(c, Takes[k][f]) /\ c[tag][2] = content
    <3> HIDE DEF content
    <3>. QED  BY <1>3, <1>5, <2>2
  <2>4. Taken(how, content) = v
    <3>1. CASE sort \in DOMAIN Lists
      <4>1. how = sort
        BY <1>1, <3>1 DEF Lists
      <4>2. Taken(how, content) = Elements(Lists[sort], Listed(Lists[sort], v))
        BY <1>10, <3>1, <4>1 DEF Taken
      <4>3. Len(v) \in Nat /\ v = [j \in 1 .. Len(v) |-> v[j]]
        BY <3>1 DEF Holds
      <4>. QED  BY <4>2, <4>3, ListsAreReadBack
    <3>2. CASE sort \notin DOMAIN Lists
      BY <1>6, <1>7, <1>10, <3>2 DEF Taken
    <3>. QED  BY <3>1, <3>2
  <2> HIDE DEF content
  <2>. QED  BY <1>2, <2>3, <2>4
<1>. QED  BY <1>9, <1>10

\* A profile is what its record is read as.
LEMMA RecordsAreReadBack == ProfilesTyped => RecordsReadBack
<1> SUFFICES ASSUME ProfilesTyped, NEW k \in ProfileKind
             PROVE  LET c == ToCanon(k, profiles[k])
                    IN  Readable(k, c) /\ FromCanon(k, c) = profiles[k]
  BY DEF RecordsReadBack
<1> DEFINE p == profiles[k]
           c == ToCanon(k, p)
           read == FromCanon(k, c)
<1>1. p = [f \in DOMAIN Structures[k] |-> p[f]]
  BY DEF ProfilesTyped
<1>2. \A f \in DOMAIN Structures[k] : Holds(Structures[k][f], p[f])
  BY DEF ProfilesTyped
<1> HIDE DEF p
<1>3. \A f \in DOMAIN Structures[k] : At(c, {Puts[k][f]}) = Put(Structures[k][f], p[f])
  BY <1>2, FieldsAreWritten
<1> HIDE DEF c
<1>4. ASSUME NEW f \in DOMAIN Structures[k]
      PROVE  /\ Takes[k][f][2] \in {"uuid", "text"} => Has(c, Takes[k][f])
             /\ read[f] = p[f]
  <2>1. Holds(Structures[k][f], p[f]) /\ At(c, {Puts[k][f]}) = Put(Structures[k][f], p[f])
    BY <1>2, <1>3
  <2>. QED  BY <2>1, FieldIsReadBack
<1>5. DOMAIN Takes[k] = DOMAIN Structures[k]
  BY TablesOfAllKinds DEF TablesAgree
<1>6. Readable(k, c)
  BY <1>4, <1>5 DEF Readable
<1>7. read = [f \in DOMAIN Structures[k] |-> read[f]]
  BY DEF FromCanon
<1> HIDE DEF read
<1>8. read = p
  BY <1>1, <1>4, <1>7
<1>. QED  BY <1>6, <1>8 DEF c, p, read

\* Lists are written alike when they are the same.
LEMMA WrittenAlike ==
    ASSUME NEW kind, NEW s, NEW t,
           Len(s) \in Nat, s = [j \in 1 .. Len(s) |-> s[j]],
           Len(t) \in Nat, t = [j \in 1 .. Len(t) |-> t[j]],
           Listed(kind, s) = Listed(kind, t)
    PROVE  s = t
<1>1. Elements(kind, Listed(kind, s)) = s
  BY ListsAreReadBack
<1>2. Elements(kind, Listed(kind, t)) = t
  BY ListsAreReadBack
<1>. QED  BY <1>1, <1>2

\* A name that tag_for knows finds what was put for the field it names.
LEMMA NamesAreResolved == ProfilesTyped => NamesFindTheirFields
<1> SUFFICES ASSUME ProfilesTyped, NEW k \in ProfileKind, NEW name \in DOMAIN Names[k]
             PROVE  ResolveField(k, ToCanon(k, profiles[k]), name)
                       = Put(Structures[k][name], profiles[k][name])
  BY DEF NamesFindTheirFields
<1>1. name \in DOMAIN Structures[k] /\ Names[k][name] = Puts[k][name]
  BY TablesOfAllKinds DEF TablesAgree
<1>2. TagFor(k, name) = {Puts[k][name]}
  BY <1>1 DEF TagFor
<1>3. \A f \in DOMAIN Structures[k] : Holds(Structures[k][f], profiles[k][f])
  BY DEF ProfilesTyped
<1>. QED  BY <1>1, <1>2, <1>3, FieldsAreWritten DEF ResolveField

\* A rule that compares a field by name compares what was assigned.
LEMMA ComparedAsAssigned == ProfilesTyped => RulesCompareWhatIsAssigned
<1> SUFFICES ASSUME ProfilesTyped PROVE RulesCompareWhatIsAssigned
  OBVIOUS
<1> DEFINE c == [k \in ProfileKind |-> ToCanon(k, profiles[k])]
<1>1. ASSUME NEW k \in ProfileKind, NEW l \in ProfileKind, NEW name \in Common(k, l)
      PROVE  EqHolds(k, c[k], name, l, c[l], name) <=> profiles[k][name] = profiles[l][name]
  <2> DEFINE sort == Structures[k][name]
             p == profiles[k][name]
             q == profiles[l][name]
             written(v) == IF sort \in DOMAIN Lists THEN Listed(Lists[sort], v) ELSE v
  <2>1. /\ name \in DOMAIN Names[k] /\ name \in DOMAIN Names[l]
        /\ Structures[l][name] = sort /\ sort # "opt"
    BY DEF Common
  <2>2. name \in DOMAIN Structures[k] /\ name \in DOMAIN Structures[l]
    BY <2>1, TablesOfAllKinds DEF TablesAgree
  <2>3. Holds(sort, p) /\ Holds(sort, q)
    BY <2>1, <2>2 DEF ProfilesTyped
  <2>4. ResolveField(k, c[k], name) = Put(sort, p) /\ ResolveField(l, c[l], name) = Put(sort, q)
    BY <2>1, NamesAreResolved DEF NamesFindTheirFields
  <2> HIDE DEF p, q, c, sort
  <2>5. /\ Put(sort, p) = {<<KindOf(sort), written(p)>>}
        /\ Put(sort, q) = {<<KindOf(sort), written(q)>>}
    BY <2>1 DEF Put
  <2>6. EqHolds(k, c[k], name, l, c[l], name) <=> written(p) = written(q)
    <3> HIDE DEF written
    <3>. QED  BY <2>4, <2>5 DEF EqHolds
  <2>7. written(p) = written(q) <=> p = q
    BY <2>3, WrittenAlike DEF Holds
  <2>. QED  BY <2>6, <2>7 DEF p, q
<1>. QED  BY <1>1 DEF RulesCompareWhatIsAssigned

-----------------------------------------------------------------------------
(* The components side by side.                                            *)

\* Whatever the subject, each component behaves as it does alone: another
\* leaves its variables as they are.
LEMMA ComponentsStandAlone ==
    EvaluationSpec => /\ Spec /\ Con!Spec /\ Sub!Spec /\ Dev!Spec /\ Cap!Spec
                      /\ Rec!FieldsSpec(FieldValue) /\ TypesSpec /\ Can!Spec
<1>1. EvaluationInit => /\ Init /\ Con!Init /\ Sub!Init /\ Dev!Init /\ Cap!Init
                        /\ Rec!FieldsInit /\ TypesInit /\ Can!Init
  BY DEF EvaluationInit
<1>2. [ComponentNext /\ UNCHANGED subject]_<<subject, componentVars>>
      => /\ [Next]_pairVars /\ [Con!Next]_(Con!payloads) /\ [Sub!Next]_(Sub!submissionVars)
         /\ [Dev!Next]_(Dev!deviceVars) /\ [Cap!Next]_caps /\ [Rec!FieldsNext(FieldValue)]_fields
         /\ [TypesNext]_profiles /\ [Can!Next]_(Can!canonicalVars)
  BY DEF ComponentNext, componentVars, constraintVars, submissionVars, deviceVars,
         dataVars, canonicalVars, Sub!submissionVars,
         Con!payloads, Dev!deviceVars, Can!canonicalVars
<1>. QED  BY <1>1, <1>2, PTL DEF EvaluationSpec, Spec, Con!Spec, Sub!Spec, Dev!Spec,
                                Cap!Spec, Rec!FieldsSpec, TypesSpec, Can!Spec

\* Versions are compared in the order of their numbers, and ranges in the
\* order of numbers up to what a double holds, whatever callers register
\* (rule.cpp, parse_ver, cmp_ver and Constraint::evaluate).
THEOREM VersionsAndRangesInOrder == EvaluationSpec => []ComparisonsKeepOrder
<1>1. Con!Spec => []Con!ComparisonsKeepOrder
  BY OrderInConstraints, InputsAreTyped
<1>2. Con!ComparisonsKeepOrder => ComparisonsKeepOrder
  BY DEF ComparisonsKeepOrder
<1>. QED  BY <1>1, <1>2, ComponentsStandAlone, PTL

\* A field that arrives changes no verdict that was known (registry.cpp,
\* constraint_known).
THEOREM MoreFieldsKeepVerdicts == EvaluationSpec => ArrivingFieldsKeepVerdicts
<1>1. Con!Spec => [][Con!ArrivingFieldsKeepVerdicts]_(Con!payloads)
  BY VerdictsInConstraints, InputsAreTyped
<1>2. [Con!ArrivingFieldsKeepVerdicts]_(Con!payloads)
        => [subject = "constraints" => Con!ArrivingFieldsKeepVerdicts]_constraintVars
  BY DEF constraintVars, Con!payloads
<1>. QED  BY <1>1, <1>2, ComponentsStandAlone, PTL DEF ArrivingFieldsKeepVerdicts

\* A counterfactual query evaluates the payloads that the supersede it stands
\* for would leave (registry.cpp, counterfactual_pair).
THEOREM QueriesForetell == EvaluationSpec => CounterfactualForetells
<1>1. Con!Spec => [][Con!CounterfactualForetells]_(Con!payloads)
  BY QueriesInConstraints, InputsAreTyped
<1>2. [Con!CounterfactualForetells]_(Con!payloads)
        => [subject = "constraints" => Con!CounterfactualForetells]_constraintVars
  BY DEF constraintVars, Con!payloads
<1>. QED  BY <1>1, <1>2, ComponentsStandAlone, PTL DEF CounterfactualForetells

\* What rules decide of any pair is the same after any number of restarts
\* (registry.cpp, load: the rules come back as they were registered).
THEOREM SavedRulesDecideAlike == EvaluationSpec => []RestartsKeepDecisions
<1>1. Sub!Spec => []Sub!RestartsKeepDecisions
  BY DecisionsInSubmissions, InputsAreTyped
<1>2. Sub!RestartsKeepDecisions => RestartsKeepDecisions
  BY DEF RestartsKeepDecisions
<1>. QED  BY <1>1, <1>2, ComponentsStandAlone, PTL

\* A plain rule, registered through the coordinator, yields for every pair
\* what it yields in process (net.cpp, register_rule).
THEOREM PlainRulesCrossTheWire == EvaluationSpec => []WireKeepsPlainRules
<1>1. Sub!Spec => []Sub!WireKeepsPlainRules
  BY YieldsInSubmissions, InputsAreTyped
<1>2. Sub!WireKeepsPlainRules => WireKeepsPlainRules
  BY DEF WireKeepsPlainRules
<1>. QED  BY <1>1, <1>2, ComponentsStandAlone, PTL

\* Rules read of a device the numbers CUDA gave, a version it did not give as
\* 0.0, and a memory size it did not give as unknown (cuda.cpp,
\* format_cuda_version and make_cuda_device_profile).
THEOREM DevicesReadAsObserved == EvaluationSpec => []DevicesCompareAsObserved
<1>1. Dev!Spec => [](Dev!DevicesCompareAsObserved /\ Dev!MemoryIsObservedOrUnknown)
  BY DevicesAreComparedAsObserved, UnobservedMemoryIsUnknown, InputsAreTyped, PTL
<1>2. Dev!DevicesCompareAsObserved /\ Dev!MemoryIsObservedOrUnknown => DevicesCompareAsObserved
  BY DEF DevicesCompareAsObserved
<1>. QED  BY <1>1, <1>2, ComponentsStandAlone, PTL

\* A capability that is set is answered, and every other as before, however
\* many there are (capability.hpp, put_ and find_).
THEOREM CapabilitiesAreIndependent == EvaluationSpec => SetKeepsTheOthers
<1>1. Cap!Spec => [][Cap!SetKeepsTheOthers]_caps
  BY GettersInCapabilities, InputsAreTyped
<1>2. [Cap!SetKeepsTheOthers]_caps => [subject = "capabilities" => Cap!SetKeepsTheOthers]_caps
  BY DEF constraintVars, Con!payloads
<1>. QED  BY <1>1, <1>2, ComponentsStandAlone, PTL DEF SetKeepsTheOthers

\* A record is the same in whatever order its fields are put, and gives each
\* field the value that was put there (canonical.cpp, mk_record and field).
THEOREM RecordsForgetTheOrder == EvaluationSpec => []OrderOfPutIsForgotten
<1>1. Rec!FieldsSpec(FieldValue) => [](Rec!OrderOfPutIsForgotten /\ Rec!FieldsAreFound)
  BY FieldsInRecords, InputsAreTyped
<1>2. Rec!OrderOfPutIsForgotten /\ Rec!FieldsAreFound => OrderOfPutIsForgotten
  BY DEF OrderOfPutIsForgotten
<1>. QED  BY <1>1, <1>2, ComponentsStandAlone, PTL

\* A profile is read from its record as it was written, whichever of its fields
\* have been assigned: each is read at the tag and of the kind it was put with
\* (profile.hpp, to_canon and from_canon).
THEOREM ProfilesComeBack == EvaluationSpec => []ProfilesReadBack
<1>1. TypesSpec => []ProfilesTyped
  BY ProfilesInvariant, InputsAreTyped
<1>2. ProfilesTyped => ProfilesReadBack
  BY RecordsAreReadBack DEF ProfilesReadBack
<1>. QED  BY <1>1, <1>2, ComponentsStandAlone, PTL

\* A name reaches what was put for the field it names and nothing else, so that
\* a rule that compares a field of two profiles compares what was assigned to
\* it (rule.cpp, tag_for and resolve_profile_field).
THEOREM NamesReachFields == EvaluationSpec => []NamesReachTheirFields
<1>1. TypesSpec => []ProfilesTyped
  BY ProfilesInvariant, InputsAreTyped
<1>2. ProfilesTyped => NamesReachTheirFields
  BY NamesAreResolved, ComparedAsAssigned DEF NamesReachTheirFields
<1>. QED  BY <1>1, <1>2, ComponentsStandAlone, PTL

\* The decoder gives back every value that was encoded, however deep, and
\* refuses what is shorter or longer with an exception, without reading beyond
\* its end (canonical.cpp, canonical_decode).
THEOREM EncodingIsExact == EvaluationSpec => []DecoderIsExact
<1>1. Can!Spec => [](Can!DecodesBack /\ Can!TruncatedIsRefused)
  BY DecodedInCanonical, InputsAreTyped
<1>2. Can!DecodesBack /\ Can!TruncatedIsRefused => DecoderIsExact
  BY DEF DecoderIsExact
<1>. QED  BY <1>1, <1>2, ComponentsStandAlone, PTL
=============================================================================
