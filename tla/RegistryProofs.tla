--------------------------- MODULE RegistryProofs ---------------------------
(***************************************************************************)
(* Proofs about Registry.tla: the profile lifecycle inside the registry is *)
(* that of Profiles.tla, and what callers can rely on in the decisions     *)
(* they are given.                                                         *)
(***************************************************************************)
EXTENDS Registry, SequenceTheorems, FiniteSetTheorems, TLAPS

-----------------------------------------------------------------------------
(* The registry implements Profiles.                                       *)

\* Rules, evidence, policy and evaluations reach the profile lifecycle only
\* through the generation they share with it.
LEMMA ProfilesStep ==
    ASSUME [Next]_registryVars
    PROVE  [P!Next]_(P!profileVars)
<1>1. CASE UNCHANGED registryVars
  BY <1>1 DEF registryVars, profileVars, P!profileVars
<1>2. CASE ProfileStep
  BY <1>2 DEF ProfileStep, P!Next
<1>3. ASSUME NEW i \in RuleId, DisableRule(i)
      PROVE  P!Next
  BY <1>3 DEF DisableRule, P!Next
<1>4. ASSUME NEW i \in RuleId, NEW body \in RuleBody, SupersedeRule(i, body)
      PROVE  P!Next
  BY <1>4 DEF SupersedeRule, P!Next
<1>5. ASSUME NEW i \in RuleId, NEW body \in RuleBody,
             NEW generation \in CallerGeneration, RegisterRule(i, body, generation)
      PROVE  P!Next
  BY <1>5 DEF RegisterRule, P!Next
<1>6. ASSUME NEW p \in Policy, SetPolicy(p)
      PROVE  P!Next
  BY <1>6 DEF SetPolicy, P!Next
<1>7. ASSUME NEW e \in EvidenceId, NEW generation \in SourceGeneration,
             RegisterEvidence(e, generation)
      PROVE  P!Next
  BY <1>7 DEF RegisterEvidence, P!Next
<1>8. ASSUME NEW q \in Request, EvaluateAndCache(q[1], q[2], q[3])
      PROVE  UNCHANGED P!profileVars
  BY <1>8 DEF EvaluateAndCache, profileVars, P!profileVars
<1>. QED  BY <1>1, <1>2, <1>3, <1>4, <1>5, <1>6, <1>7, <1>8 DEF Next

\* Every behaviour of the registry is one of Profiles.tla: what ProfilesProofs
\* proves holds of the profiles of the whole registry.
THEOREM RegistryImplementsProfiles == Spec => ImplementsProfiles
<1>1. Init => P!Init
  BY DEF Init
<1>2. [Next]_registryVars => [P!Next]_(P!profileVars)
  BY ProfilesStep
<1>. QED  BY <1>1, <1>2, PTL DEF Spec, ImplementsProfiles, P!Spec

-----------------------------------------------------------------------------
(* The invariant of ProfilesProofs, for the profiles of the registry.      *)

PP == INSTANCE ProfilesProofs

\* P and PP are two instances of one module: each action of P is that of PP.
LEMMA ProfileActionsAlike == [P!Next]_(P!profileVars) => [PP!Next]_(PP!profileVars)
BY DEF P!Next, P!ProfileCall, P!OtherMutation, P!RegisterAccepted, P!RegisterRejected,
       P!SupersedeAccepted, P!SupersedeRejected, P!InvalidateProfile,
       P!PropagateInvalidation, P!AdvanceGeneration, P!profileVars, P!Content,
       P!SameRegistration, P!SameSemantics, P!CreateCycle, P!HasCycle, P!IsCore,
       P!NewGeneration, P!NextGeneration, P!Retire, P!Latest, P!Log,
       P!ReplaceEdges, P!ReplaceReverse, P!DropReverse, P!Closure,
       PP!Next, PP!ProfileCall, PP!OtherMutation, PP!RegisterAccepted,
       PP!RegisterRejected, PP!SupersedeAccepted, PP!SupersedeRejected,
       PP!InvalidateProfile, PP!PropagateInvalidation, PP!AdvanceGeneration,
       PP!profileVars, PP!Content, PP!SameRegistration, PP!SameSemantics,
       PP!CreateCycle, PP!HasCycle, PP!IsCore, PP!NewGeneration, PP!NextGeneration,
       PP!Retire, PP!Latest, PP!Log, PP!ReplaceEdges, PP!ReplaceReverse,
       PP!DropReverse, PP!Closure

LEMMA ProfilesInvInit == Init => PP!IInv
<1>1. Init => PP!Init
  BY DEF Init, P!Init, P!EmptyGraph, PP!Init, PP!EmptyGraph
<1>. QED  BY <1>1, ProfileConstantsAssumption, PP!IInvInit

LEMMA ProfilesInvStep == PP!IInv /\ [Next]_registryVars => PP!IInv'
<1>1. [Next]_registryVars => [PP!Next]_(PP!profileVars)
  BY ProfilesStep, ProfileActionsAlike
<1>. QED  BY <1>1, ProfileConstantsAssumption, PP!IInvStep

\* Whatever rules, evidence and evaluations come between the calls, the
\* profiles keep all that ProfilesProofs proves of them.
THEOREM ProfilesInvariantInRegistry == Spec => []PP!IInv
BY ProfilesInvInit, ProfilesInvStep, PTL DEF Spec

-----------------------------------------------------------------------------
(* Histories.                                                              *)

HistoriesTyped == profiles \in [Id -> Seq(P!Record)] /\ registryGen \in Nat

\* A history whose records have been retired resolves to none.
LEMMA RetiredIsUnresolved ==
    ASSUME NEW hist \in Seq(P!Record)
    PROVE  P!Retire(hist) \in Seq(P!Record) /\ P!NewestActive(P!Retire(hist)) = {}
<1> DEFINE n == Len(hist)
           out == [i \in 1 .. n |-> [hist[i] EXCEPT !.active = FALSE]]
<1>1. n \in Nat /\ DOMAIN hist = 1 .. n /\ \A i \in 1 .. n : hist[i] \in P!Record
  BY ElementOfSeq
<1>2. P!Retire(hist) = out
  BY <1>1 DEF P!Retire
<1>3. \A i \in 1 .. n : /\ [hist[i] EXCEPT !.active = FALSE] \in P!Record
                        /\ out[i].active = FALSE
  BY <1>1 DEF P!Record
<1>4. out \in Seq(P!Record)
  <2>1. out \in [1 .. n -> P!Record]
    BY <1>3
  <2>. QED  BY <1>1, <2>1, SeqDef
<1>5. P!NewestActive(out) = {}
  BY <1>3 DEF P!NewestActive
<1>. QED  BY <1>2, <1>4, <1>5

LEMMA NewGenerationTyped ==
    ASSUME NEW hist \in Seq(P!Record), NEW c \in P!Content, NEW isActive \in BOOLEAN
    PROVE  P!NewGeneration(hist, c, isActive) \in Seq(P!Record)
<1>1. P!NextGeneration(hist) \in Nat
  <2>1. CASE hist = <<>>
    BY <2>1 DEF P!NextGeneration
  <2>2. CASE hist # <<>>
    <3>1. hist[Len(hist)] \in P!Record
      BY <2>2, EmptySeq, ElementOfSeq, LenProperties
    <3>. QED  BY <2>2, <3>1 DEF P!NextGeneration, P!Latest, P!Record
  <2>. QED  BY <2>1, <2>2
<1>2. [content |-> c, generation |-> P!NextGeneration(hist), active |-> isActive]
         \in P!Record
  BY <1>1 DEF P!Record
<1>. QED  BY <1>2, RetiredIsUnresolved, AppendProperties DEF P!NewGeneration

\* A call of the profile lifecycle makes a new generation of the registry, or
\* has only retired the history of one identity.
LEMMA ProfileCallEffect ==
    ASSUME HistoriesTyped, P!ProfileCall
    PROVE  /\ HistoriesTyped'
           /\ \/ registryGen' = registryGen + 1
              \/ /\ registryGen' = registryGen
                 /\ \E id \in Id : profiles' = [profiles EXCEPT ![id] = P!Retire(@)]
<1>. USE DEF HistoriesTyped
<1>1. ASSUME NEW id \in Id, NEW c \in P!Content, NEW isActive \in BOOLEAN,
             P!RegisterAccepted(id, c, isActive) \/ P!SupersedeAccepted(id, c)
      PROVE  HistoriesTyped' /\ registryGen' = registryGen + 1
  <2>1. CASE P!RegisterAccepted(id, c, isActive)
    BY <2>1, NewGenerationTyped DEF P!RegisterAccepted, P!AdvanceGeneration
  <2>2. CASE P!SupersedeAccepted(id, c)
    <3> DEFINE new == P!NewGeneration(profiles[id], c, TRUE)
    <3>1. new \in Seq(P!Record)
      BY NewGenerationTyped
    <3>2. registryGen' = registryGen + 1 /\ profiles' = [profiles EXCEPT ![id] = new]
      BY <2>2 DEF P!SupersedeAccepted, P!AdvanceGeneration
    <3> HIDE DEF new
    <3>3. profiles' \in [Id -> Seq(P!Record)]
      BY <3>1, <3>2
    <3>. QED  BY <3>2, <3>3
  <2>. QED  BY <1>1, <2>1, <2>2
<1>2. ASSUME NEW id \in Id, NEW c \in P!Content,
             P!RegisterRejected(id, c) \/ P!SupersedeRejected(id, c)
      PROVE  /\ HistoriesTyped' /\ registryGen' = registryGen
             /\ profiles' = [profiles EXCEPT ![id] = P!Retire(@)]
  BY <1>2, RetiredIsUnresolved DEF P!RegisterRejected, P!SupersedeRejected
<1>3. ASSUME NEW id \in Id, P!InvalidateProfile(id) \/ P!PropagateInvalidation(id)
      PROVE  HistoriesTyped' /\ registryGen' = registryGen + 1
  <2>1. CASE P!InvalidateProfile(id)
    BY <2>1, RetiredIsUnresolved DEF P!InvalidateProfile, P!AdvanceGeneration
  <2>2. CASE P!PropagateInvalidation(id)
    BY <2>2, RetiredIsUnresolved DEF P!PropagateInvalidation, P!AdvanceGeneration
  <2>. QED  BY <1>3, <2>1, <2>2
<1>. QED  BY <1>1, <1>2, <1>3 DEF P!ProfileCall

-----------------------------------------------------------------------------
(* What a decision says when it is made.                                   *)

RulesTyped == /\ DOMAIN rules \subseteq RuleId
              /\ rules \in [DOMAIN rules -> RuleRecord]
              /\ ruleGen \in Nat

\* Induction on the subsets of a finite set, by their least counterexamples.
LEMMA LeastSubset ==
    ASSUME NEW D, IsFiniteSet(D), NEW B \in SUBSET SUBSET D, B # {}
    PROVE  \E T \in B : \A U \in B : U \subseteq T => U = T
<1>1. IsWellFoundedOn(StrictSubsetOrdering(D), SUBSET D)
  BY FS_StrictSubsetOrderingWellFounded, FS_FiniteSubsetsOfFinite
<1>2. PICK T \in B : \A U \in B : <<U, T>> \notin StrictSubsetOrdering(D)
  BY <1>1, WFMin
<1>. QED  BY <1>2 DEF StrictSubsetOrdering

\* Two rules with different ids are sorted by priority and id.
LEMMA BeforeOrdersCandidates ==
    ASSUME RulesTyped, NEW scope, NEW l, NEW r
    PROVE  \A a, b \in Candidates(scope, l, r) :
             /\ a.rule_id \in RuleId
             /\ a.rule_id # b.rule_id => Before(a, b) \/ Before(b, a)
             /\ \A c \in Candidates(scope, l, r) :
                  Before(a, b) /\ Before(b, c) => Before(a, c)
<1>1. \A c \in Candidates(scope, l, r) :
        c.rule_id \in RuleId /\ c.rule_id \in Nat /\ c.priority \in Int
  BY RuleConstantsAssumption DEF Candidates, RulesTyped, RuleRecord, Body
<1> DEFINE all == Candidates(scope, l, r)
<1> HIDE DEF all
<1>. QED  BY <1>1 DEF Before

\* The sort of the candidates has a first element: the smallest set of ids
\* whose candidates had none would be one without one of its ids.
LEMMA FirstIsMember ==
    ASSUME RulesTyped, NEW scope, NEW l, NEW r,
           NEW S \in SUBSET Candidates(scope, l, r), S # {}
    PROVE  First(S) \in S
<1> DEFINE Leads(c, I) == \A q \in S : q.rule_id \in I /\ q # c => Before(c, q)
           HasFirst(I) == \E c \in S : c.rule_id \in I /\ Leads(c, I)
           ids == {c.rule_id : c \in S}
           unsorted == {I \in SUBSET ids : I # {} /\ ~HasFirst(I)}
<1>1. \A a, b \in S : a.rule_id = b.rule_id => a = b
  BY DEF Candidates
<1>2. \A a, b \in S : /\ a.rule_id \in RuleId
                      /\ a # b => Before(a, b) \/ Before(b, a)
                      /\ \A c \in S : Before(a, b) /\ Before(b, c) => Before(a, c)
  BY <1>1, BeforeOrdersCandidates
<1>3. IsFiniteSet(ids)
  <2>1. ids \in SUBSET RuleId
    BY <1>2
  <2> HIDE DEF ids
  <2>. QED  BY <2>1, FiniteRuleIdAssumption, FS_Subset
<1>4. ASSUME unsorted # {} PROVE FALSE
  <2>1. unsorted \in SUBSET SUBSET ids
    OBVIOUS
  <2>2. PICK I \in unsorted : \A J \in unsorted : J \subseteq I => J = I
    <3> HIDE DEF unsorted, ids
    <3>. QED  BY <1>3, <1>4, <2>1, LeastSubset
  <2>3. PICK a \in S : a.rule_id \in I
    BY <2>2
  <2> DEFINE rest == I \ {a.rule_id}
  <2>4. CASE rest = {}
    <3>1. Leads(a, I)
      BY <1>1, <2>4
    <3>. QED  BY <2>2, <2>3, <3>1
  <2>5. CASE rest # {}
    <3>1. rest \in SUBSET ids /\ rest \subseteq I /\ rest # I
      BY <2>2, <2>3
    <3>2. HasFirst(rest)
      <4>1. rest \notin unsorted
        <5> HIDE DEF unsorted, rest
        <5>. QED  BY <2>2, <3>1
      <4>. QED  BY <2>5, <3>1, <4>1
    <3>3. PICK b \in S : b.rule_id \in rest /\ Leads(b, rest)
      BY <3>2
    <3>4. a # b
      BY <3>3
    <3>5. \A q \in S : q.rule_id \in I => q = a \/ q.rule_id \in rest
      BY <1>1, <2>3
    <3>6. ~HasFirst(I)
      BY <2>2
    <3> HIDE DEF unsorted, ids
    <3>7. CASE Before(a, b)
      <4>1. Leads(a, I)
        BY <1>2, <2>3, <3>3, <3>5, <3>7
      <4>. QED  BY <2>3, <3>6, <4>1
    <3>8. CASE Before(b, a)
      <4>1. Leads(b, I)
        BY <3>3, <3>5, <3>8
      <4>. QED  BY <3>3, <3>6, <4>1
    <3>. QED  BY <1>2, <2>3, <3>3, <3>4, <3>7, <3>8
  <2>. QED  BY <2>4, <2>5
<1>5. HasFirst(ids)
  BY <1>4
<1>6. \E c \in S : \A q \in S \ {c} : Before(c, q)
  BY <1>5
<1>. QED  BY <1>6 DEF First

\* The rule a decision names is one of the candidates.
LEMMA DecidedRule ==
    ASSUME RulesTyped, NEW scope, NEW l, NEW r, NEW ev,
           Decide(Candidates(scope, l, r), ev).rule_id # 0
    PROVE  LET i == Decide(Candidates(scope, l, r), ev).rule_id
           IN  Held(i) /\ rules[i].active
<1> DEFINE all == Candidates(scope, l, r)
           definite == Definite(all, ev)
<1>1. PICK c \in all : Decide(all, ev).rule_id = c.rule_id
  <2>1. CASE definite # {}
    <3>1. First(definite) \in all
      <4>1. definite \in SUBSET all
        BY DEF Definite
      <4>2. First(definite) \in definite
        BY <2>1, <4>1, FirstIsMember
      <4>. QED  BY <4>1, <4>2
    <3>2. Decide(all, ev).rule_id = First(definite).rule_id
      BY <2>1 DEF Decide
    <3>. QED  BY <3>1, <3>2
  <2>2. CASE definite = {}
    <3>1. Decide(all, ev).rule_id = IF all = {} THEN 0 ELSE First(all).rule_id
      BY <2>2 DEF Decide
    <3>2. all # {}
      BY <3>1
    <3>3. First(all) \in all
      BY <3>2, FirstIsMember
    <3>. QED  BY <3>1, <3>2, <3>3
  <2>. QED  BY <2>1, <2>2
<1>2. c.rule_id \in DOMAIN rules /\ rules[c.rule_id].active
  BY DEF Candidates
<1>. QED  BY <1>1, <1>2 DEF Held

LEMMA DecisionFacts ==
    ASSUME RulesTyped, NEW left, NEW right, NEW scope
    PROVE  LET d == Evaluate(left, right, scope)
           IN  /\ d.left = left /\ d.right = right /\ d.registry_generation = registryGen
               /\ d.decision_id # Zero =>
                    /\ ~Unresolved(left) /\ ~Unresolved(right)
                    /\ d.decision_id = <<left, right, registryGen, scope, d.policy_id>>
               /\ d.rule_id # 0 => /\ Held(d.rule_id) /\ rules[d.rule_id].active
                                   /\ rules[d.rule_id].generation = d.rule_generation
<1> DEFINE l == Resolved(profiles[left])
           r == Resolved(profiles[right])
           d == RuleDecision(left, right, l, r, scope)
<1>1. CASE Evaluate(left, right, scope) = d /\ ~Unresolved(left) /\ ~Unresolved(right)
  <2>1. PICK ev : d.rule_id = Decide(Candidates(scope, l, r), ev).rule_id
    BY DEF RuleDecision
  <2>2. d.rule_id # 0 => Held(d.rule_id) /\ rules[d.rule_id].active
    BY <2>1, DecidedRule
  <2>3. /\ d.left = left /\ d.right = right /\ d.registry_generation = registryGen
        /\ d.decision_id = <<left, right, registryGen, scope, d.policy_id>>
        /\ d.rule_id # 0 => rules[d.rule_id].generation = d.rule_generation
    BY DEF RuleDecision
  <2>. QED  BY <1>1, <2>2, <2>3
<1>2. CASE ~(Evaluate(left, right, scope) = d /\ ~Unresolved(left) /\ ~Unresolved(right))
  <2>1. \/ Evaluate(left, right, scope) = NoDecision(left, right)
        \/ Evaluate(left, right, scope) = [NoDecision(left, right) EXCEPT !.outcome = "Exact"]
    BY <1>2 DEF Evaluate
  <2>. QED  BY <2>1 DEF NoDecision, Zero
<1>. QED  BY <1>1, <1>2

-----------------------------------------------------------------------------
(* What is true of a set of decisions that are still around, each with the *)
(* scope it was asked for: those callers were given, or those of a cache.  *)

Dated(S) == \A x \in S : /\ x = <<x[1], x[2]>>
                         /\ x[2].left \in Id /\ x[2].right \in Id
                         /\ x[2].registry_generation \in Nat
                         /\ x[2].registry_generation <= registryGen

\* The id of a decision the rules gave names the inputs of its digest.
IdsNameInputs(S) ==
    \A x \in S : x[2].decision_id # Zero =>
        x[2].decision_id = <<x[2].left, x[2].right, x[2].registry_generation, x[1],
                             x[2].policy_id>>

\* Within a generation the answer to a question stays what it was, until a
\* rejected registration takes one of the two profiles out of use.
AnswersStand(S) ==
    \A x \in S : x[2].decision_id # Zero /\ x[2].registry_generation = registryGen =>
        \/ Unresolved(x[2].left) \/ Unresolved(x[2].right)
        \/ x[2] = Evaluate(x[2].left, x[2].right, x[1])

Governed(S) ==
    \A x \in S : x[2].registry_generation = registryGen /\ x[2].rule_id # 0 =>
        /\ Held(x[2].rule_id) /\ rules[x[2].rule_id].active
        /\ rules[x[2].rule_id].generation = x[2].rule_generation

Unambiguous(S) ==
    \A x, y \in S : x[2].decision_id = y[2].decision_id /\ x[2].decision_id # Zero => x = y

Sound(S) == /\ Dated(S) /\ IdsNameInputs(S) /\ AnswersStand(S)
            /\ Governed(S) /\ Unambiguous(S)

LEMMA SoundSubset ==
    ASSUME NEW S, Sound(S), NEW T \in SUBSET S
    PROVE  Sound(T)
BY DEF Sound, Dated, IdsNameInputs, AnswersStand, Governed, Unambiguous

\* A mutation that makes a new generation leaves every decision behind.
LEMMA NewGenerationKeepsSound ==
    ASSUME NEW S, Sound(S), registryGen \in Nat, registryGen' = registryGen + 1
    PROVE  Sound(S)'
<1>1. \A x \in S : x[2].registry_generation # registryGen'
  BY DEF Sound, Dated
<1>2. Dated(S)'
  BY DEF Sound, Dated
<1>3. IdsNameInputs(S)' /\ Unambiguous(S)'
  BY DEF Sound, IdsNameInputs, Unambiguous
<1>4. AnswersStand(S)' /\ Governed(S)'
  BY <1>1 DEF AnswersStand, Governed
<1>. QED  BY <1>2, <1>3, <1>4 DEF Sound

\* The answer depends on the two histories, and on what else the generation
\* dates.
LEMMA AnswerFrame ==
    ASSUME NEW left, NEW right, NEW scope,
           UNCHANGED <<rules, policy, registryGen>>,
           profiles'[left] = profiles[left], profiles'[right] = profiles[right]
    PROVE  Evaluate(left, right, scope)' = Evaluate(left, right, scope)
<1> DEFINE l == Resolved(profiles[left])
           r == Resolved(profiles[right])
<1>1. Candidates(scope, l, r)' = Candidates(scope, l, r)
  BY DEF Candidates
<1>2. NoDecision(left, right)' = NoDecision(left, right)
  BY DEF NoDecision
<1>3. RuleDecision(left, right, l, r, scope)' = RuleDecision(left, right, l, r, scope)
  BY <1>1 DEF RuleDecision
<1>4. /\ Unresolved(left)' <=> Unresolved(left)
      /\ Unresolved(right)' <=> Unresolved(right)
  BY DEF Unresolved
<1>. QED  BY <1>2, <1>3, <1>4 DEF Evaluate

\* While the generation stays, a profile may go out of use and no other may
\* change.
LEMMA SameGenerationKeepsSound ==
    ASSUME NEW S, Sound(S), UNCHANGED <<registryGen, rules, policy>>,
           \A id \in Id : profiles'[id] = profiles[id] \/ Unresolved(id)'
    PROVE  Sound(S)'
<1>1. AnswersStand(S)'
  <2> SUFFICES ASSUME NEW x \in S, x[2].decision_id # Zero,
                      x[2].registry_generation = registryGen,
                      ~Unresolved(x[2].left)', ~Unresolved(x[2].right)'
               PROVE  x[2] = Evaluate(x[2].left, x[2].right, x[1])'
    BY DEF AnswersStand
  <2>1. x[2].left \in Id /\ x[2].right \in Id
    BY DEF Sound, Dated
  <2>2. /\ profiles'[x[2].left] = profiles[x[2].left]
        /\ profiles'[x[2].right] = profiles[x[2].right]
    BY <2>1
  <2>3. Evaluate(x[2].left, x[2].right, x[1])' = Evaluate(x[2].left, x[2].right, x[1])
    BY <2>2, AnswerFrame
  <2>4. ~Unresolved(x[2].left) /\ ~Unresolved(x[2].right)
    BY <2>2 DEF Unresolved
  <2>. QED  BY <2>3, <2>4 DEF Sound, AnswersStand
<1>2. Dated(S)' /\ IdsNameInputs(S)' /\ Unambiguous(S)'
  BY DEF Sound, Dated, IdsNameInputs, Unambiguous
<1>3. Governed(S)'
  BY DEF Sound, Governed, Held
<1>. QED  BY <1>1, <1>2, <1>3 DEF Sound

\* An evaluation whose id was given out before gives the same decision again.
LEMMA EvaluationKeepsSound ==
    ASSUME NEW S, Sound(S), HistoriesTyped, RulesTyped, NEW q \in Request
    PROVE  Sound(S \cup {<<q[3], Evaluate(q[1], q[2], q[3])>>})
<1> DEFINE d == Evaluate(q[1], q[2], q[3])
           y == <<q[3], d>>
<1>1. q[1] \in Id /\ q[2] \in Id
  BY RuleConstantsAssumption
<1>2. /\ d.left = q[1] /\ d.right = q[2] /\ d.registry_generation = registryGen
      /\ d.decision_id # Zero =>
            /\ ~Unresolved(q[1]) /\ ~Unresolved(q[2])
            /\ d.decision_id = <<q[1], q[2], registryGen, q[3], d.policy_id>>
      /\ d.rule_id # 0 => /\ Held(d.rule_id) /\ rules[d.rule_id].active
                          /\ rules[d.rule_id].generation = d.rule_generation
  BY DecisionFacts
<1>3. \A x \in S : x[2].decision_id = d.decision_id /\ d.decision_id # Zero => x = y
  <2> SUFFICES ASSUME NEW x \in S, x[2].decision_id = d.decision_id,
                      d.decision_id # Zero
               PROVE  x = y
    OBVIOUS
  <2>1. <<x[2].left, x[2].right, x[2].registry_generation, x[1], x[2].policy_id>>
           = <<q[1], q[2], registryGen, q[3], d.policy_id>>
    BY <1>2 DEF Sound, IdsNameInputs
  <2>2. /\ x[2].left = q[1] /\ x[2].right = q[2] /\ x[1] = q[3]
        /\ x[2].registry_generation = registryGen
    BY <2>1
  <2>3. x[2] = d
    BY <1>2, <2>2 DEF Sound, AnswersStand
  <2>. QED  BY <2>2, <2>3 DEF Sound, Dated
<1>4. d = Evaluate(d.left, d.right, q[3])
  BY <1>2
<1>5. y[1] = q[3] /\ y[2] = d /\ y = <<y[1], y[2]>>
  OBVIOUS
<1> HIDE DEF d, y
<1>6. Dated({y}) /\ IdsNameInputs({y}) /\ AnswersStand({y}) /\ Governed({y})
  BY <1>1, <1>2, <1>4, <1>5 DEF HistoriesTyped, Dated, IdsNameInputs, AnswersStand, Governed
<1>7. Unambiguous(S \cup {y})
  BY <1>3, <1>5 DEF Sound, Unambiguous
<1>8. Dated(S \cup {y}) /\ IdsNameInputs(S \cup {y})
  BY <1>6 DEF Sound, Dated, IdsNameInputs
<1>9. AnswersStand(S \cup {y}) /\ Governed(S \cup {y})
  BY <1>6 DEF Sound, AnswersStand, Governed
<1>. QED  BY <1>7, <1>8, <1>9 DEF Sound, d, y

-----------------------------------------------------------------------------
(* The inductive invariant of the decisions callers were given.            *)

DecisionInv == HistoriesTyped /\ RulesTyped /\ Sound(issued)

LEMMA DecisionInvInit == Init => DecisionInv
<1> SUFFICES ASSUME Init PROVE DecisionInv
  OBVIOUS
<1>1. issued = {} /\ rules = [i \in {} |-> {}] /\ ruleGen = 0
  BY DEF Init
<1>2. profiles = [id \in Id |-> <<>>] /\ registryGen = 0
  BY DEF Init, P!Init
<1>3. HistoriesTyped
  <2>1. <<>> \in Seq(P!Record)
    OBVIOUS
  <2>. QED  BY <1>2, <2>1 DEF HistoriesTyped
<1>4. RulesTyped
  BY <1>1 DEF RulesTyped
<1>. QED  BY <1>1, <1>3, <1>4 DEF DecisionInv, Sound, Dated, IdsNameInputs, AnswersStand,
             Governed, Unambiguous

\* What a step does to the answers: it makes a new generation, or takes a
\* profile out of use, or leaves all they depend on as it was.
LEMMA StepEffect ==
    ASSUME HistoriesTyped, RulesTyped, [Next]_registryVars
    PROVE  /\ HistoriesTyped' /\ RulesTyped'
           /\ \/ registryGen' = registryGen + 1
              \/ /\ UNCHANGED <<registryGen, rules, policy>>
                 /\ \A id \in Id : profiles'[id] = profiles[id] \/ Unresolved(id)'
           /\ \/ UNCHANGED issued
              \/ \E q \in Request : EvaluateAndCache(q[1], q[2], q[3])
<1> DEFINE Effect == /\ HistoriesTyped' /\ RulesTyped'
                     /\ \/ registryGen' = registryGen + 1
                        \/ /\ UNCHANGED <<registryGen, rules, policy>>
                           /\ \A id \in Id : profiles'[id] = profiles[id] \/ Unresolved(id)'
<1>0. ASSUME UNCHANGED <<profiles, registryGen, rules, ruleGen, policy>>
      PROVE  Effect
  BY <1>0 DEF HistoriesTyped, RulesTyped
<1>1. CASE UNCHANGED registryVars
  BY <1>0, <1>1 DEF registryVars, profileVars, ruleVars, decisionVars
<1>2. CASE ProfileStep
  <2>1. P!ProfileCall /\ UNCHANGED <<rules, ruleGen, policy, issued>>
    BY <1>2 DEF ProfileStep, ruleVars, decisionVars
  <2>2. RulesTyped'
    BY <2>1 DEF RulesTyped
  <2>3. /\ HistoriesTyped'
        /\ \/ registryGen' = registryGen + 1
           \/ /\ registryGen' = registryGen
              /\ \E id \in Id : profiles' = [profiles EXCEPT ![id] = P!Retire(@)]
    BY <2>1, ProfileCallEffect
  <2>4. ASSUME NEW id \in Id, profiles' = [profiles EXCEPT ![id] = P!Retire(@)]
        PROVE  \A x \in Id : profiles'[x] = profiles[x] \/ Unresolved(x)'
    <3>1. profiles[id] \in Seq(P!Record) /\ profiles'[id] = P!Retire(profiles[id])
      BY <2>4 DEF HistoriesTyped
    <3>2. Unresolved(id)'
      BY <3>1, RetiredIsUnresolved DEF Unresolved
    <3>. QED  BY <2>4, <3>2 DEF HistoriesTyped
  <2>. QED  BY <2>1, <2>2, <2>3, <2>4
<1>3. ASSUME P!OtherMutation, RulesTyped'
      PROVE  Effect
  BY <1>3 DEF HistoriesTyped, P!OtherMutation, P!AdvanceGeneration
<1>4. ASSUME NEW i \in RuleId, DisableRule(i)
      PROVE  Effect /\ UNCHANGED issued
  <2>1. RulesTyped'
    BY <1>4 DEF RulesTyped, DisableRule, Held, RuleRecord
  <2>. QED  BY <1>3, <1>4, <2>1 DEF DisableRule, decisionVars
<1>5. ASSUME NEW i \in RuleId, NEW body \in RuleBody, NEW generation \in Nat,
             StoreRule(i, body, generation), ruleGen' \in Nat
      PROVE  RulesTyped'
  <2> DEFINE rec == [body |-> body, generation |-> generation, active |-> TRUE]
  <2>1. rec \in RuleRecord
    BY DEF RuleRecord
  <2>2. rules' = Put(i, rec)
    BY <1>5 DEF StoreRule
  <2> HIDE DEF rec
  <2>. QED  BY <1>5, <2>1, <2>2 DEF RulesTyped, Put
<1>6. ruleGen \in Nat /\ \A i \in DOMAIN rules : rules[i].generation \in Nat
  BY DEF RulesTyped, RuleRecord
<1>7. ASSUME NEW i \in RuleId, NEW body \in RuleBody, SupersedeRule(i, body)
      PROVE  Effect /\ UNCHANGED issued
  <2>1. RulesTyped'
    BY <1>5, <1>6, <1>7 DEF SupersedeRule, Held
  <2>. QED  BY <1>3, <1>7, <2>1 DEF SupersedeRule, decisionVars
<1>8. ASSUME NEW i \in RuleId, NEW body \in RuleBody,
             NEW generation \in CallerGeneration, RegisterRule(i, body, generation)
      PROVE  Effect /\ UNCHANGED issued
  <2>1. generation \in Nat
    BY RuleConstantsAssumption
  <2>2. RulesTyped'
    BY <1>5, <1>6, <1>8, <2>1 DEF RegisterRule, Held
  <2>. QED  BY <1>3, <1>8, <2>2 DEF RegisterRule, decisionVars
<1>9. ASSUME NEW p \in Policy, SetPolicy(p)
      PROVE  Effect /\ UNCHANGED issued
  <2>1. RulesTyped'
    BY <1>9 DEF RulesTyped, SetPolicy, ruleVars
  <2>. QED  BY <1>3, <1>9, <2>1 DEF SetPolicy, decisionVars
<1>10. ASSUME NEW e \in EvidenceId, NEW generation \in SourceGeneration,
              RegisterEvidence(e, generation)
       PROVE  Effect /\ UNCHANGED issued
  <2>1. RulesTyped'
    BY <1>10 DEF RulesTyped, RegisterEvidence, ruleVars
  <2>. QED  BY <1>3, <1>10, <2>1 DEF RegisterEvidence, decisionVars
<1>11. ASSUME NEW q \in Request, EvaluateAndCache(q[1], q[2], q[3])
       PROVE  Effect
  BY <1>0, <1>11 DEF EvaluateAndCache, profileVars, ruleVars
<1>12. UNCHANGED registryVars => UNCHANGED issued
  BY DEF registryVars, decisionVars
<1>13. ProfileStep => UNCHANGED issued
  BY DEF ProfileStep, decisionVars
<1>. QED  BY <1>1, <1>2, <1>4, <1>7, <1>8, <1>9, <1>10, <1>11, <1>12, <1>13 DEF Next

\* A set of decisions stays sound whatever step the registry takes.
LEMMA SoundStep ==
    ASSUME NEW S, Sound(S), HistoriesTyped, RulesTyped, [Next]_registryVars
    PROVE  Sound(S)'
<1>1. CASE registryGen' = registryGen + 1
  BY <1>1, NewGenerationKeepsSound DEF HistoriesTyped
<1>2. CASE /\ UNCHANGED <<registryGen, rules, policy>>
           /\ \A id \in Id : profiles'[id] = profiles[id] \/ Unresolved(id)'
  BY <1>2, SameGenerationKeepsSound
<1>. QED  BY <1>1, <1>2, StepEffect

LEMMA DecisionInvStep ==
    ASSUME DecisionInv, [Next]_registryVars
    PROVE  DecisionInv'
<1>1. HistoriesTyped /\ RulesTyped /\ HistoriesTyped' /\ RulesTyped'
  BY StepEffect DEF DecisionInv
<1>2. PICK S : S = issued
  OBVIOUS
<1>3. Sound(S)
  BY <1>2 DEF DecisionInv
<1>4. CASE UNCHANGED issued
  BY <1>1, <1>2, <1>3, <1>4, SoundStep DEF DecisionInv
<1>5. ASSUME NEW q \in Request, EvaluateAndCache(q[1], q[2], q[3])
      PROVE  DecisionInv'
  <2>1. PICK T : T = S \cup {<<q[3], Evaluate(q[1], q[2], q[3])>>}
    OBVIOUS
  <2>2. Sound(T)
    BY <1>1, <1>3, <2>1, EvaluationKeepsSound
  <2>3. Sound(T)'
    BY <1>1, <2>2, SoundStep
  <2>4. issued' = T
    BY <1>2, <1>5, <2>1 DEF EvaluateAndCache
  <2>. QED  BY <1>1, <2>3, <2>4 DEF DecisionInv
<1>. QED  BY <1>4, <1>5, StepEffect, <1>1

\* An id the registry derives from the pair, the generation, the scope and the
\* policy names one decision, for every library of rules and every history.
THEOREM DecisionIdsAreUnambiguous == Spec => []DecisionIdDeterminesDecision
<1>1. DecisionInv => DecisionIdDeterminesDecision
  BY DEF DecisionInv, Sound, Unambiguous, DecisionIdDeterminesDecision
<1>. QED  BY <1>1, DecisionInvInit, DecisionInvStep, PTL DEF Spec

\* No decision dated by the current generation rests on a rule that has been
\* replaced or disabled since.
THEOREM CurrentRulesGovern == Spec => []GovernedByCurrentRule
<1>1. DecisionInv => GovernedByCurrentRule
  BY DEF DecisionInv, Sound, Governed, GovernedByCurrentRule
<1>. QED  BY <1>1, DecisionInvInit, DecisionInvStep, PTL DEF Spec
=============================================================================
