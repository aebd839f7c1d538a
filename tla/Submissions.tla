---------------------------- MODULE Submissions ----------------------------
(***************************************************************************)
(* The rules callers give the registry, and what it holds of them: rules   *)
(* that are submitted in process, or over the wire                         *)
(* (src/compat/net.cpp:138-153, 221-240, 401-423), and that are written to *)
(* a file and read again (src/compat/registry.cpp:765-775, 801-820,        *)
(* 895-948, 1021-1023).                                                    *)
(*                                                                         *)
(* The rules are evaluated on payloads: this module puts the constraints   *)
(* of Constraints.tla, which may raise, under the rules of                 *)
(* RuleEvaluation.tla, which here name the scope and the kinds they apply  *)
(* to.  What decides nothing (domain, generation, adaptations, expected2,  *)
(* note, provenance) is left out, and so is the tag it has in a record.    *)
(*                                                                         *)
(* A record is a function from its tags to <<kind, content>>.  An          *)
(* enumerator stands for its number, and a list that is a set in           *)
(* RuleEvaluation.tla is one in the record.                                *)
(***************************************************************************)
EXTENDS Integers, Sequences, FiniteSets

CONSTANTS Library,    \* the rules callers submit
          Request,    \* pairs whose fingerprints differ, their kinds and a scope
          MaxRules,   \* bound on the rules held
          StartsWith, MaxUint, Mantissa, Double   \* of Constraints.tla

VARIABLES rules,   \* rules_
          asked    \* what the last call on an id asked for, and the rule it sent

submissionVars == <<rules, asked>>

C == INSTANCE Constraints
        WITH LeftPayload <- {}, RightPayload <- {}, ConstraintSet <- {},
             left <- <<>>, right <- <<>>

E == INSTANCE RuleEvaluation WITH Constraint <- {}

\* One kind of profile, or any: std::optional<ProfileKind>.
AtMostOne(kinds) == \A k, l \in kinds : k = l

-----------------------------------------------------------------------------
(* Writing and reading records.                                            *)

\* Canon::field and the test of its kind: else what was there remains.
Read(x, tag, kind, default) ==
    IF tag \in DOMAIN x /\ x[tag][1] = kind THEN x[tag][2] ELSE default

Optional(x, tag) == IF tag \in DOMAIN x /\ x[tag][1] = "Uint" THEN {x[tag][2]} ELSE {}

Null == <<"Null", 0>>

EncConstraint(c) ==
    [tag \in {1, 2, 3, 4, 6} |->
        CASE tag = 1 -> <<"Uint", c.op>>
          [] tag = 2 -> <<"Str", c.field>>
          [] tag = 3 -> <<"Str", c.right_field>>
          [] tag = 4 -> c.expected
          [] tag = 6 -> <<"Sequence", c.set>>]

DecConstraint(x) ==
    [op |-> Read(x, 1, "Uint", "Eq"),
     field |-> Read(x, 2, "Str", <<>>),
     right_field |-> Read(x, 3, "Str", <<>>),
     expected |-> IF 4 \in DOMAIN x THEN x[4] ELSE Null,
     set |-> Read(x, 6, "Sequence", {})]

EncRule(r, active) ==
    [tag \in {1, 4, 5, 6, 9, 10, 11, 12, 13, 14}
             \cup {7 : k \in r.left_kind} \cup {8 : k \in r.right_kind} |->
        CASE tag = 1 -> <<"Uuid", r.rule_id>>
          [] tag = 4 -> <<"Str", r.scope>>
          [] tag = 5 -> <<"Int", r.priority>>
          [] tag = 6 -> <<"Bool", active>>
          [] tag = 7 -> <<"Uint", CHOOSE k \in r.left_kind : TRUE>>
          [] tag = 8 -> <<"Uint", CHOOSE k \in r.right_kind : TRUE>>
          [] tag = 9 -> <<"Uint", r.kind>>
          [] tag = 10 -> <<"Uint", r.outcome>>
          [] tag = 11 -> <<"Sequence", {EncConstraint(c) : c \in r.required}>>
          [] tag = 12 -> <<"Sequence", {EncConstraint(c) : c \in r.any_of}>>
          [] tag = 13 -> <<"Sequence", [i \in DOMAIN r.incompatible_with |->
                                           EncConstraint(r.incompatible_with[i])]>>
          [] tag = 14 -> <<"Sequence", {EncConstraint(c) : c \in r.conditions}>>]

\* Fault: the flag is read as another kind, so that a rule is always active.
DecActiveAlways(x) == Read(x, 6, "Uint", TRUE)

DecActive(x) == Read(x, 6, "Bool", TRUE)

\* dec_rule, into a RuleRecord with the defaults of its structure.
DecRule(x) ==
    LET veto == Read(x, 13, "Sequence", <<>>)
        Constraints(tag) == {DecConstraint(y) : y \in Read(x, tag, "Sequence", {})}
    IN  [rule |-> [rule_id |-> Read(x, 1, "Uuid", 0),
                   scope |-> Read(x, 4, "Str", ""),
                   priority |-> Read(x, 5, "Int", 0),
                   left_kind |-> Optional(x, 7),
                   right_kind |-> Optional(x, 8),
                   kind |-> Read(x, 9, "Uint", "Default"),
                   outcome |-> Read(x, 10, "Uint", "Compatible"),
                   required |-> Constraints(11),
                   any_of |-> Constraints(12),
                   incompatible_with |-> [i \in DOMAIN veto |-> DecConstraint(veto[i])],
                   conditions |-> Constraints(14)],
         active |-> DecActive(x)]

-----------------------------------------------------------------------------
(* The message that registers a rule, which has tags of its own.           *)

\* Fault: the field of the other side is not sent.
EncConstraintWireOneSided(c) ==
    [tag \in {1, 2, 4} |->
        CASE tag = 1 -> <<"Uint", c.op>>
          [] tag = 2 -> <<"Str", c.field>>
          [] tag = 4 -> c.expected]

\* enc_constraint_wire: the set is not sent.
EncConstraintWire(c) ==
    [tag \in 1 .. 4 |->
        CASE tag = 1 -> <<"Uint", c.op>>
          [] tag = 2 -> <<"Str", c.field>>
          [] tag = 3 -> <<"Str", c.right_field>>
          [] tag = 4 -> c.expected]

DecConstraintWire(x) ==
    [op |-> Read(x, 1, "Uint", "Eq"),
     field |-> Read(x, 2, "Str", <<>>),
     right_field |-> Read(x, 3, "Str", <<>>),
     expected |-> IF 4 \in DOMAIN x THEN x[4] ELSE Null,
     set |-> {}]

\* RegistryClient::register_rule: kind, alternatives and conditions are not
\* sent.
RuleMessage(r) ==
    [tag \in {4, 6, 8, 9, 10, 11}
             \cup {12 : k \in r.left_kind} \cup {13 : k \in r.right_kind} |->
        CASE tag = 4 -> <<"Uuid", r.rule_id>>
          [] tag = 6 -> <<"Str", r.scope>>
          [] tag = 8 -> <<"Int", r.priority>>
          [] tag = 9 -> <<"Uint", r.outcome>>
          [] tag = 10 -> <<"Sequence", {EncConstraintWire(c) : c \in r.required}>>
          [] tag = 11 -> <<"Sequence", [i \in DOMAIN r.incompatible_with |->
                                           EncConstraintWire(r.incompatible_with[i])]>>
          [] tag = 12 -> <<"Uint", CHOOSE k \in r.left_kind : TRUE>>
          [] tag = 13 -> <<"Uint", CHOOSE k \in r.right_kind : TRUE>>]

\* What the coordinator makes of the message.
RuleReceived(x) ==
    LET veto == Read(x, 11, "Sequence", <<>>)
    IN  [rule_id |-> Read(x, 4, "Uuid", 0),
         scope |-> Read(x, 6, "Str", ""),
         priority |-> Read(x, 8, "Int", 0),
         left_kind |-> Optional(x, 12),
         right_kind |-> Optional(x, 13),
         kind |-> "Default",
         outcome |-> Read(x, 9, "Uint", "Compatible"),
         required |-> {DecConstraintWire(y) : y \in Read(x, 10, "Sequence", {})},
         any_of |-> {},
         incompatible_with |-> [i \in DOMAIN veto |-> DecConstraintWire(veto[i])],
         conditions |-> {}]

-----------------------------------------------------------------------------
(* The evaluation of rules on payloads.                                    *)

\* A rule of Library has at most one alternative: with more, which one
\* raises first depends on their order, which RuleEvaluation.tla does not
\* keep.
ConstraintsOf(r) ==
    r.required \cup r.any_of \cup r.conditions
        \cup {r.incompatible_with[i] : i \in DOMAIN r.incompatible_with}

\* The constraints callers use, and the form of their rules.
Clause == UNION {ConstraintsOf(r) : r \in Library}

LibraryTyped ==
    /\ Clause \subseteq [op : C!PredOp, field : Seq(STRING), right_field : Seq(STRING),
                         expected : {c.expected : c \in Clause},
                         set : SUBSET UNION {c.set : c \in Clause}]
    /\ Library \subseteq [rule_id : Nat \ {0}, scope : STRING, priority : Int,
                          left_kind : SUBSET STRING, right_kind : SUBSET STRING,
                          kind : E!RuleKind, outcome : E!Outcome,
                          required : SUBSET Clause, any_of : SUBSET Clause,
                          incompatible_with : Seq(Clause), conditions : SUBSET Clause]
    /\ \A r \in Library : AtMostOne(r.left_kind) /\ AtMostOne(r.right_kind)

VerdictsOf(r, q) == [c \in ConstraintsOf(r) |-> C!Verdict(c, q.left, q.right)]

\* eval_rule comes to a constraint that raises.
Raises(r, q) ==
    LET ev   == VerdictsOf(r, q)
        veto == r.incompatible_with
        Bad(S) == E!With("raises", S, ev) # {}
    IN  \/ \E i \in DOMAIN veto : /\ ev[veto[i]] = "raises"
                                  /\ \A j \in 1 .. i - 1 : ev[veto[j]] # "holds"
        \/ /\ ~E!VetoHolds(r, ev)
           /\ \/ Bad(r.required)
              \/ E!RequiredHold(r, ev) /\ Bad(r.any_of)
              \/ /\ E!RequiredHold(r, ev) /\ E!AlternativeHolds(r, ev)
                 /\ r.kind = "Conditional" /\ Bad(r.conditions)

\* What a rule yields: nothing when it raises.
Yields(r, q) ==
    IF Raises(r, q) THEN {} ELSE {E!EvalRule(r, VerdictsOf(r, q))}

\* The candidates of evaluate_locked.
Applies(r, q) ==
    /\ r.scope = q.scope
    /\ r.left_kind \subseteq {q.left_kind} /\ r.right_kind \subseteq {q.right_kind}

\* evaluate_locked evaluates every candidate before it chooses; held are
\* RuleRecords.
Decision(held, q) ==
    LET candidates == {rr.rule : rr \in {h \in held : h.active /\ Applies(h.rule, q)}}
    IN  IF \E r \in candidates : Raises(r, q) THEN {}
        ELSE {E!Decide(candidates, [c \in UNION {ConstraintsOf(r) : r \in candidates}
                                      |-> C!Verdict(c, q.left, q.right)])}

-----------------------------------------------------------------------------

NoRules == [i \in {} |-> {}]

Init == rules = NoRules /\ asked = NoRules

\* f with a value for i, or another one.
Extended(f, i, v) == [j \in DOMAIN f \cup {i} |-> IF j = i THEN v ELSE f[j]]

\* register_rule.
Hold(r, sent, remote) ==
    /\ Cardinality(DOMAIN rules \cup {r.rule_id}) <= MaxRules
    /\ rules' = Extended(rules, r.rule_id, [rule |-> r, active |-> TRUE])
    /\ asked' = Extended(asked, r.rule_id,
                         [rule |-> r, active |-> TRUE, sent |-> sent, remote |-> remote])

RegisterRule(r) == Hold(r, r, FALSE)

RegisterRuleRemotely(r) == Hold(RuleReceived(RuleMessage(r)), r, TRUE)

\* The record stays.
DisableRule(i) ==
    /\ rules' = [rules EXCEPT ![i].active = FALSE]
    /\ asked' = [asked EXCEPT ![i].active = FALSE]

\* A RuleRecord that was saved and is loaded.
Reloaded(rr) == DecRule(EncRule(rr.rule, rr.active))

\* Each record is loaded under the id that is read from it.
SaveAndLoad ==
    /\ LET loaded == {Reloaded(rules[i]) : i \in DOMAIN rules}
       IN  rules' = [i \in {rr.rule.rule_id : rr \in loaded} |->
                        CHOOSE rr \in loaded : rr.rule.rule_id = i]
    /\ UNCHANGED asked

Next == \/ \E r \in Library : RegisterRule(r) \/ RegisterRuleRemotely(r)
        \/ \E i \in DOMAIN rules : DisableRule(i)
        \/ SaveAndLoad

Spec == Init /\ [][Next]_submissionVars

-----------------------------------------------------------------------------
(* Properties.                                                             *)

\* After any number of restarts the rules decide every request as those that
\* were registered, and not disabled, would: the conversions lose none that
\* applies, bring none back, and change none.
RestartsKeepDecisions ==
    \A q \in Request :
        Decision({rules[i] : i \in DOMAIN rules}, q)
            = Decision({[rule |-> asked[i].rule, active |-> asked[i].active] :
                            i \in DOMAIN asked}, q)

\* What the wire carries in full.
Plain(r) ==
    /\ r.kind = "Default" /\ r.any_of = {}
    /\ \A c \in ConstraintsOf(r) : c.set = {}

\* A rule of plain constraints has over the wire the place among the rules
\* that it has in process, applies to the same requests, and yields the same
\* for each, whether it raises, lacks evidence or gives an outcome.
WireKeepsPlainRules ==
    \A i \in DOMAIN asked :
        LET sent == asked[i].sent
            held == rules[i].rule
        IN  asked[i].remote /\ Plain(sent) =>
                /\ held.rule_id = sent.rule_id /\ held.priority = sent.priority
                /\ \A q \in Request :
                      /\ Applies(held, q) <=> Applies(sent, q)
                      /\ Yields(held, q) = Yields(sent, q)

=============================================================================
