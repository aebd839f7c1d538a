---------------------------- MODULE Constraints ----------------------------
(***************************************************************************)
(* The constraints of the rules: how one reads the payloads of a pair and  *)
(* what it answers, and the edits of a counterfactual query                *)
(* (src/compat/rule.cpp:139-319, src/compat/registry.cpp:339-343 and       *)
(* 618-642).  RuleEvaluation.tla takes the verdicts from here.             *)
(*                                                                         *)
(* A payload is a function on the fields it has; tag_for, which maps the   *)
(* names of a kind to tags, is the identity, and a name a kind does not    *)
(* know is one its payloads never have.  A value is <<kind, content>>.  A  *)
(* string is the sequence of the numbers between its dots, with letters    *)
(* dropped, as parse_ver reads it; which strings begin with which is given *)
(* by StartsWith.  Byte strings are strings, and a Float, which is compared *)
(* as the double it is, is left out.  A path is <<field>>, or              *)
(* <<field, subfield>>.                                                    *)
(***************************************************************************)
EXTENDS Integers, SequencesExt

CONSTANTS LeftPayload, RightPayload,   \* the payloads callers register
          ConstraintSet,               \* the constraints of the rules
          StartsWith,                  \* pairs of strings
          MaxUint,                     \* the largest std::uint64_t
          Mantissa,                    \* the doubles are exact up to here
          Double                       \* the double a std::uint64_t is cast to

PredOp == {"Eq", "Ne", "InSet", "Min", "Max", "VersionLt", "VersionLe", "VersionGt",
           "VersionGe", "ArchFamily", "FeatureReq", "Truthy"}

VARIABLES left, right   \* the payloads find_profile resolves the pair to

payloads == <<left, right>>

-----------------------------------------------------------------------------
(* Values.                                                                 *)

KindOf(v) == v[1]
Content(v) == v[2]

FieldOf(record, f) == IF f \in DOMAIN record THEN {record[f]} ELSE {}

\* resolve_profile_field: at most one value.
Resolve(payload, path) ==
    IF Len(path) = 1 THEN FieldOf(payload, path[1])
    ELSE UNION {FieldOf(Content(v), path[2]) :
                   v \in {w \in FieldOf(payload, path[1]) : KindOf(w) = "Record"}}

\* What a value of a kind can hold: the signed numbers have the width of the
\* unsigned ones.
Typed(v) ==
    /\ KindOf(v) = "Uint" => Content(v) \in 0 .. MaxUint
    /\ KindOf(v) = "Int" =>
          Content(v) \in Int /\ -(MaxUint + 1) <= 2 * Content(v) /\ 2 * Content(v) <= MaxUint
    /\ KindOf(v) = "Str" => Content(v) \in Seq(Nat)

\* A payload has finitely many fields.
PayloadsAreRecords ==
    \A p \in LeftPayload \cup RightPayload :
        IsFiniteSet(DOMAIN p) /\ p = [f \in DOMAIN p |-> p[f]]

Apart(m, n) == IF m <= n THEN n - m ELSE m - n

\* A cast takes a number to a double that is nearest to it, whichever way a
\* tie goes, and the numbers up to Mantissa to themselves.
CastsRound ==
    LET Doubles == {Double[n] : n \in 0 .. MaxUint}
    IN  /\ MaxUint \in Nat /\ Mantissa \in Nat /\ 2 * Mantissa <= MaxUint
        /\ Double \in [0 .. MaxUint -> Nat]
        /\ \A n \in 0 .. MaxUint : \A d \in Doubles : Apart(n, Double[n]) <= Apart(n, d)
        /\ \A n \in 0 .. MaxUint : n <= Mantissa => Double[n] = n

\* What callers register, and the bounds, are values and numbers.
ConstantsTyped ==
    /\ CastsRound
    /\ \A c \in ConstraintSet : Typed(c.expected)
    /\ \A p \in LeftPayload \cup RightPayload : \A f \in DOMAIN p :
          /\ Typed(p[f])
          /\ KindOf(p[f]) = "Record" =>
                \A g \in DOMAIN Content(p[f]) : Typed(Content(p[f])[g])

CanonEqual(a, b) == KindOf(a) = KindOf(b) /\ Content(a) = Content(b)

\* parse_num: a number that does not fit leaves the 0 that was there.
ParseNum(n) == IF n <= MaxUint THEN n ELSE 0

\* A part of a dotted version, 0 where there is none.
Part(s, i) == IF i <= Len(s) THEN s[i] ELSE 0

\* Fault: the minor version is read after the last dot.
VersionLastPart(v) ==
    IF KindOf(v) = "Uint" THEN <<Content(v), 0>>
    ELSE <<ParseNum(Part(Content(v), 1)),
           IF Len(Content(v)) > 1 THEN ParseNum(Last(Content(v))) ELSE 0>>

\* parse_ver: major and minor, whatever follows is ignored.
Version(v) ==
    IF KindOf(v) = "Uint" THEN <<Content(v), 0>>
    ELSE <<ParseNum(Part(Content(v), 1)), ParseNum(Part(Content(v), 2))>>

OlderVersion(a, b) == \/ Version(a)[1] < Version(b)[1]
                      \/ Version(a)[1] = Version(b)[1] /\ Version(a)[2] < Version(b)[2]

\* The conditional that picks as_uint() or as_int() is a std::uint64_t: a
\* negative number is read modulo 2^64.
Unsigned(v) == IF Content(v) < 0 THEN MaxUint + 1 + Content(v) ELSE Content(v)

IsTruthy(v) == \/ KindOf(v) = "Bool" /\ Content(v)
               \/ KindOf(v) = "Uint" /\ Content(v) # 0

InFamily(v, family) ==
    /\ KindOf(v) = "Str" /\ KindOf(family) = "Str"
    /\ \/ Content(v) = Content(family)
       \/ <<Content(v), Content(family)>> \in StartsWith

-----------------------------------------------------------------------------
(* Constraint::evaluate.                                                   *)

Versioned == {"VersionLt", "VersionLe", "VersionGt", "VersionGe"}

Ranged == {"Min", "Max"}

\* The value the field is compared with.
Compared(c, r) ==
    IF c.right_field # <<>> /\ c.op \in {"Eq", "Ne"} \cup Versioned
    THEN Resolve(r, c.right_field) ELSE {c.expected}

\* Reading a value as something it is not raises CanonError.
Readable(c, a, b) ==
    /\ c.op \in Versioned => {KindOf(a), KindOf(b)} \subseteq {"Uint", "Str"}
    /\ c.op \in Ranged => {KindOf(a), KindOf(b)} \subseteq {"Uint", "Int"}

\* Fault: the numbers are compared with their signs.
RangeSatisfiedSigned(c, a, b) ==
    IF c.op = "Min" THEN Content(a) >= Content(b) ELSE Content(a) <= Content(b)

RangeSatisfied(c, a, b) ==
    IF c.op = "Min" THEN Double[Unsigned(a)] >= Double[Unsigned(b)]
    ELSE Double[Unsigned(a)] <= Double[Unsigned(b)]

Satisfied(c, a, b) ==
    CASE c.op = "Eq" -> CanonEqual(a, b)
      [] c.op = "Ne" -> ~CanonEqual(a, b)
      [] c.op = "InSet" -> \E v \in c.set : CanonEqual(a, v)
      [] c.op \in Ranged -> RangeSatisfied(c, a, b)
      [] c.op = "VersionLt" -> OlderVersion(a, b)
      [] c.op = "VersionLe" -> ~OlderVersion(b, a)
      [] c.op = "VersionGt" -> OlderVersion(b, a)
      [] c.op = "VersionGe" -> ~OlderVersion(a, b)
      [] c.op = "ArchFamily" -> \E v \in c.set : InFamily(a, v)
      [] c.op \in {"FeatureReq", "Truthy"} -> IsTruthy(a)

Evaluate(c, l, r) ==
    IF Resolve(l, c.field) = {} \/ Compared(c, r) = {} THEN "fails"
    ELSE LET a == CHOOSE v \in Resolve(l, c.field) : TRUE
             b == CHOOSE v \in Compared(c, r) : TRUE
         IN  IF ~Readable(c, a, b) THEN "raises"
             ELSE IF Satisfied(c, a, b) THEN "holds" ELSE "fails"

\* Fault: only the left payload is asked.
ConstraintKnownLeft(c, l, r) == Resolve(l, c.field) # {}

ConstraintKnown(c, l, r) ==
    /\ Resolve(l, c.field) # {}
    /\ c.right_field # <<>> => Resolve(r, c.right_field) # {}

\* What eval_rule learns of a constraint.
Verdict(c, l, r) == IF ConstraintKnown(c, l, r) THEN Evaluate(c, l, r) ELSE "unknown"

-----------------------------------------------------------------------------
(* counterfactual_pair: an edit is [field |-> path, value |-> value].      *)

\* apply_profile_field_edit replaces the whole top-level field.
ApplyEdit(payload, edit) == [payload EXCEPT ![edit.field[1]] = edit.value]

\* Fault: the side is chosen by what the left has.
EditLeftFirst(sides, edit) ==
    CASE Resolve(left, edit.field) # {} -> <<ApplyEdit(sides[1], edit), sides[2]>>
      [] Resolve(left, edit.field) = {} /\ Resolve(sides[2], edit.field) # {} ->
             <<sides[1], ApplyEdit(sides[2], edit)>>
      [] OTHER -> sides

\* An edit goes to the right if the right payload has the field, else to the
\* left; when that side lacks the field it is passed over.
EditPair(sides, edit) ==
    CASE Resolve(right, edit.field) # {} /\ Resolve(sides[2], edit.field) # {} ->
             <<sides[1], ApplyEdit(sides[2], edit)>>
      [] Resolve(right, edit.field) = {} /\ Resolve(sides[1], edit.field) # {} ->
             <<ApplyEdit(sides[1], edit), sides[2]>>
      [] OTHER -> sides

\* The two sides after each of the edits.
AfterEdits(edits) ==
    LET after[n \in 0 .. Len(edits)] ==
            IF n = 0 THEN payloads ELSE EditPair(after[n - 1], edits[n])
    IN  after

\* The payloads the rules are evaluated on.
Counterfactual(edits) == AfterEdits(edits)[Len(edits)]

-----------------------------------------------------------------------------

Init == left \in LeftPayload /\ right \in RightPayload

\* supersede_profile on one side.
SupersedeLeft(w) == left # w /\ left' = w /\ UNCHANGED right
SupersedeRight(w) == right # w /\ right' = w /\ UNCHANGED left

Next == \/ \E w \in LeftPayload : SupersedeLeft(w)
        \/ \E w \in RightPayload : SupersedeRight(w)

Spec == Init /\ [][Next]_payloads

-----------------------------------------------------------------------------
(* Properties.  The last ones are of steps.                                *)

\* w has the fields of p, unchanged, and may have others.
SaysMore(w, p) == DOMAIN p \subseteq DOMAIN w /\ \A f \in DOMAIN p : w[f] = p[f]

\* A field that arrives changes no verdict but an unknown one: what
\* PairEvaluation.tla calls more evidence is what a fuller payload brings.
ArrivingFieldsKeepVerdicts ==
    SaysMore(left', left) /\ SaysMore(right', right)
        => \A c \in ConstraintSet :
              Verdict(c, left, right) # "unknown"
                  => Verdict(c, left', right') = Verdict(c, left, right)

\* The order of dotted versions, part by part.
Precedes(s, t) ==
    \E i \in 1 .. Len(s) + Len(t) :
        Part(s, i) < Part(t, i) /\ \A j \in 1 .. i - 1 : Part(s, j) = Part(t, j)

Dotted(v) == IF KindOf(v) = "Str" THEN Content(v) ELSE <<Content(v)>>

\* The parts that are read fit a number.
Fits(s) == Part(s, 1) <= MaxUint /\ Part(s, 2) <= MaxUint

\* A version is never taken for a later one than a version that follows it and
\* fits, although what is behind the minor version is not read, strings are
\* compared with plain numbers, and a part of the earlier one that does not
\* fit is read as 0.
VersionsNeverInverted ==
    \A c \in {d \in ConstraintSet : d.op \in Versioned} :
        \A a \in Resolve(left, c.field), b \in Compared(c, right) :
            Readable(c, a, b) =>
                /\ Fits(Dotted(b)) /\ ~Precedes(Dotted(b), Dotted(a)) =>
                      /\ c.op = "VersionLe" => Satisfied(c, a, b)
                      /\ c.op = "VersionGt" => ~Satisfied(c, a, b)
                /\ Fits(Dotted(a)) /\ ~Precedes(Dotted(a), Dotted(b)) =>
                      /\ c.op = "VersionGe" => Satisfied(c, a, b)
                      /\ c.op = "VersionLt" => ~Satisfied(c, a, b)

\* A version whose major number does not fit is not refused: rules take it for
\* one that is older than every version with a major number.
OverflowReadsAsOldest ==
    \A c \in {d \in ConstraintSet : d.op \in Versioned} :
        \A a \in Resolve(left, c.field), b \in Compared(c, right) :
            /\ Readable(c, a, b)
            /\ Part(Dotted(a), 1) > MaxUint /\ Part(Dotted(b), 1) \in 1 .. MaxUint
            => (Satisfied(c, a, b) <=> c.op \in {"VersionLt", "VersionLe"})

\* Of two numbers of one sign, one within a bound is never rejected, although
\* both are compared as doubles, and one beyond it is, as long as the doubles
\* are exact.  Of two signs, the negative number is the greater: a negative
\* value meets a minimum and exceeds a maximum.
RangesAdmitTheirBounds ==
    \A c \in {d \in ConstraintSet : d.op \in Ranged} :
        \A a \in {v \in Resolve(left, c.field) : Readable(c, v, c.expected)} :
            LET n == Content(a)
                bound == Content(c.expected)
                within == IF c.op = "Min" THEN n >= bound ELSE n <= bound
                satisfied == Satisfied(c, a, c.expected)
            IN  /\ (n < 0 <=> bound < 0) /\ within => satisfied
                /\ {n, bound} \subseteq 0 .. Mantissa => satisfied = within
                /\ n < 0 /\ bound \in 0 .. Mantissa - 1 => (satisfied <=> c.op = "Min")
                /\ bound < 0 /\ n \in 0 .. Mantissa - 1 => (satisfied <=> c.op = "Max")

\* The predicates on versions and numbers answer in the order of the numbers
\* as the code reads them (Constraint::evaluate).
ComparisonsKeepOrder ==
    VersionsNeverInverted /\ OverflowReadsAsOldest /\ RangesAdmitTheirBounds

Edits(old, new) ==
    {[field |-> <<f>>, value |-> new[f]] : f \in {g \in DOMAIN old : new[g] # old[g]}}

\* A counterfactual query whose edits name fields the profile has, and of the
\* left only fields the right lacks, evaluates the payloads that a supersede
\* with these fields would leave.
CounterfactualForetells ==
    /\ DOMAIN left' = DOMAIN left /\ DOMAIN right' = DOMAIN right
    /\ \A e \in Edits(left, left') : e.field[1] \notin DOMAIN right
    => \A edits \in SetToSeqs(Edits(left, left') \cup Edits(right, right')) :
          Counterfactual(edits) = payloads'
=============================================================================
