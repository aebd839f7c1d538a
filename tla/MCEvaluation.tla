---------------------------- MODULE MCEvaluation ----------------------------
(***************************************************************************)
(* An instance of Evaluation for TLC.                                      *)
(***************************************************************************)
EXTENDS MCPairEvaluation, Evaluation, Casts

Str(parts) == <<"Str", parts>>
Uint(n) == <<"Uint", n>>
Signed(n) == <<"Int", n>>
Flag(b) == <<"Bool", b>>

\* The payloads that have some of two fields, with values from the sets.
PayloadsOf(f1, S1, f2, S2) ==
    UNION {{p \in [D -> S1 \cup S2] : /\ f1 \in D => p[f1] \in S1
                                      /\ f2 \in D => p[f2] \in S2} :
              D \in SUBSET {f1, f2}}

-----------------------------------------------------------------------------
(* Constraints: a kernel on the left and a device on the right.  Both have *)
(* a version cc; the left has a number mem, the right a set of             *)
(* capabilities caps.                                                      *)

Versions == {Str(<<>>), Str(<<1, 2, 5>>), Str(<<1, 3>>), Str(<<1, 10>>), Str(<<100001>>),
             Uint(2), Flag(TRUE)}

Numbers == {Uint(0), Uint(4), Uint(5), Signed(-1), Str(<<4>>)}

MachineCasts == CastsUpTo(MaxUint, Mantissa)

FeatureSets == {<<"Record", [f \in S |-> Uint(4)]>> : S \in SUBSET {"graph", "smem"}}

Kernels == PayloadsOf("cc", Versions, "mem", Numbers)

Devices == PayloadsOf("cc", Versions, "caps", FeatureSets)

Ask == [op |-> "Eq", field |-> <<"cc">>, right_field |-> <<>>, expected |-> Uint(2),
        set |-> {Uint(2), Str(<<1>>)}]

\* Every operator, on one side and across the two.
Asked == {[Ask EXCEPT !.op = o] : o \in {"Eq", "Ne", "InSet", "ArchFamily", "VersionGe"}}
         \cup {[Ask EXCEPT !.op = o, !.right_field = <<"cc">>] :
                  o \in {"Eq", "Ne", "VersionLt", "VersionLe", "VersionGt", "VersionGe"}}
         \cup {[Ask EXCEPT !.op = o, !.field = <<"mem">>, !.expected = n] :
                  o \in {"Min", "Max", "Truthy"}, n \in {Uint(3), Uint(5), Signed(4), Signed(-1)}}
         \cup {[Ask EXCEPT !.op = "Eq", !.field = <<"mem">>, !.right_field = <<"caps", "smem">>],
               [Ask EXCEPT !.op = "Max", !.field = <<"mem">>, !.right_field = <<"caps", "graph">>]}

Prefixes == {<<<<1, 3>>, <<1>>>>, <<<<1, 2, 5>>, <<1>>>>, <<<<1, 10>>, <<1>>>>}

-----------------------------------------------------------------------------
(* Submissions: rules of every kind, with clauses of every list, on        *)
(* versions and architectures that may be absent or of another kind, for   *)
(* any profiles or those of one kind, and for both scopes.                 *)

Fits == [Ask EXCEPT !.op = "VersionLe", !.right_field = <<"cc">>, !.set = {}]
TooNew == [Fits EXCEPT !.op = "VersionGt"]
SameArch == [Fits EXCEPT !.op = "Eq", !.field = <<"arch">>, !.right_field = <<"arch">>]
Known == [Fits EXCEPT !.op = "InSet", !.field = <<"arch">>, !.right_field = <<>>,
                      !.set = {Str(<<120>>)}]

Unbound == [scope |-> "pair", left_kind |-> {}, right_kind |-> {}] @@ Plain

SubmissionsOfAllKinds == {
    [Unbound EXCEPT !.priority = 1, !.required = {Fits}, !.incompatible_with = <<TooNew>>,
                    !.right_kind = {"Device"}],
    [Unbound EXCEPT !.rule_id = 2, !.required = {SameArch}, !.left_kind = {"Kernel"},
                    !.right_kind = {"Device"}],
    [Unbound EXCEPT !.rule_id = 3, !.priority = 1, !.kind = "Conditional",
                    !.conditions = {Fits}, !.scope = "requirement"],
    [Unbound EXCEPT !.rule_id = 4, !.kind = "ExplicitIncompat", !.required = {SameArch}],
    [Unbound EXCEPT !.rule_id = 5, !.any_of = {Known}, !.left_kind = {"Model"},
                    !.incompatible_with = <<TooNew, SameArch>>],
    [Unbound EXCEPT !.rule_id = 6, !.priority = 2, !.required = {Known}, !.kind = "Adaptation"]}

Needs == PayloadsOf("cc", {Str(<<8, 6>>), Str(<<12, 0>>), Flag(TRUE)},
                    "arch", {Str(<<120>>)})

Offers == PayloadsOf("cc", {Str(<<8, 6>>), Str(<<12, 0>>)},
                     "arch", {Str(<<120>>), Str(<<90>>)})

Requests ==
    {q \in [left : Needs, right : Offers, left_kind : {"Kernel", "Model"},
            right_kind : {"Device"}, scope : {"pair"}]
           \cup [left : Needs, right : Offers, left_kind : {"Model"},
                 right_kind : {"Tensor"}, scope : {"pair", "requirement"}] :
        q.left # q.right}

-----------------------------------------------------------------------------
(* DeviceDiscovery: minor versions of one and of two digits.               *)

ComputeCapabilities == {<<8, 6>>, <<8, 10>>}

-----------------------------------------------------------------------------
(* ProfileTypes: something other than the default for each sort.           *)

SomeOfEach == [uuid |-> {"u"}, text |-> {"u"}, uint |-> {1}, opt |-> {{1}},
               record |-> {[t \in {1} |-> <<"Bool", TRUE>>]}, ints |-> {<<-1, 0>>},
               bools |-> {<<TRUE>>}, uuids |-> {<<"u", "nil">>}, texts |-> {<<"u", "">>}]

-----------------------------------------------------------------------------
(* Canonical: scalars of every form, and a double that is no number.       *)

SomeTexts == {<<>>, <<0, 1>>}

-----------------------------------------------------------------------------

Subject == {"pair", "constraints", "submissions", "devices", "capabilities", "records",
            "types", "canonical"}

\* The payloads of Constraints are any, when they are what it is about.
MCInit ==
    /\ subject \in Subject
    /\ EvaluationInit
    /\ subject # "constraints" => left = <<>> /\ right = <<>>

MCSpec == MCInit /\ [][ComponentNext /\ UNCHANGED subject]_<<subject, componentVars>>
=============================================================================
