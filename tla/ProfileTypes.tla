---------------------------- MODULE ProfileTypes ----------------------------
(***************************************************************************)
(* The typed profiles (include/compat/profile.hpp), the records they are   *)
(* registered as, and the names by which rules reach their fields          *)
(* (src/compat/rule.cpp:12-170).                                           *)
(*                                                                         *)
(* Callers fill in a profile of each kind field by field; to_canon makes a *)
(* record of it and from_canon reads one.  The structure, its writer, its  *)
(* reader and its names are written by hand, each with tags of its own: so *)
(* they are here, a table for each.  A string that is the name of an       *)
(* identity spells it.                                                     *)
(***************************************************************************)
EXTENDS Integers, Sequences, FiniteSets

CONSTANTS Given,   \* what callers assign to the fields of each sort
          MaxSet   \* bound on the fields that are not as they were declared

VARIABLE profiles   \* a profile of each kind

-----------------------------------------------------------------------------
(* The structures: the sort of every field.  An "opt" is a std::optional   *)
(* number.  An element of dynamic_dims is the truth value it is written    *)
(* as.  A CapabilitySet, whose record has no names, is in Capabilities.    *)

ModelProfile ==
    [model_id |-> "uuid", revision_id |-> "uuid", architecture |-> "text", family |-> "text",
     quantization |-> "text", tokenizer_id |-> "uuid", vocabulary_id |-> "uuid",
     parameter_count |-> "opt", adapter_ids |-> "uuids", dtype |-> "text",
     execution_req |-> "record"]

TokenizerProfile ==
    [tokenizer_id |-> "uuid", vocabulary_id |-> "uuid", vocab_size |-> "uint",
     special_tokens |-> "record", normalization |-> "text", chat_template |-> "text"]

TensorProfile ==
    [schema_id |-> "uuid", rank |-> "uint", shape |-> "ints", dynamic_dims |-> "bools",
     dtype |-> "text", layout |-> "text", strides |-> "ints", alignment |-> "opt",
     endianness |-> "text", semantic_role |-> "text"]

KvProfile ==
    [kv_format_id |-> "uuid", model_revision |-> "text", layer_count |-> "uint",
     head_count |-> "uint", head_dim |-> "uint", dtype |-> "text", layout |-> "text",
     block_geometry |-> "record", positional |-> "text", seq_context |-> "uint",
     tokenizer_id |-> "text", generation |-> "uint"]

KernelProfile ==
    [kernel_artifact_id |-> "uuid", operation |-> "text", architecture |-> "text",
     compute_capability |-> "text", abi |-> "text", runtime |-> "text", compiler |-> "text",
     compiler_version |-> "text", dtype |-> "text", layout |-> "text", shape_spec |-> "text",
     launch_geometry |-> "record", quantization |-> "text", interface |-> "text",
     generation |-> "uint", artifact_digest |-> "text"]

GraphProfile ==
    [graph_artifact_id |-> "uuid", topology |-> "text", dependencies |-> "uuids",
     runtime |-> "text", backend |-> "text", architecture |-> "text", abi |-> "text",
     dtype |-> "text", layout |-> "text", shape_spec |-> "text", launch_config |-> "record",
     memory_binding |-> "text", generation |-> "uint"]

AdapterProfile ==
    [adapter_id |-> "uuid", base_model_revision |-> "text", kind |-> "text",
     rank_config |-> "record", target_modules |-> "texts", dtype |-> "text",
     composition |-> "text", activation |-> "record", generation |-> "uint",
     artifact_digest |-> "text"]

BackendProfile ==
    [backend_id |-> "uuid", runtime |-> "text", compiler |-> "text",
     compiler_version |-> "text", abi |-> "text", codegen_target |-> "text",
     capabilities |-> "record", protocol_version |-> "text", interface_version |-> "text"]

DeviceProfile ==
    [device_id |-> "uuid", vendor |-> "text", architecture |-> "text",
     compute_capability |-> "text", memory_model |-> "text", total_memory |-> "opt",
     supported_dtypes |-> "texts", instruction_classes |-> "texts",
     execution_features |-> "texts", runtime_min |-> "text", driver_min |-> "text"]

ProtocolProfile ==
    [protocol_id |-> "uuid", family |-> "text", major |-> "uint", minor |-> "uint",
     message_schema_generation |-> "opt", feature_bits |-> "record",
     required_semantics |-> "texts", optional_semantics |-> "texts"]

PolicyProfile ==
    [policy_id |-> "uuid", generation |-> "uint", strictness |-> "text",
     permitted_adaptations |-> "texts", fallback |-> "text"]

Structures ==
    [Model |-> ModelProfile, Tokenizer |-> TokenizerProfile,
     Tensor |-> TensorProfile, Kv |-> KvProfile, Kernel |-> KernelProfile,
     Graph |-> GraphProfile, Adapter |-> AdapterProfile, Backend |-> BackendProfile,
     Device |-> DeviceProfile, Protocol |-> ProtocolProfile,
     Policy |-> PolicyProfile]

ProfileKind == DOMAIN Structures

Field == UNION {{k} \X DOMAIN Structures[k] : k \in ProfileKind}

Lists == [uuids |-> "Uuid", texts |-> "Str", ints |-> "Int", bools |-> "Bool"]

Sorts == {"uuid", "text", "uint", "opt", "record"} \cup DOMAIN Lists

NoFields == [t \in {} |-> <<>>]

\* What a field is declared with.
Default(sort) ==
    CASE sort = "uuid" -> "nil"
      [] sort = "text" -> ""
      [] sort = "uint" -> 0
      [] sort = "opt" -> {}
      [] sort = "record" -> NoFields
      [] sort \in DOMAIN Lists -> <<>>

\* What a field holds in the structure: a list if that is its sort, and at
\* most one number if it is optional.
Holds(sort, v) ==
    /\ sort = "opt" => \A m, n \in v : m = n
    /\ sort \in DOMAIN Lists => Len(v) \in Nat /\ v = [j \in 1 .. Len(v) |-> v[j]]

GivenTyped == \A sort \in Sorts : \A v \in Given[sort] : Holds(sort, v)

Declared ==
    [k \in ProfileKind |-> [f \in DOMAIN Structures[k] |-> Default(Structures[k][f])]]

-----------------------------------------------------------------------------
(* to_canon: the tag each field is put at.                                 *)

ModelPut ==
    [model_id |-> 1, revision_id |-> 2, architecture |-> 3, family |-> 4, quantization |-> 5,
     tokenizer_id |-> 6, vocabulary_id |-> 7, parameter_count |-> 8, adapter_ids |-> 9,
     dtype |-> 10, execution_req |-> 11]

TokenizerPut ==
    [tokenizer_id |-> 1, vocabulary_id |-> 2, vocab_size |-> 3, special_tokens |-> 4,
     normalization |-> 5, chat_template |-> 6]

TensorPut ==
    [schema_id |-> 1, rank |-> 2, shape |-> 3, dynamic_dims |-> 4, dtype |-> 5, layout |-> 6,
     strides |-> 7, alignment |-> 8, endianness |-> 9, semantic_role |-> 10]

KvPut ==
    [kv_format_id |-> 1, model_revision |-> 2, layer_count |-> 3, head_count |-> 4,
     head_dim |-> 5, dtype |-> 6, layout |-> 7, block_geometry |-> 8, positional |-> 9,
     seq_context |-> 10, tokenizer_id |-> 11, generation |-> 12]

KernelPut ==
    [kernel_artifact_id |-> 1, operation |-> 2, architecture |-> 3, compute_capability |-> 4,
     abi |-> 5, runtime |-> 6, compiler |-> 7, compiler_version |-> 8, dtype |-> 9,
     layout |-> 10, shape_spec |-> 11, launch_geometry |-> 12, quantization |-> 13,
     interface |-> 14, generation |-> 15, artifact_digest |-> 16]

GraphPut ==
    [graph_artifact_id |-> 1, topology |-> 2, dependencies |-> 3, runtime |-> 4, backend |-> 5,
     architecture |-> 6, abi |-> 7, dtype |-> 8, layout |-> 9, shape_spec |-> 10,
     launch_config |-> 11, memory_binding |-> 12, generation |-> 13]

AdapterPut ==
    [adapter_id |-> 1, base_model_revision |-> 2, kind |-> 3, rank_config |-> 4,
     target_modules |-> 5, dtype |-> 6, composition |-> 7, activation |-> 8, generation |-> 9,
     artifact_digest |-> 10]

BackendPut ==
    [backend_id |-> 1, runtime |-> 2, compiler |-> 3, compiler_version |-> 4, abi |-> 5,
     codegen_target |-> 6, capabilities |-> 7, protocol_version |-> 8, interface_version |-> 9]

DevicePut ==
    [device_id |-> 1, vendor |-> 2, architecture |-> 3, compute_capability |-> 4,
     memory_model |-> 5, total_memory |-> 6, supported_dtypes |-> 7, instruction_classes |-> 8,
     execution_features |-> 9, runtime_min |-> 10, driver_min |-> 11]

ProtocolPut ==
    [protocol_id |-> 1, family |-> 2, major |-> 3, minor |-> 4, message_schema_generation |-> 5,
     feature_bits |-> 6, required_semantics |-> 7, optional_semantics |-> 8]

PolicyPut ==
    [policy_id |-> 1, generation |-> 2, strictness |-> 3, permitted_adaptations |-> 4,
     fallback |-> 5]

Puts ==
    [Model |-> ModelPut, Tokenizer |-> TokenizerPut, Tensor |-> TensorPut,
     Kv |-> KvPut, Kernel |-> KernelPut, Graph |-> GraphPut, Adapter |-> AdapterPut,
     Backend |-> BackendPut, Device |-> DevicePut, Protocol |-> ProtocolPut,
     Policy |-> PolicyPut]

Listed(kind, s) == [j \in DOMAIN s |-> <<kind, s[j]>>]

\* The CanonKind of a field in a record; a "line" is a text that may be absent.
KindOf(sort) ==
    CASE sort = "uuid" -> "Uuid"
      [] sort \in {"text", "line"} -> "Str"
      [] sort \in {"uint", "opt"} -> "Uint"
      [] sort = "record" -> "Record"
      [] sort \in DOMAIN Lists -> "Sequence"

\* What is put for a field: at most one value.
Put(sort, v) ==
    IF sort = "opt" THEN {<<"Uint", n>> : n \in v}
    ELSE {<<KindOf(sort), IF sort \in DOMAIN Lists THEN Listed(Lists[sort], v) ELSE v>>}

\* Of two fields at one tag, one is in the record.
ToCanon(k, p) ==
    LET put(f) == Put(Structures[k][f], p[f])
        there == {f \in DOMAIN Puts[k] : put(f) # {}}
    IN  [t \in {Puts[k][f] : f \in there} |->
            CHOOSE v \in put(CHOOSE f \in there : Puts[k][f] = t) : TRUE]

-----------------------------------------------------------------------------
(* from_canon: the tag each field is read from, and as what.  It throws    *)
(* for a "uuid" or a "text" that is missing or of another kind; whatever   *)
(* else is so stays as declared.                                           *)

ModelTake ==
    [model_id |-> <<1, "uuid">>, revision_id |-> <<2, "uuid">>, architecture |-> <<3, "text">>,
     family |-> <<4, "text">>, quantization |-> <<5, "text">>, tokenizer_id |-> <<6, "uuid">>,
     vocabulary_id |-> <<7, "uuid">>, parameter_count |-> <<8, "opt">>,
     adapter_ids |-> <<9, "uuids">>, dtype |-> <<10, "text">>,
     execution_req |-> <<11, "record">>]

TokenizerTake ==
    [tokenizer_id |-> <<1, "uuid">>, vocabulary_id |-> <<2, "uuid">>,
     vocab_size |-> <<3, "uint">>, special_tokens |-> <<4, "record">>,
     normalization |-> <<5, "line">>, chat_template |-> <<6, "line">>]

TensorTake ==
    [schema_id |-> <<1, "uuid">>, rank |-> <<2, "uint">>, shape |-> <<3, "ints">>,
     dynamic_dims |-> <<4, "bools">>, dtype |-> <<5, "line">>, layout |-> <<6, "line">>,
     strides |-> <<7, "ints">>, alignment |-> <<8, "opt">>, endianness |-> <<9, "line">>,
     semantic_role |-> <<10, "line">>]

KvTake ==
    [kv_format_id |-> <<1, "uuid">>, model_revision |-> <<2, "text">>,
     layer_count |-> <<3, "uint">>, head_count |-> <<4, "uint">>, head_dim |-> <<5, "uint">>,
     dtype |-> <<6, "text">>, layout |-> <<7, "text">>, block_geometry |-> <<8, "record">>,
     positional |-> <<9, "text">>, seq_context |-> <<10, "uint">>,
     tokenizer_id |-> <<11, "text">>, generation |-> <<12, "uint">>]

KernelTake ==
    [kernel_artifact_id |-> <<1, "uuid">>, operation |-> <<2, "text">>,
     architecture |-> <<3, "text">>, compute_capability |-> <<4, "text">>,
     abi |-> <<5, "text">>, runtime |-> <<6, "text">>, compiler |-> <<7, "text">>,
     compiler_version |-> <<8, "text">>, dtype |-> <<9, "text">>, layout |-> <<10, "text">>,
     shape_spec |-> <<11, "text">>, launch_geometry |-> <<12, "record">>,
     quantization |-> <<13, "text">>, interface |-> <<14, "text">>,
     generation |-> <<15, "uint">>, artifact_digest |-> <<16, "text">>]

GraphTake ==
    [graph_artifact_id |-> <<1, "uuid">>, topology |-> <<2, "text">>,
     dependencies |-> <<3, "uuids">>, runtime |-> <<4, "text">>, backend |-> <<5, "text">>,
     architecture |-> <<6, "text">>, abi |-> <<7, "text">>, dtype |-> <<8, "text">>,
     layout |-> <<9, "text">>, shape_spec |-> <<10, "text">>,
     launch_config |-> <<11, "record">>, memory_binding |-> <<12, "text">>,
     generation |-> <<13, "uint">>]

AdapterTake ==
    [adapter_id |-> <<1, "uuid">>, base_model_revision |-> <<2, "text">>,
     kind |-> <<3, "text">>, rank_config |-> <<4, "record">>, target_modules |-> <<5, "texts">>,
     dtype |-> <<6, "text">>, composition |-> <<7, "text">>, activation |-> <<8, "record">>,
     generation |-> <<9, "uint">>, artifact_digest |-> <<10, "text">>]

BackendTake ==
    [backend_id |-> <<1, "uuid">>, runtime |-> <<2, "text">>, compiler |-> <<3, "text">>,
     compiler_version |-> <<4, "text">>, abi |-> <<5, "text">>,
     codegen_target |-> <<6, "text">>, capabilities |-> <<7, "record">>,
     protocol_version |-> <<8, "text">>, interface_version |-> <<9, "text">>]

DeviceTake ==
    [device_id |-> <<1, "uuid">>, vendor |-> <<2, "text">>, architecture |-> <<3, "text">>,
     compute_capability |-> <<4, "text">>, memory_model |-> <<5, "text">>,
     total_memory |-> <<6, "opt">>, supported_dtypes |-> <<7, "texts">>,
     instruction_classes |-> <<8, "texts">>, execution_features |-> <<9, "texts">>,
     runtime_min |-> <<10, "text">>, driver_min |-> <<11, "text">>]

\* Fault: the minor version is read where the major version is.
ProtocolTakeMajor ==
    [protocol_id |-> <<1, "uuid">>, family |-> <<2, "text">>, major |-> <<3, "uint">>,
     minor |-> <<3, "uint">>, message_schema_generation |-> <<5, "opt">>,
     feature_bits |-> <<6, "record">>, required_semantics |-> <<7, "texts">>,
     optional_semantics |-> <<8, "texts">>]

ProtocolTake ==
    [protocol_id |-> <<1, "uuid">>, family |-> <<2, "text">>, major |-> <<3, "uint">>,
     minor |-> <<4, "uint">>, message_schema_generation |-> <<5, "opt">>,
     feature_bits |-> <<6, "record">>, required_semantics |-> <<7, "texts">>,
     optional_semantics |-> <<8, "texts">>]

PolicyTake ==
    [policy_id |-> <<1, "uuid">>, generation |-> <<2, "uint">>, strictness |-> <<3, "text">>,
     permitted_adaptations |-> <<4, "texts">>, fallback |-> <<5, "text">>]

Takes ==
    [Model |-> ModelTake, Tokenizer |-> TokenizerTake, Tensor |-> TensorTake,
     Kv |-> KvTake, Kernel |-> KernelTake, Graph |-> GraphTake,
     Adapter |-> AdapterTake, Backend |-> BackendTake, Device |-> DeviceTake,
     Protocol |-> ProtocolTake, Policy |-> PolicyTake]

\* The record has the field, with a value of its kind.
Has(c, take) == take[1] \in DOMAIN c /\ c[take[1]][1] = KindOf(take[2])

Readable(k, c) ==
    \A f \in DOMAIN Takes[k] : Takes[k][f][2] \in {"uuid", "text"} => Has(c, Takes[k][f])

\* Elements of another kind are passed over.
Elements(kind, s) ==
    LET own[n \in 0 .. Len(s)] ==
            IF n = 0 THEN <<>>
            ELSE IF s[n][1] = kind THEN Append(own[n - 1], s[n][2]) ELSE own[n - 1]
    IN  own[Len(s)]

Taken(how, v) ==
    IF how = "opt" THEN {v}
    ELSE IF how \in DOMAIN Lists THEN Elements(Lists[how], v) ELSE v

FromCanon(k, c) ==
    [f \in DOMAIN Structures[k] |->
        IF f \in DOMAIN Takes[k] /\ Has(c, Takes[k][f])
        THEN Taken(Takes[k][f][2], c[Takes[k][f][1]][2])
        ELSE Default(Structures[k][f])]

-----------------------------------------------------------------------------
(* tag_for: the names rules may use, and the tag of each.                  *)

ModelNames ==
    [model_id |-> 1, revision_id |-> 2, architecture |-> 3, family |-> 4, quantization |-> 5,
     tokenizer_id |-> 6, vocabulary_id |-> 7, parameter_count |-> 8, dtype |-> 10,
     execution_req |-> 11]

\* Fault: a name is given the tag of the name before.
TokenizerNamesFirst ==
    [tokenizer_id |-> 1, vocabulary_id |-> 1, vocab_size |-> 3, normalization |-> 5,
     chat_template |-> 6]

TokenizerNames ==
    [tokenizer_id |-> 1, vocabulary_id |-> 2, vocab_size |-> 3, normalization |-> 5,
     chat_template |-> 6]

TensorNames ==
    [schema_id |-> 1, rank |-> 2, dtype |-> 5, layout |-> 6, alignment |-> 8, endianness |-> 9,
     semantic_role |-> 10]

KvNames ==
    [kv_format_id |-> 1, model_revision |-> 2, layer_count |-> 3, head_count |-> 4,
     head_dim |-> 5, dtype |-> 6, layout |-> 7, positional |-> 9, seq_context |-> 10]

KernelNames ==
    [kernel_artifact_id |-> 1, operation |-> 2, architecture |-> 3, compute_capability |-> 4,
     abi |-> 5, runtime |-> 6, compiler |-> 7, compiler_version |-> 8, dtype |-> 9,
     layout |-> 10, shape_spec |-> 11, quantization |-> 13, interface |-> 14, generation |-> 15]

GraphNames ==
    [graph_artifact_id |-> 1, topology |-> 2, runtime |-> 4, backend |-> 5, architecture |-> 6,
     abi |-> 7, dtype |-> 8, layout |-> 9, memory_binding |-> 12]

AdapterNames ==
    [adapter_id |-> 1, base_model_revision |-> 2, kind |-> 3, dtype |-> 6, composition |-> 7,
     generation |-> 9]

BackendNames ==
    [backend_id |-> 1, runtime |-> 2, compiler |-> 3, compiler_version |-> 4, abi |-> 5,
     codegen_target |-> 6, protocol_version |-> 8, interface_version |-> 9]

DeviceNames ==
    [device_id |-> 1, vendor |-> 2, architecture |-> 3, compute_capability |-> 4,
     memory_model |-> 5, total_memory |-> 6, runtime_min |-> 10, driver_min |-> 11]

ProtocolNames ==
    [protocol_id |-> 1, family |-> 2, major |-> 3, minor |-> 4, message_schema_generation |-> 5]

PolicyNames ==
    [policy_id |-> 1, generation |-> 2, strictness |-> 3, fallback |-> 5]

Names ==
    [Model |-> ModelNames, Tokenizer |-> TokenizerNames, Tensor |-> TensorNames,
     Kv |-> KvNames, Kernel |-> KernelNames, Graph |-> GraphNames,
     Adapter |-> AdapterNames, Backend |-> BackendNames, Device |-> DeviceNames,
     Protocol |-> ProtocolNames, Policy |-> PolicyNames]

\* At most one tag.
TagFor(k, name) == {Names[k][n] : n \in {name} \cap DOMAIN Names[k]}

At(c, tags) == {c[t] : t \in tags \cap DOMAIN c}

\* resolve_profile_field, of a name with no dot: at most one value.
ResolveField(k, c, name) == At(c, TagFor(k, name))

\* A constraint Eq between a field of one profile and one of another, by name.
EqHolds(k, c, name, l, d, other) ==
    \E v \in ResolveField(k, c, name), w \in ResolveField(l, d, other) :
        v[1] = w[1] /\ v[2] = w[2]

-----------------------------------------------------------------------------

TypesInit == profiles = Declared

FieldsSet ==
    {f \in Field : profiles[f[1]][f[2]] # Default(Structures[f[1]][f[2]])}

\* A caller assigns a field.
Assign(k, f, v) == profiles' = [profiles EXCEPT ![k][f] = v]

TypesNext ==
    /\ Cardinality(FieldsSet) < MaxSet
    /\ \E f \in Field : \E v \in Given[Structures[f[1]][f[2]]] : Assign(f[1], f[2], v)

TypesSpec == TypesInit /\ [][TypesNext]_profiles

-----------------------------------------------------------------------------
(* Properties.                                                             *)

\* A profile is what its record is read as: no two fields share a tag, and
\* each is read where it was written, and as what it was written.
RecordsReadBack ==
    \A k \in ProfileKind :
        LET c == ToCanon(k, profiles[k])
        IN  Readable(k, c) /\ FromCanon(k, c) = profiles[k]

\* What a name finds is what to_canon put for the field of that name, or
\* nothing if it put nothing.
NamesFindTheirFields ==
    \A k \in ProfileKind : \A name \in DOMAIN Names[k] :
        ResolveField(k, ToCanon(k, profiles[k]), name)
            = Put(Structures[k][name], profiles[k][name])

\* The names that two kinds know, for fields of one sort.
Common(k, l) ==
    {name \in DOMAIN Names[k] \cap DOMAIN Names[l] :
        Structures[k][name] = Structures[l][name] /\ Structures[k][name] # "opt"}

\* Two profiles that both have a field of a name, of one sort, are equal for
\* a rule that compares it exactly when their callers gave it one value.
RulesCompareWhatIsAssigned ==
    LET c == [k \in ProfileKind |-> ToCanon(k, profiles[k])]
    IN  \A k, l \in ProfileKind : \A name \in Common(k, l) :
            EqHolds(k, c[k], name, l, c[l], name) <=> profiles[k][name] = profiles[l][name]

=============================================================================
