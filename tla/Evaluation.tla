----------------------------- MODULE Evaluation -----------------------------
(***************************************************************************)
(* What a decision rests on: the evaluation of a pair, and the components  *)
(* that make what it evaluates.  They share no state, and each keeps its   *)
(* promises alone, so that they stand side by side: a behaviour moves the  *)
(* one that is its subject.                                                *)
(***************************************************************************)
EXTENDS PairEvaluation, ProfileTypes

CONSTANTS LeftPayload, RightPayload, ConstraintSet, StartsWith,
          MaxUint, Mantissa, Double,         \* of Constraints
          Submitted, MaxHeld,                \* of Submissions ...
          Request,                           \* ... with what it is asked
          Compiled, ComputeCapability, Memory, CudaVersion,
          MaxDevices, MaxProfiles,           \* of DeviceDiscovery
          Tag, Kind, Value,                  \* of Capabilities
          FieldTag, FieldValue, MaxFields,   \* of Records
          CanonTag, CanonKind, Cell, TextCells, NotFinite,
          MaxPut, MaxDepth                   \* of Canonical

VARIABLES subject,        \* the component the behaviour moves
          left, right,    \* of Constraints
          submitted, asked, \* rules of Submissions, what was asked of it
          found, made,    \* of DeviceDiscovery
          caps,           \* of Capabilities
          fields,         \* of Records
          building, value \* of Canonical

Con == INSTANCE Constraints
Sub == INSTANCE Submissions
          WITH Library <- Submitted, MaxRules <- MaxHeld, rules <- submitted
Dev == INSTANCE DeviceDiscovery WITH profiles <- made
Cap == INSTANCE Capabilities
Rec == INSTANCE Records WITH Tag <- FieldTag
Can == INSTANCE Canonical
          WITH Tag <- CanonTag, Kind <- CanonKind, MaxFields <- MaxPut, fields <- building

\* What callers pass has the form its type gives it.
ASSUME InputsAreTyped ==
    /\ Con!ConstantsTyped /\ Con!PayloadsAreRecords
    /\ Sub!LibraryTyped /\ Dev!ConstantsTyped
    /\ Cap!TagsAreNumbers /\ Rec!TagsAreNumbers
    /\ GivenTyped /\ Can!CellsAreNumbers

-----------------------------------------------------------------------------

constraintVars == <<left, right>>
submissionVars == <<submitted, asked>>
deviceVars == <<found, made>>
canonicalVars == <<building, value>>
dataVars == <<caps, fields, profiles, canonicalVars>>
componentVars == <<pairVars, constraintVars, submissionVars, deviceVars, dataVars>>

EvaluationInit ==
    /\ Init /\ Con!Init /\ Sub!Init /\ Dev!Init /\ Cap!Init
    /\ Rec!FieldsInit /\ TypesInit /\ Can!Init

ComponentNext ==
    \/ /\ subject = "pair" /\ Next
       /\ UNCHANGED <<constraintVars, submissionVars, deviceVars, dataVars>>
    \/ /\ subject = "constraints" /\ Con!Next
       /\ UNCHANGED <<pairVars, submissionVars, deviceVars, dataVars>>
    \/ /\ subject = "submissions" /\ Sub!Next
       /\ UNCHANGED <<pairVars, constraintVars, deviceVars, dataVars>>
    \/ /\ subject = "devices" /\ Dev!Next
       /\ UNCHANGED <<pairVars, constraintVars, submissionVars, dataVars>>
    \/ /\ subject = "capabilities" /\ Cap!Next
       /\ UNCHANGED <<pairVars, constraintVars, submissionVars, deviceVars>>
       /\ UNCHANGED <<fields, profiles, canonicalVars>>
    \/ /\ subject = "records" /\ Rec!FieldsNext(FieldValue)
       /\ UNCHANGED <<pairVars, constraintVars, submissionVars, deviceVars>>
       /\ UNCHANGED <<caps, profiles, canonicalVars>>
    \/ /\ subject = "types" /\ TypesNext
       /\ UNCHANGED <<pairVars, constraintVars, submissionVars, deviceVars>>
       /\ UNCHANGED <<caps, fields, canonicalVars>>
    \/ /\ subject = "canonical" /\ Can!Next
       /\ UNCHANGED <<pairVars, constraintVars, submissionVars, deviceVars>>
       /\ UNCHANGED <<caps, fields, profiles>>

EvaluationSpec == EvaluationInit /\ [][ComponentNext /\ UNCHANGED subject]_<<subject, componentVars>>

-----------------------------------------------------------------------------
(* The properties of the components: their modules say what they mean.     *)

\* Versions and ranges are compared in the order of the numbers the code reads
\* their texts and payloads as (rule.cpp:172-271).
ComparisonsKeepOrder ==
    subject = "constraints" => Con!ComparisonsKeepOrder

\* A field that arrives changes no verdict that was known (registry.cpp:339).
ArrivingFieldsKeepVerdicts ==
    [][subject = "constraints" => Con!ArrivingFieldsKeepVerdicts]_constraintVars

\* A counterfactual query answers for the profiles it asks about
\* (registry.cpp:618).
CounterfactualForetells ==
    [][subject = "constraints" => Con!CounterfactualForetells]_constraintVars

\* Rules that were saved and loaded, any number of times, decide every request
\* as those that were registered and not disabled (registry.cpp:765-948).
RestartsKeepDecisions == subject = "submissions" => Sub!RestartsKeepDecisions

\* A plain rule applies and yields over the wire as in process (net.cpp:138).
WireKeepsPlainRules == subject = "submissions" => Sub!WireKeepsPlainRules

\* Rules read of a device the versions CUDA gave, one it did not give as 0.0,
\* and a memory size it did not give as unknown (cuda.cpp:38-101).
DevicesCompareAsObserved ==
    subject = "devices" => Dev!DevicesCompareAsObserved /\ Dev!MemoryIsObservedOrUnknown

\* Setting a capability disturbs no other (capability.hpp:89).
SetKeepsTheOthers ==
    [][subject = "capabilities" => Cap!SetKeepsTheOthers]_caps

\* The order in which fields are put makes no difference, neither to the
\* encoding nor to what is found in the record (canonical.cpp:32-57).
OrderOfPutIsForgotten ==
    subject = "records" => Rec!OrderOfPutIsForgotten /\ Rec!FieldsAreFound

\* A profile is read from its record as it was written, each field at the tag
\* and of the kind it was put with (profile.hpp).
ProfilesReadBack == subject = "types" => RecordsReadBack

\* A name in a rule reaches the field it names and no other, so that rules
\* compare what was assigned (rule.cpp:12).
NamesReachTheirFields ==
    subject = "types" => NamesFindTheirFields /\ RulesCompareWhatIsAssigned

\* The decoder takes what the encoder made, and nothing shorter or longer
\* (canonical.cpp:75-228).
DecoderIsExact == subject = "canonical" => Can!DecodesBack /\ Can!TruncatedIsRefused
=============================================================================
