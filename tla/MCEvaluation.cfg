CONSTANTS
    c1 = c1
    c2 = c2
    c3 = c3
    Constraint = {c1, c2, c3}
    Library <- Mixed
    MaxRules = 3
    MaxSet = 2
    LeftPayload <- Kernels
    RightPayload <- Devices
    ConstraintSet <- Asked
    StartsWith <- Prefixes
    MaxUint = 1023
    Mantissa = 4
    Double <- MachineCasts
    Submitted <- SubmissionsOfAllKinds
    MaxHeld = 2
    Request <- Requests
    Compiled = TRUE
    ComputeCapability <- ComputeCapabilities
    Memory = {3}
    CudaVersion = {12090, 12100}
    MaxDevices = 2
    MaxProfiles = 2
    Tag = {4, 5, 7, 8}
    Kind = {"Bool", "Uint"}
    Value = {"low", "high"}
    FieldTag = {1, 3, 8}
    FieldValue = {"a", "b"}
    MaxFields = 3
    Given <- SomeOfEach
    CanonTag = {1, 8}
    CanonKind = {"Uint", "Bool", "Float", "Str", "Bytes"}
    Cell = {0, 1, 9}
    TextCells <- SomeTexts
    NotFinite = {9}
    MaxPut = 2
    MaxDepth = 2
SPECIFICATION MCSpec
INVARIANTS
    CompleteEvaluationIsFinal
    UnknownIsConclusive
    IncompatibleIsFinal
    LowerPriorityHasNoSay
    ComparisonsKeepOrder
    RestartsKeepDecisions
    WireKeepsPlainRules
    DevicesCompareAsObserved
    ProfilesReadBack
    NamesReachTheirFields
    DecoderIsExact
    OrderOfPutIsForgotten
PROPERTIES
    ArrivingFieldsKeepVerdicts
    CounterfactualForetells
    SetKeepsTheOthers
CHECK_DEADLOCK FALSE
