CONSTANTS
    c1 = c1
    p = p
    a = a
    b = b
    Id = {a, b}
    Kind = {k}
    Payload = {p, q}
    DependencySets <- AtMostOne
    MaxRegistryGen = 2
    Constraint = {c1}
    RuleId = {1}
    RuleBody <- OneBody
    CallerGeneration = {0}
    Judgement <- Judge
    Policy = {}
    ZeroPolicy = z
    EvidenceId = {}
    SourceGeneration = {1}
    Request <- OneRequest
    MaxIssued = 2
SPECIFICATION DurableSpec
INVARIANTS
    RecoveredProfilesSound
    ReplayUnambiguous
CHECK_DEADLOCK FALSE
