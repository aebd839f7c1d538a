CONSTANTS
    c1 = c1
    p = p
    a = a
    b = b
    Id = {a, b}
    Kind = {k}
    Payload = {p, q}
    DependencySets <- None
    MaxRegistryGen = 2
    Constraint = {c1}
    RuleId = {1}
    RuleBody = {}
    CallerGeneration = {0}
    Judgement <- Judge
    Policy = {u}
    ZeroPolicy = z
    EvidenceId = {}
    SourceGeneration = {1, 2}
    Request <- OneWay
    MaxIssued = 2
SPECIFICATION Spec
INVARIANT ReplayReturnsIssued
CHECK_DEADLOCK FALSE
