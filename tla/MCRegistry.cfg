CONSTANTS
    c1 = c1
    p = p
    a = a
    b = b
    Id = {a, b}
    Kind = {k}
    Payload = {p, q}
    DependencySets <- EachOther
    MaxRegistryGen = 3
    Constraint = {c1}
    RuleId = {1}
    RuleBody <- Bodies
    CallerGeneration = {0}
    Judgement <- Judge
    Policy = {u}
    ZeroPolicy = z
    EvidenceId = {e}
    SourceGeneration = {1}
    Request <- OneWay
    MaxIssued = 3
SPECIFICATION Spec
INVARIANTS
    DecisionIdDeterminesDecision
    GovernedByCurrentRule
CHECK_DEADLOCK FALSE
