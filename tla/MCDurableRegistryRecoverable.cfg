CONSTANTS
    c1 = c1
    p = p
    a = a
    b = b
    Id = {a, b, c}
    Kind = {k}
    Payload = {p}
    DependencySets <- AtMostOne
    MaxRegistryGen = 4
    Constraint = {c1}
    RuleId = {1}
    RuleBody = {}
    CallerGeneration = {0}
    Judgement <- Judge
    Policy = {}
    ZeroPolicy = z
    EvidenceId = {}
    SourceGeneration = {1}
    Request = {}
    MaxIssued = 0
SPECIFICATION DurableSpec
SYMMETRY Symmetry
INVARIANTS
    SnapshotsAreRecoverable
CHECK_DEADLOCK FALSE
