CONSTANTS
    Id = {m, n, o}
    Kind = {k}
    Payload = {p}
    DependencySets <- AtMostOne
    MaxRegistryGen = 3
    Reader = {t}
SPECIFICATION CallsSpec
INVARIANTS
    AnswerExact
    PointersKeepTheirRecord
    EqualFindsBracketEvaluation
PROPERTY SearchTerminates
CHECK_DEADLOCK FALSE
