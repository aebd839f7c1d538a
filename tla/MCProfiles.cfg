CONSTANTS
    Id = {a, b, c}
    Payload = {p, q}
    Kind = {k}
    DependencySets <- AtMostOne
    MaxRegistryGen = 4
SPECIFICATION Spec
SYMMETRY Symmetry
INVARIANTS
    TypeOK
    HistoryWellFormed
    ReverseIndexExact
    DependencyGraphAcyclic
    ActiveEdgesMatchRecord
    InvalidatedNeverServed
    CycleCheckExact
PROPERTIES
    PropagationReachesDependents
    ImplementsLedger
CHECK_DEADLOCK FALSE
