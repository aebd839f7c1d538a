CONSTANTS
    Id = {a, b, c}
    Payload = {p, q}
    Kind = {k}
    DependencySets <- AtMostOne
    MaxRegistryGen = 2
SPECIFICATION Spec
SYMMETRY Symmetry
PROPERTY RejectionMutatesNothing
CHECK_DEADLOCK FALSE
