CONSTANTS
    c1 = c1
    c2 = c2
    c3 = c3
    Constraint = {c1, c2, c3}
    Library <- Mixed
    MaxRules = 1
SPECIFICATION Spec
INVARIANT MissingEvidenceNeverPositive
CHECK_DEADLOCK FALSE
