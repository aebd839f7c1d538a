CONSTANTS
    Client = {c, d}
    Source = {s}
    Domain = {gpu}
    Scope = {"*", cpu}
    Content = {k}
    Generation = {1, 2}
    MsgType = {"source", "profile", "rule", "snapshot"}
    MaxRequests = 4
    MaxRestarts = 1
SPECIFICATION Spec
INVARIANTS
    FormerProcessesFenced
    PublishedInOrder
    PublishedInScope
    AnswersTrue
CHECK_DEADLOCK FALSE
SYMMETRY Clients
