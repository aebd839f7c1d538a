CONSTANTS
    Client = {c, d}
    Source = {s}
    Domain = {gpu}
    Scope = {"*"}
    Content = {k}
    Generation = {1, 2}
    MsgType = {"source", "profile", "shutdown"}
    MaxRequests = 3
    MaxRestarts = 1
    Size = {1, 2, 3}
    Limit = 2
    MaxCalls = 3
SPECIFICATION NetworkSpec
PROPERTIES
    EventuallyAnswered
    CallsAreExchanges
    CallsEnd
CHECK_DEADLOCK FALSE
