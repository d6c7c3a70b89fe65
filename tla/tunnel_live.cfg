\* Two callers and one client: every blocking call comes to an end.
SPECIFICATION Spec
CONSTANTS
    Callers = {a, b}
    Clients = {k1}
    MaxAttempts = 2
    MaxAbandoned = 1
    None = None
PROPERTIES
    ConnectReturns
    DisconnectReturns
    DeadIsDropped
    GoroutinesReturn
