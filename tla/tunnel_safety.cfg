\* Two callers and two generations of clients, monitors and keepers.
SPECIFICATION SafetySpec
CONSTANTS
    Callers = {a, b}
    Clients = {k1, k2}
    MaxAttempts = 2
    MaxAbandoned = 1
    None = None
SYMMETRY Symmetry
INVARIANTS
    OneDial
    FlagHasOwner
    ClientNotClosed
    ClientIsWatched
PROPERTIES
    OnlyTimeoutsLeak
    LinkSpec
