\* One slot of connections, both modes, both callers of Stop.
SPECIFICATION Spec
CONSTANTS
    Conns = {c1}
INVARIANTS
    HandlersAwaited
PROPERTIES
    StopEnds
    TargetEndsRelay
    UplinkEnds
CHECK_DEADLOCK FALSE
