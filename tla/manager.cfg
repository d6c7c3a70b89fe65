\* One server, two pools and two callers: two Starts overlap, a Stop or a third
\* Start follows, contexts end, and a Forward scans meanwhile.
SPECIFICATION Spec
CONSTANTS
    Servers = {s1}
    Pools = {p1, p2}
    Callers = {c1, c2}
    Conns = {f1}
    None = None
INVARIANTS
    NoPoolLost
    ScanIsConsistent
PROPERTIES
    RegistrySpec
    CallsReturn
    StopTakesEffect
