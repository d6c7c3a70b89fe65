\* Two tunnels, which wait for each other's reconnection slot and for their own
\* locks, and a reader of the list of tunnels.  With one retry there is one
\* slot.  A pool that was stopped and whose goroutines have ended stops for
\* good, so there is no deadlock check.
SPECIFICATION Spec
CONSTANTS
    Tunnels = {t1, t2}
    MaxRetries = 1
    Readers = {r1}
    Width = 16
    IntMax = 16
INVARIANTS
    GoroutineIsAwaited
PROPERTIES
    LifeSpec
    StartEnds
    StopEnds
    MonitorEnds
    DownIsNoticed
CHECK_DEADLOCK FALSE
