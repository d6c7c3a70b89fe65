\* Two connections of one host, which comes in directly or through a pipe, and
\* one rule; the rule and the blocklist change at any moment.
SPECIFICATION Spec
CONSTANTS
    RuleIds = {r1}
    ip1 = ip1
    pipe = pipe
    IPs = {ip1, pipe}
    direct = direct
    Peers = {direct, piped}
    Host <- MCHost
    Cut <- MCCut
    Limits <- MCLimits
    MaxTime = 3
    None = None
    Conns = {c1, c2}
    ScanTime = 1
    ForwardTime = 1
INVARIANTS
    SessionHasConnection
    NoOvercharge
PROPERTIES
    OverdraftBounded
    ForwardReturns
    BlockedIsDrained
