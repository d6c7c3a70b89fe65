\* Two connections of one address: one is denied within the limit.
SPECIFICATION SafetySpec
CONSTANTS
    RuleIds = {r1}
    ip1 = ip1
    pipe = pipe
    IPs = {ip1}
    direct = direct
    Peers = {direct}
    Host <- MCHost
    Cut <- MCCut
    Limits <- MCLimits
    MaxTime = 3
    None = None
    Conns = {c1, c2}
    ScanTime = 1
    ForwardTime = 2
PROPERTIES
    DeniedMeansLimitExceeded
