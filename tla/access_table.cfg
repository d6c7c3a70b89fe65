\* The rule table under every sequence of edits, resets and sessions.
SPECIFICATION ACSpec
CONSTANTS
    RuleIds = {r1, r2}
    IPs = {ip1, ip2}
    Limits <- MCLimits
    MaxTime = 3
    None = None
SYMMETRY Symmetry
INVARIANTS
    IndexSound
    StatusForEveryRule
PROPERTIES
    ChargedByTheClock
