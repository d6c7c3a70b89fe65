\* Two rules for one address: the address can lose the rule that remains.
SPECIFICATION ACSpec
CONSTANTS
    RuleIds = {r1, r2}
    IPs = {ip1}
    Limits <- MCLimits
    MaxTime = 3
    None = None
INVARIANTS
    UnrestrictedMeansNoRule
