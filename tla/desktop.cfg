\* Two addresses and two names of connections, so that entries can be renamed,
\* moved onto each other and share a name.
SPECIFICATION Spec
CONSTANTS
    Ids = {i1, i2}
    Names = {n1, n2}
    RuleIds = {r1}
    Texts = {t1, t2}
    IPs = {ip1}
    Torn = Torn
    New = New
    None = None
SYMMETRY Symmetry
INVARIANTS
    ListMatchesFile
    BlockedMatchesFile
PROPERTIES
    OnlyOwnPart
    RulesAutoSaved
    
