SPECIFICATION Spec
CONSTANTS
    None = None
    c1 = c1
    c2 = c2
    s1 = s1
    s2 = s2
    Clients = {"opensubtitles", "titlovi", "subdl", "subsource", "gestdown"}
    Calls = {c1, c2}
    Results = {s1, s2}
    MaxConcurrent = 2
    SharedMax = 1
    Delays <- Steps
    MaxCooldown = 3
    RefusalWindow = 0
    Resets = {0, 4}
    MaxTroubles = 2
INVARIANTS
    TypeOK
    CallsGoOn
PROPERTIES
    LimitStands
    OnlyForCause
CHECK_DEADLOCK FALSE
SYMMETRY Symmetry
