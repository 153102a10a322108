SPECIFICATION Spec
CONSTANTS
    p = p
    q = q
    f = f
    k = k
    e = e
    x = x
    d = d
    None = None
    Preferred = {p, q}
    Fallback = {f}
    Candidates = {k, e, x, d}
    Exact = {x}
    ProviderOf <- Offer
    ScoreOf <- Scores
    VersionCount <- Sizes
    Kinds <- KindsOf
    Delta = 1
    MaxTried = 2
    MaxVersions = 1
    MaxRejects = 1
    MaxFaults = 1
INVARIANTS
    SetAsideRightly
PROPERTIES
    RemovalJustified
    NoDowngrade
    EventuallyInstalled
CHECK_DEADLOCK FALSE
