CONSTANTS
    Runs = {r1, r2}
    Texts = {t1, t2}
    OwnText = own
    NoRun = noRun
    HardLinks = TRUE
    Overlap = FALSE
    QuietOwner = TRUE
    RemovalLingers = TRUE
    MaxOwner = 2
    MaxFaults = 2
SPECIFICATION Spec
SYMMETRY Symmetry
PROPERTIES
    OwnerFileKept
CHECK_DEADLOCK FALSE
