CONSTANTS
    Runs = {r1, r2, r3}
    Texts = {t1, t2}
    OwnText = own
    NoRun = noRun
    HardLinks = TRUE
    Overlap = FALSE
    QuietOwner = TRUE
    RemovalLingers = FALSE
    MaxOwner = 3
    MaxFaults = 3
SPECIFICATION Spec
SYMMETRY Symmetry
INVARIANTS
    InstallInv
PROPERTIES
    OwnerFileKept
    InstallIsAtomic
CHECK_DEADLOCK FALSE
