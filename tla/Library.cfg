SPECIFICATION LibrarySpec
CONSTANTS
    e1 = e1
    e2 = e2
    Entities = {e1, e2}
    IdentityOf <- Movies
    InScope = {1}
    Outside = {2}
    MaxChanges = 2
    MaxLibraryChanges = 2
    MaxAttempts = 2
    MassDeletion = 10
    MaxFaults = 2
    MaxOutages = 2
    Paths = {p1, p2, p3}
    p1 = p1
    p2 = p2
    p3 = p3
    NoPath = NoPath
    Limit = 1
    MaxFiles = 4
INVARIANTS
    CatalogAgrees
    FilesSearched
    RecordFollows
PROPERTIES
    NoRegress
    OwnerKept
SYMMETRY Symmetry
CHECK_DEADLOCK FALSE
