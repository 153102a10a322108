SPECIFICATION Spec
CONSTANTS
    m1 = m1
    l1 = l1
    w1 = w1
    w2 = w2
    u1 = u1
    Media = {m1}
    Languages = {l1}
    WorkerJobs = {w1, w2}
    ManualJobs = {u1}
    NoJob = NoJob
    NoKey = NoKey
    MaxChanges = 3
    MaxIdent = 1
    MaxFaults = 1
SYMMETRY Symmetry
INVARIANTS
    TypeOK
    NoLostChange
    OwnerUpToDate
    RejectionKept
PROPERTIES
    DeletedStaysEnded
    LeaseProtects
CHECK_DEADLOCK FALSE
