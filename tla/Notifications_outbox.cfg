SPECIFICATION Spec
CONSTANTS
    silo = silo
    arr = arr
    c0 = c0
    c1 = c1
    c2 = c2
    Notices <- TwoSubtitles
    Coalescing = {arr}
    MaxRows = 3
    MaxBatch = 2
    MaxWorkflows = 2
    NoRow = NoRow
INVARIANTS
    OutboxInv
    OneRequestPerTarget
SYMMETRY Subtitles
