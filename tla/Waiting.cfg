SPECIFICATION Spec
CONSTANTS
    Callers = {a1, a2, a3, a4, a5}
    Slots = 2
    silo = silo
    arr = arr
    c0 = c0
    c1 = c1
    Coalescing = {arr}
    MaxRows = 2
    MaxBatch = 1
    MaxWorkflows = 2
    NoRow = NoRow
INVARIANTS
    SlotsSound
    NoIdleSlot
PROPERTIES
    NoOvertaking
    WaiterServed
    EveryChangeNotified
