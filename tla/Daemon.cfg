SPECIFICATION MCSpec
CONSTANTS
  j1 = j1
  j2 = j2
  j3 = j3
  Jobs = {j1, j2, j3}
  Requests = {r1}
  MaxWorkflows = 2
  Threshold = 2
  MaxPause = 2
  Levels = 2
  MaxFaults = 1
INVARIANTS ReconcilesApart BreakerSound StopsClean
CHECK_DEADLOCK FALSE
PROPERTIES ServeReturns QueueMoves
