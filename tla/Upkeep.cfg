SYMMETRY Symmetry
SPECIFICATION Spec
CONSTANTS
  Packs = {p1, p2, p3}
  Evidence = {1, 2}
  Searches = {s1, s2}
  Capacity = 2
  NoOne = NoOne
  MaxFaults = 2
  Arrs = {a1, a2}
  Bases = {b1, b2}
  Tokens = {t1, t2}
  OtherHost = OtherHost
  Unrelated = Unrelated
  OtherToken = OtherToken
  MaxID = 3
  MaxChanges = 4
  CueLists <- MCCueLists
  ReadingTime <- MCReadingTime
  AgedAfter = 43200
  MaxUpgradeChecks = 2
  Ages <- MCAges
  Resets <- MCResets
  Delays = {0, 10080}
  MaxSearches = 7
INVARIANTS
  CacheSound OneConnection RepairSafe OnTime
PROPERTIES
  ForeignUntouched
CHECK_DEADLOCK FALSE
