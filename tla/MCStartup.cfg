CONSTANTS
  c1 = c1
  c2 = c2
  d1 = d1
  d2 = d2
  d3 = d3
  Clients = {c1}
  Daemons = {d1,d2,d3}
  Newest = 2
  MaxCrashes = 1
  MaxRaces = 1
  None = None
  Stale = Stale
SPECIFICATION FairSpec
INVARIANTS OneButForRaces
PROPERTIES ComesBack UpgradeArrives
CHECK_DEADLOCK FALSE
