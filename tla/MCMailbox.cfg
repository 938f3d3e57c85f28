CONSTANTS
  fish = fish
  c1 = c1
  c2 = c2
  Shells = {fish}
  Listening = {fish}
  Signalled = {fish}
  Conns = {c1, c2}
  None = None
  MaxMessages = 2
  MaxRestarts = 1
SPECIFICATION FairSpec
INVARIANTS NothingOvertakes
PROPERTIES PostSpec EveryMessageEnds
CHECK_DEADLOCK FALSE
