CONSTANTS
  zsh1 = zsh1
  zsh2 = zsh2
  Shells = {zsh1, zsh2}
  PingEvery = 2
  Slack = 1
  ReadTimeout = 3
SPECIFICATION SweepSpec
INVARIANTS OneSweep
PROPERTY LivingKept
CHECK_DEADLOCK FALSE
