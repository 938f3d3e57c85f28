CONSTANTS
  Kinds = {"zsh", "fish", "bash"}
  PromptRows = 2
  MaxLines = 2
  MaxEnters = 1
  MaxMessages = 2
  MaxBreaks = 1

SPECIFICATION Spec
INVARIANTS GhostIsForLast
PROPERTIES OnlyAskingGoes PanelPutsBack
CHECK_DEADLOCK FALSE
