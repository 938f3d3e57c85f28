CONSTANTS
  sh = sh
  make = make
  ls = ls
  Shells = {sh}
  Failing = {make}
  Passing = {ls}
  MaxThreads = 2
  MaxCases = 1
  StoreFails = TRUE
  None = None
SPECIFICATION FairSpec
PROPERTIES EveryQuestionAnswered
CHECK_DEADLOCK FALSE
