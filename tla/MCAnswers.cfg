CONSTANTS
  sh = sh
  make = make
  ls = ls
  Shells = {sh}
  Failing = {make}
  Passing = {ls}
  MaxThreads = 2
  MaxCases = 2
  StoreFails = TRUE
  None = None
SPECIFICATION Spec
INVARIANTS AnsweredOnce LateOnlyIfLeft DrainedIsCurrent KeptIsSaid
CHECK_DEADLOCK FALSE
