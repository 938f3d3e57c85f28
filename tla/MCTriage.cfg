CONSTANTS
  s1 = s1
  s2 = s2
  gti = gti
  gut = gut
  make = make
  git = git
  Shells = {s1, s2}
  Failing = {gti, gut, make}
  Passing = {git}
  Ruled = {gti, gut}
  Cure <- MCCure
  PreTyped = {gti}
  None = None
  Capacity = 2
  BookSize = 1
  MaxReports = 4
  MaxTroubled = 1
  Scenes <- MCScenes
SPECIFICATION FairSpec
INVARIANTS OncePerFailure OfferedIsShown NeverOvertaught TakenWasOffered
CHECK_DEADLOCK FALSE
PROPERTIES PromptReturns
