CONSTANTS
  sh = sh
  zsh = zsh
  daemon = daemon
  client = client
  build = build
  test = test
  make = make
  home = home
  work = work
  t1 = t1
  t2 = t2
  None = None
  Shells = {sh, zsh}
  Procs <- MCProcs
  Daemon = daemon
  Client = client
  Commands <- MCCommands
  Program <- MCProgram
  Dir <- MCDir
  Above <- MCAbove
  Requests <- MCRequests
  Old <- MCOld
  LastSaved = 1
  OldIgnores <- MCOldIgnores
  Kept = 3
  Remembered = 1
  Corrupt = {2}
  MaxEnds = 1
  Tools = {t1, t2}
  MaxCases = 2
  MaxSaves = 5
  MaxTime = 1
SPECIFICATION Spec
CONSTRAINT MCBound
SYMMETRY MCSymmetry
INVARIANTS LastIsNewest WholeImport NewestAnswers ActsOnNewer
PROPERTIES Silence
CHECK_DEADLOCK FALSE
