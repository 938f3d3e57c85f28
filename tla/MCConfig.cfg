SPECIFICATION Spec
CONSTANTS
  Threads = {t1, t2}
  Texts <- MCTexts
  Installed = {"ollama", "codex"}
  Vars = {"WORK_KEY", "OPENAI_API_KEY"}
  MaxTime = 2
  MaxWrites = 2
SYMMETRY MCSymmetry
INVARIANTS StaleOnlyWithinTick SetupIsServed LoginPoints DoctorAgrees
CHECK_DEADLOCK FALSE
