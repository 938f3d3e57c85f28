CONSTANTS
  Workers = {u, v}
  Routed <- Routings
  Server <- Servers
  Cap = 2
  MaxDay = 1
  MaxAsks = 3
  LocalOnly = TRUE
  Cases <- Failures
  Models <- Configured
  Investigate <- Investigators

SPECIFICATION SpendSpec
INVARIANTS SecretsStay NotedOnceEach OneObjection
PROPERTIES BudgetSpec
CHECK_DEADLOCK FALSE
SYMMETRY AnyWorker
