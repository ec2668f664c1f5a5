SPECIFICATION Spec
CONSTANTS
  Contacts = {c1, c2}
  None = None
  Requests = {r1, r2}
  Executors = {e1, e2}
  BatchSize = 1
  ProviderRegistered = TRUE
  Schedules = {"none"}
  MaxFaults = 0
SYMMETRY Symmetry
INVARIANTS
  OncePerStart
  CountsBalance
  TotalMatchesRows
  RunningHasExecutor
  StopsWithinOneBatch
PROPERTY
  NeverRevived
