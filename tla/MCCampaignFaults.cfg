SPECIFICATION FairSpec
CONSTANTS
  Contacts = {c1, c2}
  None = None
  Requests = {r1}
  Executors = {e1, e2}
  BatchSize = 2
  ProviderRegistered = TRUE
  Schedules = {"none", "future"}
  MaxFaults = 1
INVARIANTS
  TypeOK
  RowsTellTheTruth
  DispatchInv
PROPERTIES
  KeepsLedger
  RunningEnds
  PendingIsTried
