SPECIFICATION Spec
CONSTANTS
  Contacts = {c1, c2}
  None = None
  Requests = {r1}
  Executors = {e1}
  BatchSize = 1
  ProviderRegistered = TRUE
  Schedules = {"none"}
  MaxFaults = 0
PROPERTY
  StoppedIsNotCompleted
