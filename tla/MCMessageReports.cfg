SPECIFICATION Spec
CONSTANTS
  Messages = {m1}
  Handlers = {h1, h2}
  Reports = {"sent", "delivered"}
  MaxAttempts = 2
  MaxStalls = 1
  MaxFaults = 0
INVARIANT
  ReportsAreFiled
CHECK_DEADLOCK FALSE
