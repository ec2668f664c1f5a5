SPECIFICATION FairSpec
CONSTANTS
  Messages = {m1}
  Handlers = {h1}
  Reports = {"sent", "delivered"}
  MaxAttempts = 3
  MaxStalls = 1
  MaxFaults = 2
INVARIANTS
  TypeOK
  CallsBounded
  JobTellsTheTruth
  DeliveredIsSent
  FailuresAreNotified
PROPERTIES
  KeepsDelivery
  QueuedIsSettled
  StoredIsTried
CHECK_DEADLOCK FALSE
