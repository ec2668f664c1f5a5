CONSTANTS
  Recipients = {r1, r2, r3}
  BatchSize = 2
  Attempts = 2
  MaxQueueFaults = 2
  Hooks = {h1, h2}
  Events = {v1, v2}
  MaxUpsets = 1
  Ids = {i1, i2}
  n1 = n1
  n2 = n2
  l1 = l1
  l2 = l2
  Slots <- ThreeSlots
  Clients = {c1, c2}
  MaxUpheavals = 1
  Keys = {k1, k2, k3}
  Movers = {m1, m2}
  MaxSlips = 1
SYMMETRY Alike
SPECIFICATION OfficeSpec
INVARIANTS
  OfficeTypeOK
  HandsOverOnce
  QueueHeedsStop
  LogsTellTheTruth
  RowsMatchProvider
  RowsHaveFiles
CHECK_DEADLOCK FALSE
