CONSTANTS
  Reqs = {r1, r2}
  MaxAttempts = 2
  LockTime = 1
  SessionLife = 2
  AccessLife = 1
  ResetLife = 1
  Mixes <- GuessMix
  GivenRoles = {"USER", "ADMIN"}
  MaxSessions = 3
  MaxResets = 1
  MaxFaults = 1
SPECIFICATION Spec
SYMMETRY Symmetry
INVARIANTS
  LocksAfterMaxAttempts
CHECK_DEADLOCK FALSE
