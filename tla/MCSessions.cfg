CONSTANTS
  Reqs = {r1, r2}
  MaxAttempts = 2
  LockTime = 1
  SessionLife = 2
  AccessLife = 1
  ResetLife = 1
  Mixes <- AllMixes
  GivenRoles = {"USER", "ADMIN"}
  MaxSessions = 4
  MaxResets = 2
  MaxFaults = 1
SPECIFICATION Spec
SYMMETRY Symmetry
INVARIANTS
  SessionsTypeOK
  OldPasswordsSlipIn
  HeirsBounded
  RolesCatchUp
  ResetOnce
  GuessesBounded
PROPERTIES
  KeepsStore
CHECK_DEADLOCK FALSE
