CONSTANTS
  Users = {ann, bob}
  FirstUser = ann
  AdminIdentity = bob
  Systems = {home}
  Clients = {c1, c2}
  FreeAttempts = 2
  LockoutLimit = 1
  MaxClock = 2
  MaxSecret = 6
  Bounds <- MCBounds
SYMMETRY AnyClient
SPECIFICATION Spec
INVARIANTS HonouredOnce FactorGuardsEntry KeysEndWithMembership
CHECK_DEADLOCK FALSE
