\* A password change of a user with two devices.
SPECIFICATION MCSpec
CONSTANTS
  Settings = {"any"}
  Devices = {d1, d2}
  Requests = {r1, r2}
  Calls = {"login", "oidc", "register", "query", "password"}
  Failing = {}
  MaxTroubles = 0
  MaxTokens = 3
SYMMETRY SessionSymmetry
INVARIANTS AllSessionsRevoked
CHECK_DEADLOCK FALSE
