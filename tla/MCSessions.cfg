\* One device with every kind of failure, one with every operation, and two
\* devices; two requests at a time, and two failures or lapses.
SPECIFICATION MCSpec
CONSTANTS
  Settings = {"browser", "client", "devices"}
  Devices = {d1, d2}
  Requests = {r1, r2}
  Calls = {"login", "oidc", "register", "query", "refresh", "logout", "password", "lapse"}
  Failing = {"throw", "timeout", "answer"}
  MaxTroubles = 2
  MaxTokens = 3
SYMMETRY SessionSymmetry
INVARIANTS TypeOK SingleUse CookieWorks StragglersRide NoOrphan EndedSessionsAreDead
CHECK_DEADLOCK FALSE
