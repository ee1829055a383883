\* All kinds of queues, with a lost connection or a crash.
SPECIFICATION MCFairSpec
CONSTANTS
  Events = {e1, e2}
  Dispatches = {"by key", "any", "parse first"}
  MaxRetries = 1
  Prefetch = 2
  MaxSessions = 2
INVARIANTS TypeOK NoEventLost GivenUpAfterRetries
PROPERTIES EventsAreSettled
CHECK_DEADLOCK FALSE
