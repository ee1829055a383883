\* A handler that fails once, on a queue that dispatches by routing key.
SPECIFICATION MCSpec
CONSTANTS
  Events = {e1}
  Dispatches = {"by key"}
  MaxRetries = 3
  Prefetch = 10
  MaxSessions = 1
INVARIANT FailedEventsAreRetried
CHECK_DEADLOCK FALSE
