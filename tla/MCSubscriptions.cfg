\* One handler beside the worker with every kind of failure, and two of them.
SPECIFICATION MCSpec
CONSTANTS
  Settings = {"alone", "beside"}
  Users = {u1}
  Requests = {r1, r2}
  PaidTiers = {1}
  AdminTiers = {1}
  TrialTier = 2
  TrialDays = {0}
  PlanDays = {0}
  Calls = {"check", "cancel", "restore", "remove", "replace", "trial"}
  GraceDays = 1
  Failing = {"database", "redis", "rabbit", "process"}
  MaxRows = 2
  MaxDay = 3
INVARIANTS TypeOK TierFollowsRows OneActive CacheCoherent
PROPERTIES TierKeptInGrace LapsedRowsAreFound
