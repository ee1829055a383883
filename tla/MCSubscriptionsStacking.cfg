\* A subscription that is canceled, bought again and restored.
SPECIFICATION MCSpec
CONSTANTS
  Settings = {"any"}
  Users = {u1}
  Requests = {r1}
  PaidTiers = {2}
  AdminTiers = {2}
  TrialTier = 2
  TrialDays = {0}
  PlanDays = {1}
  Calls = {"cancel", "restore", "replace"}
  GraceDays = 1
  Failing = {}
  MaxRows = 2
  MaxDay = 1
INVARIANT NoStacking
