\* A trial that ends, and a payment in its grace period.
SPECIFICATION MCSpec
CONSTANTS
  Settings = {"any"}
  Users = {u1}
  Requests = {r1}
  PaidTiers = {2}
  AdminTiers = {2}
  TrialTier = 2
  TrialDays = {0}
  PlanDays = {9}
  Calls = {"trial", "replace"}
  GraceDays = 1
  Failing = {}
  MaxRows = 2
  MaxDay = 3
INVARIANT RenewedKeepsTier
