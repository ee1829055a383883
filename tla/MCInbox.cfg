SPECIFICATION MCSpec
CONSTANTS
  Users = {u1}
  Events = {e1}
  Kinds = {"user_verify_email", "subscription_expiry_reminder", "article_created"}
  Tasks = {t1, t2}
  Calls = {"count", "mark", "delete", "archive"}
  Manual = {"in_app"}
  Failing = {"auth", "smtp", "database", "redis", "connection", "process"}
  MaxRows = 3
  Budget = 4
  FaultCost = 2
  Titles = {a}
  Queries = {q}
  Staff = {s1, s2}
  Readers = {r1, r2}
  MaxArticle = 2
  MaxSlug = 1
  Parts = {"inbox", "slugs", "copies"}
INVARIANTS TypesOK BadgeIsExact OneMailPerEvent LogIsTrue DeletedStaysGone
PROPERTIES PendingIsResolved
CHECK_DEADLOCK FALSE
