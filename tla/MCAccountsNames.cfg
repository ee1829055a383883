SPECIFICATION MCSpec
CONSTANTS
  Users = {u1, u2}
  Solo = u1
  Devices = {d1, d2}
  NoDevice = NoDevice
  Tasks = {t1, t2}
  Services = {"register", "reset", "change", "twofa"}
  BackupCodes = {1, 2}
  MaxIds = 3
  Staff = {s1, s2, s3}
  Board = {s1, s2}
  Chief = s1
  Desks = {k1, k2}
  Matters = {"promote", "demote", "ban", "unban", "news", "subscriptions", "promo codes", "notification", "bulk", "stats",
             "article stats", "subscription stats", "promo code list"}
  BatchSize = 2
  Members = {m1, m2}
  Names = {"x", "y"}
  Jobs = {j1, j2}
  Chores = {"rename", "avatar", "view"}
  Troubles = {}
  MaxTries = 1
  MaxChanges = 2
  Parts = {{"rename"}}
INVARIANT NamesAligned
CHECK_DEADLOCK FALSE
