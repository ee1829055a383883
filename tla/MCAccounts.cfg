SPECIFICATION MCSpec
CONSTANTS
  Users = {u1, u2}
  Solo = u1
  Devices = {d1}
  NoDevice = NoDevice
  Tasks = {t1, t2}
  Services = {"register", "reset", "change", "twofa"}
  BackupCodes = {1, 2}
  MaxIds = 3
  Staff = {s1, s2, s3}
  Board = {s1, s2}
  Chief = s1
  Desks = {k1, k2}
  Matters = {"promote", "demote", "ban", "unban", "news", "subscriptions", "promo codes", "notification", "bulk", "stats",
             "article stats", "subscription stats", "promo code list"}
  BatchSize = 2
  Members = {m1, m2}
  Names = {"x", "y"}
  Jobs = {j1, j2}
  Chores = {"rename", "avatar", "view"}
  Troubles = {"throw", "event", "redelivery"}
  MaxTries = 1
  MaxChanges = 2
  Parts = {{"register"}, {"reset"}, {"change"}, {"twofa"},
           {"promote", "demote"}, {"promote", "demote", "ban", "unban"},
           {"news", "subscriptions", "promo codes", "notification"},
           {"article stats", "subscription stats", "promo code list"}, {"bulk"}, {"stats", "ban"},
           {"rename"}, {"avatar"}, {"rename", "view"}}
INVARIANTS TypesOK
INVARIANTS NobodyIsStranded OneTrialPerDevice PasswordCodesHold SecondFactorHolds
INVARIANTS SomeAdminRemains AuditIsTrue ReportsAreTrue
INVARIANTS NamesConverge ProfilesAreShown
PROPERTIES BansSpareAdmins
CHECK_DEADLOCK FALSE
