SPECIFICATION MCSpec
CONSTANTS
  Orders = {o1}
  Webhooks = {w1, w2, w3}
  Codes = {c1}
  Carts = {k1, k2}
  Forms = {f1, f2}
  Offers <- Promotions
  Terms <- Held
  Price <- Grid
  NoCode = NoCode
  Parts = {"payments", "rush", "prices"}
  MaxUsed = 2
INVARIANTS TypesOK OneSettler AnnouncedOnceAndTrue PromoUsesHold ChargesHold
PROPERTIES LedgerSpec PaidIsAnnounced
CHECK_DEADLOCK FALSE
