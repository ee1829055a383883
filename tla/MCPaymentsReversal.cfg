\* A charge that was approved and then reversed.
SPECIFICATION MCSpec
CONSTANTS
  Orders = {o1}
  Webhooks = {w1, w2}
  Codes = {}
  Carts = {k1}
  Forms = {}
  Offers <- Promotions
  Terms <- Held
  Price <- Grid
  NoCode = NoCode
  Parts = {"payments"}
  MaxUsed = 0
SYMMETRY WebhookSymmetry
INVARIANT ReversalIsAnnounced
CHECK_DEADLOCK FALSE
