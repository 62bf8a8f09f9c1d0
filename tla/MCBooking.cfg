SPECIFICATION Spec
CONSTANTS
  t1 = t1  t2 = t2
  b1 = b1  b2 = b2
  e1 = e1  e2 = e2
  NoCoupon = NoCoupon
  None = None
  Transactions = {t1, t2}
  Bookings = {b1, b2}
  Events = {e1, e2}
  Participants = {"customer"}
  Ratings = {1, 5}
  Prices <- BoundaryPrices
  Reserved <- SomeCoupons
  Rule <- GreedyRule
CONSTRAINT OnePriceOrOneBirth
SYMMETRY Symmetry
INVARIANTS LifecycleTypeOK EndingsAreCoherent FinanceReconciles NoCircularWait
PROPERTY PastStands
