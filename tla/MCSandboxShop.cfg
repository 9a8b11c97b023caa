CONSTANTS
  c1 = c1
  c2 = c2
  tee = tee
  cap = cap
  Client <- MCClient
  Sku <- MCSku
  Price <- MCPrice
  Stock <- MCStock
  Region <- MCRegion
  Coupons <- MCCoupons
  TrackingWarmupCalls = 1
  Radix = 3
  Width = 1
  Limit = 1
  SeqBefore = 1
  MaxOrders = 3
  MaxResets = 1
  Charged = {2}
SPECIFICATION ShopSpec
SYMMETRY Callers
INVARIANTS
  StatusTellsWhatWasDone
  ListsEveryOrderOnce
CHECK_DEADLOCK FALSE
