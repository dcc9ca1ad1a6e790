\* What loading an order twice does to its quota.
CONSTANTS
  Workers = {w1, w2}
  Orders = {1}
  Items = {a}
  ItemOf <- OneOrder
  Units <- UnitOrders
  a = a
  b = b
  NoOrder = NoOrder
  Nil = Nil
  RedisFaults = FALSE
  MaxRequests = 4
SPECIFICATION Spec
INVARIANT WithinQuota
