\* Which order is deleted when one is over its limit.
CONSTANTS
  Workers = {w1, w2}
  Orders = {1, 2}
  Items = {a}
  ItemOf <- OneItem
  Units <- UnitOrders
  a = a
  b = b
  NoOrder = NoOrder
  Nil = Nil
  RedisFaults = FALSE
  MaxRequests = 3
SPECIFICATION Spec
PROPERTY DeletesItsOrder
