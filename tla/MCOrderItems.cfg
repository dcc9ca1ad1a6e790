\* Two orders of different items in one sorted set.
CONSTANTS
  Workers = {w1, w2}
  Orders = {1, 2}
  Items = {a, b}
  ItemOf <- TwoItems
  Units <- UnitOrders
  a = a
  b = b
  NoOrder = NoOrder
  Nil = Nil
  RedisFaults = FALSE
  MaxRequests = 2
SPECIFICATION Spec
SYMMETRY WorkerSymmetry
INVARIANTS ChargedToItem 
