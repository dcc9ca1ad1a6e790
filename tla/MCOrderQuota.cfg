\* One order that two workers load, spend and settle while Redis may fail.
CONSTANTS
  Workers = {w1, w2}
  Orders = {1}
  Items = {a}
  ItemOf <- OneOrder
  Units <- UnitOrders
  a = a
  b = b
  NoOrder = NoOrder
  Nil = Nil
  RedisFaults = TRUE
  MaxRequests = 4
SPECIFICATION Spec
SYMMETRY WorkerSymmetry
INVARIANTS QuotaOvershoot 
