\* One worker and the update thread: tokens renewed and expired, Redis failing, two types of query.
SPECIFICATION FairSpec
CONSTANTS
  Workers = {w1}
  Users = {u1}
  Tokens = {t1, t2}
  GateTokens = {g1}
  Places = {p1}
  Ids = {i1}
  Types = {1, 2}
  RedisFaults = TRUE
  MaxRefused = 1
  Nil = Nil
  Garbage = Garbage
INVARIANTS TypeOK ServedVerified  SocketsAccounted 
PROPERTY RevokedForgotten
CHECK_DEADLOCK FALSE
