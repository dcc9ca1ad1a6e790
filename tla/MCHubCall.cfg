\* Two workers and the update thread; two connections fail.
SPECIFICATION FairSpec
CONSTANTS
  NoOne = NoOne
  Callers = {w1, w2, up}
  MaxFds = 4
  MaxFails = 2
INVARIANTS SslReady FdsAccounted
PROPERTY CallReturns
CHECK_DEADLOCK FALSE
