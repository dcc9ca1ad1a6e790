SPECIFICATION FairSpec
CONSTANTS
  NoOne = NoOne
  Callers = {w1}
  MaxFds = 2
  MaxFails = 0
PROPERTY ClosedCallReturns
CHECK_DEADLOCK FALSE
