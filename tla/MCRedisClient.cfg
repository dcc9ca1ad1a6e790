\* One client of data base 1, three increments.
CONSTANTS
  Clients = {c1}
  Idx = 1
  MaxCalls = 3
SPECIFICATION FairSpec
INVARIANTS DbSelected CountExact OneFailure
PROPERTY CallReturns
