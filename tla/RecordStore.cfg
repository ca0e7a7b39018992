\* Three calls of two services on the records of one family, one network fault.
SPECIFICATION Spec
CONSTANTS
  c1 = c1
  c2 = c2
  u1 = u1
  u2 = u2
  i1 = i1
  i2 = i2
  Module = module
  PoolAmounts = amounts
  PoolInfo = info
  Prices = prices
  Clients = {c1, c2}
  Keys = {u1, u2, i1, i2, amounts, info, module, prices}
  Ops <- AllOps
  MaxCalls = 3
  MaxFaults = 1
INVARIANTS AnswerIsOneMoment NilMeansAllWritten
PROPERTY OldComesBackOnlyByRetry
CONSTRAINT OneFamily
SYMMETRY Symmetric
CHECK_DEADLOCK FALSE
