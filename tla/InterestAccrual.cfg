\* Two accruers, a batch of two users and a single accrual, one payment or
\* position change, one fault.
SPECIFICATION Spec
CONSTANTS
  a1 = a1
  a2 = a2
  u1 = u1
  u2 = u2
  Accruers = {a1, a2}
  Users = {u1, u2}
  Batches <- BothAndOne
  MaxBorrow = 1
  MaxTime = 2
  MaxFaults = 1
  MaxWrites = 1
INVARIANTS RecordIsOneAccrual EveryUserReported
PROPERTY ModuleChargedLikeUser
SYMMETRY Symmetric
CHECK_DEADLOCK FALSE
