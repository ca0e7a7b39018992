\* Two providers; amounts of 8 bits and floats of 6, so that products of two amounts
\* are rounded, amounts leave what a float holds exactly, turn negative, and overflow.
SPECIFICATION PoolSpec
CONSTANTS
  p1 = p1
  p2 = p2
  Providers = {p1, p2}
  Width = 8
  Bits = 6
  RatioNum = 4
  RatioDen = 5
  FeeNum = 1
  FeeDen = 5
  Inputs = {1, 2, 7, 9, 18, 90}
  MaxCalls = 4
INVARIANTS SharesAreHeld EmptiesCompletely OnlyRoundingGained
PROPERTY ProductNeverFalls
SYMMETRY Symmetric
CHECK_DEADLOCK FALSE
