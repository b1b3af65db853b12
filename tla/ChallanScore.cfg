SPECIFICATION Spec
CONSTANTS
  c1 = c1
  c2 = c2
  r1 = r1
  r2 = r2
  r3 = r3
  None = None
  Challan <- TwoChallans
  Request <- ThreeRequests
  MaxChanges = 2
  MaxExpiries = 1
  MaxLosses = 1
SYMMETRY Symmetry
CHECK_DEADLOCK FALSE
INVARIANT TypeOK ScoreCurrent
