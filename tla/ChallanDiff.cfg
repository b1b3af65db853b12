SPECIFICATION Spec
CONSTANTS
  c1 = c1
  c2 = c2
  r1 = r1
  r2 = r2
  r3 = r3
  None = None
  Challan <- OneChallan
  Request <- ThreeRequests
  MaxChanges = 2
  MaxExpiries = 1
  MaxLosses = 0
CHECK_DEADLOCK FALSE
PROPERTY DiffMeansChange
