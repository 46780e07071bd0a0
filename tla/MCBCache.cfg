SPECIFICATION Spec
CONSTANTS
  p1 = p1
  p2 = p2
  n1 = n1
  n2 = n2
  n3 = n3
  n4 = n4
  b1 = b1
  b2 = b2
  b3 = b3
  b4 = b4
  b5 = b5
  Procs = {p1, p2}
  BlockNos = {n1, n2, n3, n4}
  Bufs = {b1, b2, b3, b4, b5}
  EVICTION_THRESHOLD = 2
  MaxHeld = 2
  None = None
SYMMETRY Symmetry
INVARIANT ExclusiveAcquire
