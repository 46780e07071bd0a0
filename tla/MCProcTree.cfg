SPECIFICATION LiveSpec
CONSTANTS
  p1 = p1
  p2 = p2
  p3 = p3
  p4 = p4
  Procs = {p1, p2, p3, p4}
  Root = p1
  None = None
INVARIANT TreeShape
INVARIANT ZombiesCounted
PROPERTY ReapedOffStack
PROPERTY WaitReturns
