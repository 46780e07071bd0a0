SPECIFICATION LiveSpec
CONSTANTS
  p1 = p1
  p2 = p2
  p3 = p3
  Procs = {p1, p2, p3}
  Killed = {p1, p2, p3}
  NQUEUE = 7
  None = None
CHECK_DEADLOCK FALSE
INVARIANT DescPartition
INVARIANT CompletionMatches
PROPERTY RequestReturns
