SPECIFICATION Spec
CONSTANTS
  p1 = p1
  p2 = p2
  b1 = b1
  b2 = b2
  v1 = v1
  v2 = v2
  Procs = {p1, p2}
  Blocks = {b1, b2}
  Values = {v1, v2}
  Shared = {v1}
  LOG_MAX_SIZE = 5
  OP_MAX_NUM_BLOCKS = 2
  MaxPermits = 1
  None = None
SYMMETRY Symmetry
INVARIANT LogCapacity
PROPERTY AtomicOperations
