SPECIFICATION Spec
CONSTANTS
  p1 = p1
  p2 = p2
  f1 = f1
  f2 = f2
  Procs = {p1, p2}
  Inodes = {1, 2}
  Files = {f1, f2}
  Blocks = {1, 2, 3, 4, 5, 6, 7}
  BLOCK_SIZE = 2
  INODE_NUM_DIRECT = 2
  OP_MAX_NUM_BLOCKS = 10
  Names = {901, 902, 903}
  Uses <- MCUses
  None = None
CHECK_DEADLOCK FALSE
PROPERTY BlocksOwned
INVARIANT FileHolds
PROPERTY CrashConsistent
INVARIANT WritesFit
INVARIANT NamesDistinct
