SPECIFICATION Spec
CONSTANTS
  p1 = p1
  p2 = p2
  a = a
  b = b
  Procs = {p1, p2}
  First = p1
  Inodes = {1, 2, 3}
  Root = 1
  Names = {a, b}
  Uses <- MCUses
  Files = {1, 2}
  NOPENFILE = 2
  None = None
CHECK_DEADLOCK FALSE
INVARIANT FilesKept
INVARIANT LinksCover
PROPERTY CallsReturn
