SPECIFICATION Spec
CONSTANTS
  p1 = p1
  p2 = p2
  p3 = p3
  f1 = f1
  None = None
  Procs = {p1, p2, p3}
  First = p1
  Pages <- MCPages
  Zero = 1000
  Null = 1001
  PAGE_SIZE = 2
  N_PTE = 2
  Span = 11
  VaEnd = 12
  StackPages = 1
  Files = {f1}
  KSPACE_MASK = 24
  Word = 32
  MaxNull = 1
  MaxSects = 6
  Uses <- MCUses
CHECK_DEADLOCK FALSE
CONSTRAINT SectionsApart
 
INVARIANT BuffersBacked
