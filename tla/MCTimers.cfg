SPECIFICATION Spec
CONSTANTS
  Nodes <- MCNodes
  Hello = 1
  SchedTimer = 2
  elapse <- MCelapse
  DEFAULT = 4
  MaxLate = 1
  Scopes <- MCScopes
INVARIANT RedBlack
INVARIANT TriggeredExact
INVARIANT ClockForFirst
