SPECIFICATION LiveSpec
CONSTANTS
  Procs = {p1, p2}
  Cpus = {c1, c2}
  Locks = {lk}
  Events = {ev}
  Root = p1
  MIN_LOAD = 2
  MaxVal = 0
  None = None
INVARIANT KernelStackExclusive
INVARIANT MutualExclusion
PROPERTY RunnableRuns
PROPERTY PostedReturns
PROPERTY KilledWakes
