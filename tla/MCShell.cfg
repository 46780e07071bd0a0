SPECIFICATION Spec
CONSTANTS
  MAXARGS = 3
  MAXN = 37
  Inputs <- MCInputs
  Procs = {0, 1, 2, 3, 4, 5, 6, 7, 8, 9}
  NFds = 6
  MaxLeft = 1
CHECK_DEADLOCK FALSE
INVARIANT ParseExact
INVARIANT RunAsWritten
PROPERTY PromptReturns
