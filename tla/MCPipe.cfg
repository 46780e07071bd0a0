SPECIFICATION LiveSpec
CONSTANTS
  r1 = r1
  w1 = w1
  a = a
  b = b
  Readers = {r1}
  Writers = {w1}
  Bytes = {a, b}
  PIPE_SIZE = 2
  Word = 4
  MaxN = 3
  MaxPermits = 1
  None = None
PROPERTY FifoUnlessOverrun
PROPERTY EndsWoken
