SPECIFICATION Spec
CONSTANTS
  x = x
  y = y
  NL = NL
  EOF = EOF
  Chars = {x, y}
  INPUT_BUF = 4
  Word = 8
  Sizes = {1, 2, 4}
  MaxVal = 2
  MaxUnits = 2
CHECK_DEADLOCK FALSE
PROPERTY LinesInOrder
