\* A buffer of three characters whose indices wrap at six; two readers, who may
\* both be killed while the buffer is full (nothing can happen then).
SPECIFICATION FairSpec
CONSTANTS
  Reader = {p1, p2}
  Char = {x, NL, EOF}
  NL = NL
  EOF = EOF
  INPUT_BUF = 3
  UINT = 6
  MaxRead = 2
PROPERTY EnteredLinesAreRead
PROPERTY EofIsKept
PROPERTY ReadReturns
CHECK_DEADLOCK FALSE
