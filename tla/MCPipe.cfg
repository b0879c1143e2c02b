\* Two writers with writes longer than the pipe, indices that wrap every fourth
\* byte.  When every process has closed its end nothing happens any more.
SPECIFICATION FairSpec
CONSTANTS
  x = x
  y = y
  Reader = {r1}
  Writer = {w1, w2}
  Byte <- Bytes
  PIPESIZE = 2
  UINT = 4
  Writes <- ShortAndLong
  MaxRead = 2
INVARIANT NobodyStranded
INVARIANT FreedOnce
PROPERTY FifoStream
PROPERTY WriteReturns
CHECK_DEADLOCK FALSE
