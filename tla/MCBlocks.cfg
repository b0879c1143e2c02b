SPECIFICATION Spec
CHECK_DEADLOCK FALSE
SYMMETRY Symmetry
CONSTANTS
  Proc = {p1, p2}
  File = {2, 3}
  Images <- MCImages
  WriteSizes = {7, 12, 30}
  MaxCalls = 6
  NDIRECT = 1
  BSIZE = 4
  LOGSIZE = 10
  IPB = 2
  BPB = 24
  ninodes = 4
  size = 46
INVARIANT BlocksPartition
INVARIANT ReadBack
 
