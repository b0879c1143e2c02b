SPECIFICATION Spec
CHECK_DEADLOCK FALSE
CONSTANTS
  p1 = p1
  p2 = p2
  Proc = {p1, p2}
  NInodes = 3
  NINODE = 3
  Name = {"a", "b"}
  MAX_SYMLINK_LOOPS = 3
  Calls <- MCCalls
  MaxCalls <- MCMaxCalls
  None = None
 
 
INVARIANT NoDeadlock
 
 
