SPECIFICATION Spec
CONSTANTS
  Proc = {1, 2}
  Initproc = 1
  NPages = 16
  MaxCalls = 4
  PGSIZE = 2
  NPTENTRIES = 2
  NUserTables = 3
  Programs = {1, 4}
  Increments <- MCIncrements
INVARIANT PagesPartition
INVARIANT MappedBelowSize
 
CHECK_DEADLOCK FALSE
