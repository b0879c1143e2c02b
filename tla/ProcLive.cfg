\* One and two generations below init, on one CPU.
SPECIFICATION FairSpec
CONSTANTS
  CPU = {c1}
  Slot = {s0, s1, s2}
  initproc = s0
  MaxPid = 3
  KillPid = {}
  None = None
PROPERTY OrphansAreReaped
PROPERTY SleeperRuns
