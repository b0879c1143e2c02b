\* Three table entries on two CPUs: reuse of a slot (pid 4 is a second life of
\* slot 1 or 2), a grandchild orphaned to init, two sleepers on one channel.
SPECIFICATION Spec
CONSTANTS
  CPU = {c1, c2}
  Slot = {s0, s1, s2}
  initproc = s0
  MaxPid = 4
  KillPid = {2, 3}
  None = None
SYMMETRY Symmetry
INVARIANT OneCpuPerStack
INVARIANT SchedPanicsUnreachable
INVARIANT NoWakeupMissed
INVARIANT FamilyTree
