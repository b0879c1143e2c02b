\* Three processes at a time, of four ever made, so that two may fork at once.
SPECIFICATION Spec
CONSTANTS
  NPROC = 3
  NOFILE = 2
  NFILE = 1
  Inode = {i1}
  Regular = {i1}
  Password <- ShortAndLong
  PASSLEN = 2
  MaxPid = 4
  NoInode = NoInode
INVARIANT NoFreePidSlotsUnreachable
INVARIANT RefCountsDescriptors
PROPERTY UnlockRelation
