\* One process opens a file while another one protects it.
SPECIFICATION Spec
CONSTANTS
  NPROC = 2
  NOFILE = 1
  NFILE = 2
  Inode = {i1}
  Regular = {i1}
  Password <- Short
  PASSLEN = 2
  MaxPid = 4
  NoInode = NoInode
INVARIANT ProtectedFilesOpenOnlyIfUnlocked
