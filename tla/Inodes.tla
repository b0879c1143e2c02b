------------------------------- MODULE Inodes -------------------------------
(***************************************************************************)
(* The inode cache and the inodes on the disk (fs.c, from ialloc() on): a  *)
(* state of the file system is a record, and each function of fs.c is an   *)
(* operator from such a record to the next.  Dir.tla composes them into    *)
(* system calls.  What iget() and ilock() do is here; that ilock() waits   *)
(* is a condition of the actions there.                                    *)
(***************************************************************************)
EXTENDS Integers, FiniteSets, Sequences

CONSTANTS Proc,
          NInodes,    \* sb.ninodes - 1: the inodes are 1..NInodes
          NINODE,     \* entries of the inode cache
          Name,       \* names of directory entries, "." and ".." excepted
          None        \* no process

Inode == 1..NInodes
ROOTINO == 1
Left == "left"  \* I_BUSY, but nobody will unlock it

\* A path is a sequence of names, with "/" as its first element if it is absolute.
Elem == Name \cup {"..", "/", ""}
Path == Seq(Elem)

ASSUME NInodesAssumption == NInodes \in Nat \ {0}
ASSUME ProcAssumption == IsFiniteSet(Proc) /\ None \notin Proc
ASSUME LeftAssumption == Left \notin Proc /\ Left # None
ASSUME NameAssumption == ".." \notin Name

Is(x, i) == IF x = i THEN 1 ELSE 0

Types == {"none", "T_DIR", "T_FILE", "T_DEV", "T_SYMLINK"}

DinodeType ==
  [type : Types, nlink : Int, ents : [Name \cup {".."} -> 0..NInodes], text : Path]

CacheType ==
  [ref : Int, busy : Proc \cup {None, Left}, valid : BOOLEAN, type : Types, nlink : Int]

DiType == [Inode -> DinodeType]
IcType == [Inode -> CacheType]

\* di: the inodes as bread() finds them; ic: the inode cache; trans: who is between
\* begin_trans() and commit_trans(); leaked: history, the inodes of which a
\* reference was dropped without iput().
FsType ==
  [di : DiType, ic : IcType, trans : Proc \cup {None}, leaked : SUBSET Inode, panic : BOOLEAN]

NoEnts == [n \in Name \cup {".."} |-> 0]
Dinode(t, n, e, x) == [type |-> t, nlink |-> n, ents |-> e, text |-> x]
FreeInode == Dinode("none", 0, NoEnts, <<>>)

NotCached == [ref |-> 0, busy |-> None, valid |-> FALSE, type |-> "none", nlink |-> 0]
-----------------------------------------------------------------------------
(***************************************************************************)
(* The functions of fs.c.  s is a state of the file system.                *)
(***************************************************************************)
Panic(s) == [s EXCEPT !.panic = TRUE]

\* log_write(): panics outside a transaction, but any transaction will do.
log_write(s) ==
  IF s.trans = None THEN Panic(s) ELSE s

Cached(s) == { i \in Inode : s.ic[i].ref > 0 }

\* Found in the cache, or an empty entry is recycled with no flags set.
iget(s, i) ==
  IF s.ic[i].ref > 0 THEN [s EXCEPT !.ic[i].ref = @ + 1]
  ELSE IF Cardinality(Cached(s)) = NINODE THEN Panic(s)
  ELSE [s EXCEPT !.ic[i] = [NotCached EXCEPT !.ref = 1]]

idup(s, i) == [s EXCEPT !.ic[i].ref = @ + 1]

\* The rest of ilock(): read the inode unless it is I_VALID.
ilock(s, p, i) ==
  LET c == s.ic[i] IN
  IF c.valid THEN [s EXCEPT !.ic[i].busy = p]
  ELSE [s EXCEPT !.ic[i] = [ref |-> c.ref, busy |-> p, valid |-> TRUE,
                            type |-> s.di[i].type, nlink |-> s.di[i].nlink],
                 !.panic = @ \/ s.di[i].type = "none"]

iunlock(s, i) == [s EXCEPT !.ic[i].busy = None]

\* Mutation: the inode is freed although somebody else has a reference.
LastReference_any(s, i) == s.ic[i].valid /\ s.ic[i].nlink = 0

LastReference(s, i) == s.ic[i].ref = 1 /\ s.ic[i].valid /\ s.ic[i].nlink = 0

\* Drop a reference; with the last one of an inode without links, free it.
iput(s, i) ==
  LET t == IF LastReference(s, i)
           THEN log_write([s EXCEPT !.di[i] = FreeInode, !.ic[i].valid = FALSE,
                                    !.panic = @ \/ s.ic[i].busy # None])
           ELSE s
  IN [t EXCEPT !.ic[i].ref = @ - 1]

iunlockput(s, i) == iput(iunlock(s, i), i)

\* ip->nlink += d; iupdate(ip).
iupdate(s, i, d) ==
  log_write([s EXCEPT !.ic[i].nlink = @ + d, !.di[i].nlink = s.ic[i].nlink + d])

FreeInodes(s) == { i \in Inode : s.di[i].type = "none" }

\* ialloc() takes the first inode that is free on the disk.
ialloc(s, i) == i \in FreeInodes(s) /\ \A j \in FreeInodes(s) : i <= j

\* A reference that nobody has any more.  One lost reference keeps an inode in
\* the cache as well as two do, so the count stops there.
leak(s, i) ==
  IF i \in s.leaked THEN [s EXCEPT !.ic[i].ref = @ - 1]
  ELSE [s EXCEPT !.leaked = @ \cup {i}]

dirlookup(s, d, n) == IF n \in Name \cup {".."} THEN s.di[d].ents[n] ELSE 0

\* Write an entry (0 to erase it): writei() on the directory.
SetEntry(s, d, n, i) == log_write([s EXCEPT !.di[d].ents[n] = i])

\* dp->nlink++ for the ".." of a new directory.
DotDot(s, d, type) == IF type = "T_DIR" THEN iupdate(s, d, 1) ELSE s

isdirempty(s, i) == \A n \in Name : s.di[i].ents[n] = 0

Removable(s, i) == s.ic[i].type # "T_DIR" \/ isdirempty(s, i)
=============================================================================
