------------------------------- MODULE DirState -------------------------------
(***************************************************************************)
(* The state of the system calls on files and directories (sysfile.c): the *)
(* inodes and their cache, and for each process where it is in the kernel, *)
(* the inodes that it has pointers to and the locks that it holds.  The    *)
(* invariants that the calls keep are stated here; the calls are in        *)
(* Dir.tla.                                                                *)
(***************************************************************************)
EXTENDS Inodes

CONSTANTS MAX_SYMLINK_LOOPS,
          Calls,      \* the system calls that each process may make
          MaxCalls    \* bound on the number of calls of each process

\* The system calls, with the ways to open a file told apart.
Ops == {"creat", "openrd", "openwr", "openi", "mkdir", "mknod", "symlink", "link", "unlink",
        "chdir", "exec", "readlink", "close", "exit"}

ASSUME LoopsAssumption == MAX_SYMLINK_LOOPS \in Nat
ASSUME CallsAssumption ==
  \A p \in Proc : Calls[p] \subseteq [op : Ops, path : Path, text : Path]

Absolute(path) == path # <<>> /\ Head(path) = "/"
Elems(path) == IF Absolute(path) THEN Tail(path) ELSE path

VARIABLES
  fs,     \* the inodes and the inode cache
  home,   \* the inodes as of the last commit, which is what a crash leaves
  pr,     \* where each process is in the kernel, and its local variables
  cwd,    \* proc->cwd
  file,   \* the inode of the open file, if any (one descriptor per process)
  calls   \* number of calls made

vars == <<fs, home, pr, cwd, file, calls>>

Idle == [pc |-> "user", op |-> "none", path |-> <<>>, rest |-> <<>>, par |-> FALSE,
         ret |-> "user", name |-> "", cur |-> 0, ip |-> 0, dp |-> 0,
         orig |-> <<>>, res |-> <<>>, loops |-> 0, text |-> <<>>]
-----------------------------------------------------------------------------
(***************************************************************************)
(* Steps of a process p: fs becomes s, and its local variables l.  The     *)
(* kernel stops where it panics: nothing of the step reaches the disk.     *)
(***************************************************************************)
Step(p, s, l) ==
  /\ fs' = IF s.panic THEN Panic(fs) ELSE s
  /\ pr' = [pr EXCEPT ![p] = l]
  /\ calls' = [calls EXCEPT ![p] = @ + (IF pr[p].pc = "user" THEN 1 ELSE 0)]

Return(p, s) == Step(p, s, Idle) /\ UNCHANGED <<home, cwd, file>>

Goto(p, s, l) == Step(p, s, l) /\ UNCHANGED <<home, cwd, file>>

\* commit_trans(), unless the kernel has stopped before it.
commit_trans(s) == IF s.panic THEN s ELSE [s EXCEPT !.trans = None]

\* commit_trans() and return; commit_trans() and go on.
Commit(p, s, l) ==
  /\ Step(p, commit_trans(s), l)
  /\ home' = IF s.panic THEN home ELSE s.di
  /\ UNCHANGED <<cwd, file>>

begin_trans(p) == fs.trans = None

Begun(p) == [fs EXCEPT !.trans = p]

\* p is at l, and the kernel has not stopped in panic().
At(p, l) == ~fs.panic /\ pr[p].pc = l

\* ilock() waits until the inode is not I_BUSY.
CanLock(i) == fs.ic[i].busy = None

\* userinit(), after a mkfs or a crash: init has the root as its cwd, and so has
\* every process that it starts.
Boot(di) ==
  [di |-> di, trans |-> None, leaked |-> {}, panic |-> FALSE,
   ic |-> [i \in Inode |-> IF i = ROOTINO THEN [NotCached EXCEPT !.ref = Cardinality(Proc) + 1]
                           ELSE NotCached]]

-----------------------------------------------------------------------------
Count(S) == Cardinality(S)

\* Where a process waits, or will go on after namex().
Pcs == {"user", "walk", "readlink", "link_begin", "link_inc", "link_add", "link_bad",
        "unlink_begin", "unlink_dp", "unlink_ip", "create_begin", "create_dp", "create_old",
        "opened", "filealloc", "fileclose", "exit"}

LocalType ==
  [pc : Pcs, op : Ops \cup {"none"}, path : Path, rest : Path, par : BOOLEAN, ret : Pcs,
   name : Elem, cur : 0..NInodes, ip : 0..NInodes, dp : 0..NInodes,
   orig : Path, res : Path, loops : Int, text : Path]

TypeOK ==
  /\ fs \in FsType
  /\ home \in DiType
  /\ pr \in [Proc -> LocalType]
  /\ cwd \in [Proc -> Inode]
  /\ file \in [Proc -> 0..NInodes]

\* The pointers to inode i that processes have, the cwd of init among them.
Pointers(i) ==
  Count({ p \in Proc : cwd[p] = i }) + Count({ p \in Proc : file[p] = i })
  + Count({ p \in Proc : pr[p].cur = i }) + Count({ p \in Proc : pr[p].ip = i })
  + Count({ p \in Proc : pr[p].dp = i }) + Is(i, ROOTINO)

\* fs.c:125 "ip->ref tracks the number of in-memory pointers to the entry", but for
\* the references that filereadlink() and filesymlink() never put: no call puts an
\* inode twice, or forgets another one, on any of its error paths.
RefsAreCounted ==
  /\ TypeOK
  /\ ~fs.panic => \A i \in Inode :
       fs.ic[i].ref = Pointers(i) + (IF i \in fs.leaked THEN 1 ELSE 0)

\* The inode that p waits to lock at its next step.
Wanted(p) ==
  CASE pr[p].pc \in {"walk", "readlink", "link_add", "create_dp", "opened"} -> pr[p].cur
    [] pr[p].pc \in {"link_inc", "link_bad", "unlink_ip", "create_old"} -> pr[p].ip
    [] pr[p].pc = "unlink_dp" -> pr[p].dp
    [] OTHER -> 0

Waits(p) ==
  \/ Wanted(p) # 0 /\ fs.ic[Wanted(p)].busy # None
  \/ pr[p].pc \in {"link_begin", "unlink_begin", "create_begin", "fileclose"} /\ fs.trans # None

\* No deadlock between the locks of inodes (a process may hold a directory's while
\* it waits for an entry's) and the log, unless filereadlink() left a lock behind.
NoDeadlock ==
  LET inside == { p \in Proc : pr[p].pc # "user" } IN
  inside # {} /\ ~fs.panic /\ (\A i \in Inode : fs.ic[i].busy # Left) =>
    \E p \in inside : ~Waits(p)
-----------------------------------------------------------------------------
(***************************************************************************)
(* The inductive invariant.                                                *)
(***************************************************************************)

\* The pointers that a process has at each place in a call.  (After namei(), cur may
\* be null.)  A process that opens a file has none yet.
LocalsOK(l, f) ==
  /\ l.pc \in {"user", "create_begin", "fileclose", "exit"} => l.cur = 0 /\ l.ip = 0 /\ l.dp = 0
  /\ l.pc = "walk" =>
       /\ l.cur # 0 /\ l.dp = 0 /\ (l.ip # 0 <=> l.ret = "link_add")
       /\ IF l.par THEN l.ret \in {"unlink_begin", "link_add", "create_dp"}
          ELSE l.ret \in {"readlink", "link_begin", "opened"}
  /\ l.pc \in {"readlink", "link_begin", "unlink_begin", "create_dp", "opened"} =>
       l.ip = 0 /\ l.dp = 0
  /\ l.pc = "link_add" => l.ip # 0 /\ l.dp = 0
  /\ l.pc \in {"link_inc", "link_bad", "create_old", "filealloc"} =>
       l.cur = 0 /\ l.ip # 0 /\ l.dp = 0
  /\ l.pc = "unlink_dp" => l.cur = 0 /\ l.ip = 0 /\ l.dp # 0
  /\ l.pc = "unlink_ip" => l.cur = 0 /\ l.ip # 0 /\ l.dp # 0 /\ l.ip # l.dp
  /\ l.op \in {"creat", "openrd", "openwr", "openi"} \/ l.pc = "filealloc" => f = 0
  /\ l.pc = "fileclose" => f # 0
  /\ l.pc \in {"create_begin", "create_dp", "create_old"} \/ (l.pc = "walk" /\ l.ret = "create_dp") =>
       l.op \in {"creat", "mkdir", "mknod", "symlink"}
  /\ l.pc = "readlink" \/ (l.pc = "walk" /\ l.ret = "readlink") => l.orig # <<>>

\* The calls that are in a transaction; the inode that a process has locked.
InTrans(l) ==
  \/ l.pc \in {"link_inc", "link_add", "link_bad", "unlink_dp", "unlink_ip", "create_dp", "create_old"}
  \/ l.pc = "walk" /\ l.ret \in {"link_add", "create_dp"}

Holds(l, i) == (l.pc = "unlink_ip" /\ l.dp = i) \/ (l.pc = "filealloc" /\ l.ip = i)

\* What a process relies on about the types of inodes that it has pointers to, but
\* has not locked all the time.
TypesOK(l, di) ==
  /\ l.pc \in {"link_add", "create_dp", "unlink_begin"} /\ l.cur # 0 => di[l.cur].type = "T_DIR"
  /\ l.pc \in {"unlink_dp", "unlink_ip"} => di[l.dp].type = "T_DIR"
  /\ l.pc \in {"link_add", "link_bad"} \/ (l.pc = "walk" /\ l.ret = "link_add") =>
       di[l.ip].type \notin {"none", "T_DIR"}
  /\ l.pc = "filealloc" => di[l.ip].type # "none"

\* No directory has itself as an entry.
NoSelf(di) == \A i \in Inode, n \in Name : di[i].ents[n] # i

\* The locks, and the cached copies of inodes.
CacheOK(s) ==
  \A i \in Inode :
    /\ s.ic[i].busy = Left => i \in s.leaked
    /\ s.ic[i].valid => s.ic[i].type = s.di[i].type /\ s.di[i].type # "none"

LocksInv ==
  /\ CacheOK(fs) /\ NoSelf(fs.di)
  /\ \A p \in Proc :
       /\ fs.trans = p <=> InTrans(pr[p])
       /\ \A i \in Inode : fs.ic[i].busy = p <=> Holds(pr[p], i)
       /\ TypesOK(pr[p], fs.di)

\* What all the calls rely on between their steps, whatever the other processes do
\* there: every I_BUSY inode is locked by the call that is going to unlock it and the log
\* is held by the call that is going to commit; a directory or a file that a call has a
\* pointer to, and has unlocked, is still one; an inode in the cache has its type of the
\* disk; no directory is an entry of itself.
DirInv ==
  /\ RefsAreCounted
  /\ NoSelf(home)
  /\ ~fs.panic => LocksInv /\ \A p \in Proc : LocalsOK(pr[p], file[p])
=============================================================================
