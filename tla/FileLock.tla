------------------------------- MODULE FileLock -------------------------------
(***************************************************************************)
(* Protected files: fprot(), funprot() and funlock() (file.c), the table   *)
(* of unlocked inodes (fs.c), and the calls that use it or that the scan   *)
(* of is_inode_open() looks at: open, close, fork, exit (sysfile.c, file.c,*)
(* proc.c), with the file table.                                           *)
(*                                                                         *)
(* Paths are resolved to inodes.  A step is what happens under one lock:   *)
(* ptable.lock, ftable.lock, unlocked_inodes.lock or the I_BUSY bit of an  *)
(* inode; what a process does between two of them races with the others.   *)
(***************************************************************************)
EXTENDS Integers, Sequences, FiniteSets, FiniteSetsExt

CONSTANTS NPROC, NOFILE, NFILE, Inode,
          Regular,   \* the inodes of type T_FILE
          Password,  \* what a caller may pass: strings, as sequences
          PASSLEN,
          MaxPid,    \* bound on the processes ever created
          NoInode

ASSUME NprocAssumption == NPROC \in Nat \ {0}
ASSUME MaxPidAssumption == MaxPid \in Nat \ {0}
ASSUME FilesAssumption == NOFILE \in Nat /\ NFILE \in Nat
ASSUME PasslenAssumption == PASSLEN \in Nat \ {0}
ASSUME PasswordAssumption == Password \subseteq Seq(STRING)
ASSUME RegularAssumption == Regular \subseteq Inode
ASSUME NoInodeAssumption == NoInode \notin Inode

Slot == 1 .. NPROC
NoSlot == 0
File == 1 .. NFILE
NoFile == 0
Fd == 0 .. NOFILE - 1
Pid == 1 .. MaxPid

VARIABLES
  state, pid, nextpid, ofile,   \* ptable
  ref, type, ip,                \* ftable: fields of struct file
  password,                     \* of each inode, cut to PASSLEN - 1
  busy,                         \* I_BUSY: the process that locked the inode
  pids,                         \* unlocked_inodes.pids
  panicked,
  pc, inode, file, child, scan  \* where a process is in a call

procs == <<state, pid, nextpid>>
files == <<ref, type, ip>>
inodes == <<password, busy>>
locals == <<inode, file, child, scan>>
vars == <<state, pid, nextpid, ofile, ref, type, ip, password, busy,
          pids, panicked, pc, inode, file, child, scan>>

Pcs == {"user", "open", "opened", "typed", "fprot", "forked", "inherited", "exiting"}

\* The process table and the table of unlocked inodes.
TableTypes ==
  /\ state \in [Slot -> {"UNUSED", "EMBRYO", "RUNNING", "ZOMBIE"}]
  /\ pid \in [Slot -> Pid \cup {0}]
  /\ nextpid \in 1 .. MaxPid + 1
  /\ pids \in [Inode -> [Slot -> Pid \cup {0}]]
  /\ pc \in [Slot -> Pcs]
  /\ child \in [Slot -> Slot \cup {NoSlot}]

\* The descriptors, and the reference counts of the file table.
FileTypes ==
  /\ ofile \in [Slot -> [Fd -> File \cup {NoFile}]]
  /\ ref \in [File -> 0 .. NPROC * NOFILE]

\* A password leaves room for the 0 that ends it.
PasswordTypes ==
  /\ password \in [Inode -> Seq(STRING)]
  /\ \A i \in Inode : Len(password[i]) < PASSLEN

\* What the calls on files use besides.
CallTypes ==
  /\ type \in [File -> {"FD_NONE", "FD_INODE"}]
  /\ ip \in [File -> Inode \cup {NoInode}]
  /\ busy \in [Inode -> Slot \cup {NoSlot}]
  /\ inode \in [Slot -> Inode \cup {NoInode}]
  /\ file \in [Slot -> File \cup {NoFile}]
  /\ scan \in [Slot -> 0 .. NPROC + 1]

TypeOK == TableTypes /\ FileTypes /\ PasswordTypes /\ CallTypes /\ panicked \in BOOLEAN

\* userinit() has made the first process.
Init ==
  /\ state = [s \in Slot |-> IF s = 1 THEN "RUNNING" ELSE "UNUSED"]
  /\ pid = [s \in Slot |-> IF s = 1 THEN 1 ELSE 0]
  /\ nextpid = 2
  /\ ofile = [s \in Slot |-> [d \in Fd |-> NoFile]]
  /\ ref = [f \in File |-> 0]
  /\ type = [f \in File |-> "FD_NONE"]
  /\ ip = [f \in File |-> NoInode]
  /\ password = [i \in Inode |-> <<>>]
  /\ busy = [i \in Inode |-> NoSlot]
  /\ pids = [i \in Inode |-> [j \in Slot |-> 0]]
  /\ panicked = FALSE
  /\ pc = [s \in Slot |-> "user"]
  /\ inode = [s \in Slot |-> NoInode]
  /\ file = [s \in Slot |-> NoFile]
  /\ child = [s \in Slot |-> NoSlot]
  /\ scan = [s \in Slot |-> 0]

At(s, l) == state[s] = "RUNNING" /\ pc[s] = l
Go(s, l) == pc' = [pc EXCEPT ![s] = l]
-----------------------------------------------------------------------------
(***************************************************************************)
(* The table of unlocked inodes (fs.c) and passwords                       *)
(***************************************************************************)

is_inode_unlocked(i, s) == \E j \in Slot : pids[i][j] = pid[s]

\* Mutation: the last entry is never used.
FreeEntries_off_by_one(i) == { j \in 1 .. NPROC - 1 : pids[i][j] = 0 }

FreeEntries(i) == { j \in Slot : pids[i][j] = 0 }

\* Row i of the table with process n in its first free entry.
Enter(i, n) ==
  IF FreeEntries(i) = {} THEN pids[i] ELSE [pids[i] EXCEPT ![Min(FreeEntries(i))] = n]

unlock_inode(i, s) ==
  IF is_inode_unlocked(i, s) THEN UNCHANGED <<pids, panicked>>
  ELSE /\ pids' = [pids EXCEPT ![i] = Enter(i, pid[s])]
       /\ panicked' = (FreeEntries(i) = {})

\* Mutation: the child inherits nothing.
fork_pids_none(s, n) == UNCHANGED <<pids, panicked>>

fork_pids(s, n) ==
  LET Inherited == { i \in Inode : is_inode_unlocked(i, s) }
  IN /\ pids' = [i \in Inode |-> IF i \in Inherited THEN Enter(i, pid[n]) ELSE pids[i]]
     /\ panicked' = \E i \in Inherited : FreeEntries(i) = {}

free_inode_locks(s) ==
  pids' = [i \in Inode |-> [j \in Slot |-> IF pids[i][j] = pid[s] THEN 0 ELSE pids[i][j]]]

Prefix(str, n) == SubSeq(str, 1, Min({Len(str), n}))

\* safestrcpy() leaves room for the 0; strncmp() looks at PASSLEN characters.
safestrcpy(str) == Prefix(str, PASSLEN - 1)

Matches(i, str) == password[i] = Prefix(str, PASSLEN)
Protected(i) == password[i] # <<>>
-----------------------------------------------------------------------------
(***************************************************************************)
(* open() and close()                                                      *)
(***************************************************************************)

ilock(s, i) == busy[i] = NoSlot /\ busy' = [busy EXCEPT ![i] = s]
iunlock(i) == busy' = [busy EXCEPT ![i] = NoSlot]

\* namei() and ilock(), also by way of create() for a file that exists.
sys_open(s, i) ==
  /\ At(s, "user")
  /\ ilock(s, i)
  /\ inode' = [inode EXCEPT ![s] = i]
  /\ Go(s, "open")
  /\ UNCHANGED <<procs, ofile, files, password, pids, panicked, file, child, scan>>

FreeFiles == { f \in File : ref[f] = 0 }
FreeFds(s) == { d \in Fd : ofile[s][d] = NoFile }

\* The file has a password that the caller did not give, or there is no free
\* file or descriptor.
open_fail(s) ==
  /\ At(s, "open")
  /\ \/ Protected(inode[s]) /\ ~is_inode_unlocked(inode[s], s)
     \/ FreeFiles = {}
     \/ FreeFds(s) = {}
  /\ iunlock(inode[s])
  /\ inode' = [inode EXCEPT ![s] = NoInode]
  /\ Go(s, "user")
  /\ UNCHANGED <<procs, ofile, files, password, pids, panicked, file, child, scan>>

\* filealloc(), fdalloc() and then iunlock().
open_alloc(s) ==
  /\ At(s, "open")
  /\ Protected(inode[s]) => is_inode_unlocked(inode[s], s)
  /\ FreeFiles # {} /\ FreeFds(s) # {}
  /\ LET f == Min(FreeFiles) IN
       /\ ref' = [ref EXCEPT ![f] = 1]
       /\ ofile' = [ofile EXCEPT ![s][Min(FreeFds(s))] = f]
       /\ file' = [file EXCEPT ![s] = f]
  /\ iunlock(inode[s])
  /\ Go(s, "opened")
  /\ UNCHANGED <<procs, type, ip, password, pids, panicked, inode, child, scan>>

\* f->type = FD_INODE, when the inode is no longer locked ...
open_type(s) ==
  /\ At(s, "opened")
  /\ type' = [type EXCEPT ![file[s]] = "FD_INODE"]
  /\ Go(s, "typed")
  /\ UNCHANGED <<procs, ofile, ref, ip, inodes, pids, panicked, locals>>

\* ... and f->ip = ip after it.
open_return(s) ==
  /\ At(s, "typed")
  /\ ip' = [ip EXCEPT ![file[s]] = inode[s]]
  /\ inode' = [inode EXCEPT ![s] = NoInode]
  /\ file' = [file EXCEPT ![s] = NoFile]
  /\ Go(s, "user")
  /\ UNCHANGED <<procs, ofile, ref, type, inodes, pids, panicked, child, scan>>

\* Mutation: the reference count is not decremented.
fileclose_leak(n) ==
  /\ ref' = ref
  /\ type' = [f \in File |-> IF n[f] > 0 /\ n[f] = ref[f] THEN "FD_NONE" ELSE type[f]]

\* fileclose() for n descriptors of each file.
fileclose(n) ==
  /\ ref' = [f \in File |-> ref[f] - n[f]]
  /\ type' = [f \in File |-> IF n[f] > 0 /\ n[f] = ref[f] THEN "FD_NONE" ELSE type[f]]

sys_close(s, d) ==
  /\ At(s, "user")
  /\ ofile[s][d] # NoFile
  /\ ofile' = [ofile EXCEPT ![s][d] = NoFile]
  /\ fileclose([f \in File |-> IF f = ofile[s][d] THEN 1 ELSE 0])
  /\ UNCHANGED <<procs, ip, inodes, pids, panicked, pc, locals>>

\* fdalloc() and filedup().
sys_dup(s, d) ==
  /\ At(s, "user")
  /\ ofile[s][d] # NoFile /\ FreeFds(s) # {}
  /\ ofile' = [ofile EXCEPT ![s][Min(FreeFds(s))] = ofile[s][d]]
  /\ ref' = [ref EXCEPT ![ofile[s][d]] = @ + 1]
  /\ UNCHANGED <<procs, type, ip, inodes, pids, panicked, pc, locals>>

Descriptors(s, f) == { d \in Fd : ofile[s][d] = f }
-----------------------------------------------------------------------------
(***************************************************************************)
(* fork(), exit() and the wait() that follows it                           *)
(***************************************************************************)

\* allocproc()
fork(s, n) ==
  /\ At(s, "user")
  /\ state[n] = "UNUSED" /\ \A m \in 1 .. n - 1 : state[m] # "UNUSED"
  /\ nextpid <= MaxPid
  /\ state' = [state EXCEPT ![n] = "EMBRYO"]
  /\ pid' = [pid EXCEPT ![n] = nextpid]
  /\ nextpid' = nextpid + 1
  /\ child' = [child EXCEPT ![s] = n]
  /\ Go(s, "forked")
  /\ UNCHANGED <<ofile, files, inodes, pids, panicked, inode, file, scan>>

\* No memory for the stack or for copyuvm().
fork_fail(s) ==
  /\ At(s, "forked")
  /\ state' = [state EXCEPT ![child[s]] = "UNUSED"]
  /\ child' = [child EXCEPT ![s] = NoSlot]
  /\ Go(s, "user")
  /\ UNCHANGED <<pid, nextpid, ofile, files, inodes, pids, panicked, inode, file, scan>>

fork_inherit(s) ==
  /\ At(s, "forked")
  /\ fork_pids(s, child[s])
  /\ Go(s, "inherited")
  /\ UNCHANGED <<procs, ofile, files, inodes, locals>>

\* filedup() of every open file; the child may run.
fork_return(s) ==
  /\ At(s, "inherited")
  /\ ofile' = [ofile EXCEPT ![child[s]] = ofile[s]]
  /\ ref' = [f \in File |-> ref[f] + Cardinality(Descriptors(s, f))]
  /\ state' = [state EXCEPT ![child[s]] = "RUNNING"]
  /\ child' = [child EXCEPT ![s] = NoSlot]
  /\ Go(s, "user")
  /\ UNCHANGED <<pid, nextpid, type, ip, inodes, pids, panicked, inode, file, scan>>

\* exit() closes all files; the first process never exits ...
exit(s) ==
  /\ At(s, "user") /\ s # 1
  /\ ofile' = [ofile EXCEPT ![s] = [d \in Fd |-> NoFile]]
  /\ fileclose([f \in File |-> Cardinality(Descriptors(s, f))])
  /\ Go(s, "exiting")
  /\ UNCHANGED <<procs, ip, inodes, pids, panicked, locals>>

\* ... then forgets what the process unlocked, and the process is a zombie.
exit_zombie(s) ==
  /\ At(s, "exiting")
  /\ free_inode_locks(s)
  /\ state' = [state EXCEPT ![s] = "ZOMBIE"]
  /\ Go(s, "user")
  /\ UNCHANGED <<pid, nextpid, ofile, files, inodes, panicked, locals>>

\* Whoever is the parent now reaps it.
wait(s) ==
  /\ state[s] = "ZOMBIE"
  /\ state' = [state EXCEPT ![s] = "UNUSED"]
  /\ pid' = [pid EXCEPT ![s] = 0]
  /\ UNCHANGED <<nextpid, ofile, files, inodes, pids, panicked, pc, locals>>
-----------------------------------------------------------------------------
(***************************************************************************)
(* fprot(), funprot() and funlock()                                        *)
(***************************************************************************)

\* namei() and ilock(); the type and the password are tested at once, since only
\* the holder of the lock changes them.
filefprot(s, i) ==
  /\ At(s, "user")
  /\ i \in Regular /\ ~Protected(i)
  /\ ilock(s, i)
  /\ inode' = [inode EXCEPT ![s] = i]
  /\ scan' = [scan EXCEPT ![s] = 1]
  /\ Go(s, "fprot")
  /\ UNCHANGED <<procs, ofile, files, password, pids, panicked, file, child>>

\* What the test of is_inode_open() for a file may give.  Between the two
\* assignments of open(), f->ip is what the file's last use left there, or null:
\* then the inum is whatever is at that address.
SeenOpen(f, i) ==
  CASE f = NoFile \/ (f # NoFile /\ type[f] # "FD_INODE") -> {FALSE}
    [] f # NoFile /\ type[f] = "FD_INODE" /\ ip[f] = NoInode -> BOOLEAN
    [] OTHER -> {ip[f] = i}

Done(s) ==
  /\ iunlock(inode[s])
  /\ inode' = [inode EXCEPT ![s] = NoInode]
  /\ scan' = [scan EXCEPT ![s] = 0]
  /\ Go(s, "user")

\* is_inode_open() is between two processes of the table: it has ptable.lock.
Scanning == \E s \in Slot : At(s, "fprot") /\ scan[s] \in 2 .. NPROC

\* is_inode_open() looks at the processes in turn.  It holds ptable.lock, which
\* no process takes to open, dup or close a file: only table entries stay.
is_inode_open(s) ==
  /\ At(s, "fprot")
  /\ scan[s] <= NPROC
  /\ scan[s] = 1 => ~Scanning
  /\ \/ /\ state[scan[s]] # "UNUSED"
        /\ \E d \in Fd : TRUE \in SeenOpen(ofile[scan[s]][d], inode[s])
        /\ Done(s)
        /\ UNCHANGED password
     \/ /\ state[scan[s]] # "UNUSED" =>
             \A d \in Fd : FALSE \in SeenOpen(ofile[scan[s]][d], inode[s])
        /\ scan' = [scan EXCEPT ![s] = @ + 1]
        /\ UNCHANGED <<busy, inode, pc, password>>
  /\ UNCHANGED <<procs, ofile, files, pids, panicked, file, child>>

fprot_return(s, str) ==
  /\ At(s, "fprot")
  /\ scan[s] = NPROC + 1
  /\ password' = [password EXCEPT ![inode[s]] = safestrcpy(str)]
  /\ Done(s)
  /\ UNCHANGED <<procs, ofile, files, pids, panicked, file, child>>

\* funprot() runs under the lock of the inode from its first test to its return.
filefunprot(s, i, str) ==
  /\ At(s, "user")
  /\ busy[i] = NoSlot
  /\ Protected(i) /\ Matches(i, str)
  /\ password' = [password EXCEPT ![i] = <<>>]
  /\ UNCHANGED <<procs, ofile, files, busy, pids, panicked, pc, locals>>

filefunlock(s, i, str) ==
  /\ At(s, "user")
  /\ busy[i] = NoSlot
  /\ Protected(i) /\ Matches(i, str)
  /\ unlock_inode(i, s)
  /\ UNCHANGED <<procs, ofile, files, inodes, pc, locals>>
-----------------------------------------------------------------------------
\* What needs ptable.lock.
TableStep(s) ==
  /\ ~Scanning
  /\ \/ \E n \in Slot : fork(s, n)
     \/ exit_zombie(s)
     \/ wait(s)

Step(s) ==
  \/ \E i \in Inode : sys_open(s, i) \/ filefprot(s, i)
  \/ open_fail(s)
  \/ open_alloc(s)
  \/ open_type(s)
  \/ open_return(s)
  \/ \E d \in Fd : sys_close(s, d) \/ sys_dup(s, d)
  \/ fork_fail(s)
  \/ fork_inherit(s)
  \/ fork_return(s)
  \/ exit(s)
  \/ is_inode_open(s)
  \/ \E str \in Password : fprot_return(s, str)
  \/ \E i \in Inode, str \in Password : filefunprot(s, i, str) \/ filefunlock(s, i, str)

Next == ~panicked /\ \E s \in Slot : Step(s) \/ TableStep(s)

Spec == Init /\ [][Next]_vars
-----------------------------------------------------------------------------
\* The processes that may have an entry in the table: live, or being forked by a
\* parent that has come as far as fork_pids().
Entered ==
  { s \in Slot : \/ state[s] = "RUNNING"
                 \/ \E q \in Slot : At(q, "inherited") /\ child[q] = s }

\* A row of the table has one entry for a process at most, and only entries of
\* live processes: unlocking twice, forking and exiting in any order leave no
\* entry behind and lose none.
EntriesOfLiveProcesses ==
  \A i \in Inode :
    /\ \A j, k \in Slot : pids[i][j] = pids[i][k] /\ pids[i][j] # 0 => j = k
    /\ \A j \in Slot : pids[i][j] # 0 => \E s \in Entered : pid[s] = pids[i][j]

\* So neither of the panics "No free pid slots found" can happen: there are as
\* many entries for an inode as there are processes.
NoFreePidSlotsUnreachable == EntriesOfLiveProcesses /\ ~panicked

\* The table is the relation that UnlockSet describes: in particular fork() gives
\* the child all that its parent unlocked, and an entry never outlives a process.
Unlocked == { u \in Pid \X Inode : \E j \in Slot : pids[u[2]][j] = u[1] }
Live == { pid[s] : s \in Entered }
Table == INSTANCE UnlockSet WITH live <- Live, unlocked <- Unlocked
UnlockRelation == Table!Spec

\* The descriptors of all processes that have file f.
Holders(f) == { x \in Slot \X Fd : ofile[x[1]][x[2]] = f }

\* struct file.ref counts the descriptors of all processes, so that a file is
\* free exactly when no process has it; and a process that is not there yet, or
\* has come through exit(), has no file.
RefCountsDescriptors ==
  /\ TypeOK
  /\ \A f \in File : ref[f] = Cardinality(Holders(f))
  /\ \A s \in Slot : state[s] # "RUNNING" \/ pc[s] = "exiting" =>
       \A d \in Fd : ofile[s][d] = NoFile

\* Process s has inode i open, though open() may not have returned yet.
HasOpen(s, i) ==
  \/ \E d \in Fd : LET f == ofile[s][d] IN f # NoFile /\ type[f] = "FD_INODE" /\ ip[f] = i
                                           /\ ~(pc[s] = "typed" /\ file[s] = f)
  \/ pc[s] \in {"opened", "typed"} /\ inode[s] = i

\* file.c:191 "File is already open by some process": fprot() fails for a file
\* that is open, so a process that has a protected file open has unlocked it.
ProtectedFilesOpenOnlyIfUnlocked ==
  \A s \in Slot, i \in Inode :
    state[s] = "RUNNING" /\ Protected(i) /\ HasOpen(s, i) => is_inode_unlocked(i, s)
-----------------------------------------------------------------------------
(***************************************************************************)
(* The inductive invariant behind NoFreePidSlotsUnreachable and            *)
(* UnlockRelation.                                                         *)
(***************************************************************************)

\* A pid is not used again, so that no entry can be taken for that of a later process.
PidInv ==
  \A s \in Slot :
    /\ pid[s] < nextpid
    /\ state[s] # "UNUSED" => pid[s] # 0
    /\ \A q \in Slot : pid[q] = pid[s] /\ pid[s] # 0 => q = s

\* Each fork() has an EMBRYO of its own.
ChildInv ==
  \A s \in Slot :
    /\ state[s] # "RUNNING" => pc[s] = "user"
    /\ pc[s] \in {"forked", "inherited"} =>
         /\ child[s] \in Slot /\ state[child[s]] = "EMBRYO"
         /\ \A q \in Slot : pc[q] \in {"forked", "inherited"} /\ child[q] = child[s] => q = s

TableInv == TableTypes /\ PidInv /\ ChildInv /\ EntriesOfLiveProcesses /\ ~panicked
=============================================================================
