--------------------------------- MODULE Dir ---------------------------------
(***************************************************************************)
(* Path names (fs.c) and the system calls on files and directories         *)
(* (sysfile.c), run by several processes over the inode cache and the log. *)
(*                                                                         *)
(* A step ends where a process may wait: for an inode's I_BUSY or for the  *)
(* log.  What it does in between is a composition of the functions of fs.c *)
(* of Inodes.tla.  A commit is one step of the disk: that is what          *)
(* Log.tla establishes.  Blocks, and the data of files, are in Blocks.tla, *)
(* passwords in FileLock.tla.                                              *)
(***************************************************************************)
EXTENDS DirState

-----------------------------------------------------------------------------
\* namex(path, par): walk from the root or from cwd, then go on at ret with the
\* inode, or 0, in cur.
namex(p, s, l, path, par, ret) ==
  LET start == IF Absolute(path) THEN ROOTINO ELSE cwd[p] IN
  Goto(p, IF Absolute(path) THEN iget(s, start) ELSE idup(s, start),
       [l EXCEPT !.cur = start, !.rest = Elems(path), !.par = par, !.ret = ret,
                 !.pc = IF Elems(path) = <<>> /\ ~par THEN ret ELSE "walk"])

\* One round of the loop of namex(), or the end of nameiparent("/").
walk(p) ==
  LET l == pr[p]
      d == l.cur
      s == ilock(fs, p, d)
      n == Head(l.rest)
      next == dirlookup(s, d, n)
      found(t, i) == Goto(p, t, [l EXCEPT !.pc = l.ret, !.rest = <<>>, !.cur = i, !.name = n])
  IN /\ At(p, "walk")
     /\ \/ l.rest = <<>> /\ Goto(p, iput(fs, d), [l EXCEPT !.pc = l.ret, !.cur = 0])
        \/ /\ l.rest # <<>> /\ CanLock(d)
           /\ \/ s.ic[d].type # "T_DIR" /\ found(iunlockput(s, d), 0)
              \/ /\ s.ic[d].type = "T_DIR"
                 /\ \/ l.par /\ Len(l.rest) = 1 /\ found(iunlock(s, d), d)
                    \/ /\ ~(l.par /\ Len(l.rest) = 1)
                       /\ \/ next = 0 /\ found(iunlockput(s, d), 0)
                          \/ /\ next # 0
                             /\ Goto(p, iunlockput(iget(s, next), d),
                                     [l EXCEPT !.cur = next, !.rest = Tail(@),
                                               !.pc = IF ~l.par /\ Len(l.rest) = 1
                                                      THEN l.ret ELSE "walk"])
-----------------------------------------------------------------------------
(***************************************************************************)
(* filereadlink() and filereadlinki(): resolve the symbolic links of a     *)
(* path; the latter (for creat and symlink) leaves the last element alone. *)
(***************************************************************************)
NoFollow(l) == l.op \in {"creat", "symlink", "openi"}

\* What the callers do with the resolved path.
Resolved(p, s, l, path) ==
  LET m == [l EXCEPT !.path = path, !.orig = <<>>, !.res = <<>>, !.loops = 0] IN
  CASE l.op \in {"creat", "symlink"} -> Goto(p, s, [m EXCEPT !.pc = "create_begin", !.cur = 0])
    [] l.op = "readlink" -> Return(p, s)
    [] OTHER -> namex(p, s, m, path, FALSE, "opened")

\* One round of the inner loop: orig is what skipelem() has left, res the result.
rl_elem(p, s, l, orig, res, loops) ==
  \/ orig = <<>> /\ Return(p, s)
  \/ orig # <<>> /\ Len(orig) = 1 /\ NoFollow(l) /\ Resolved(p, s, l, Append(res, Head(orig)))
  \/ /\ orig # <<>> /\ ~(Len(orig) = 1 /\ NoFollow(l))
     /\ namex(p, s, [l EXCEPT !.orig = orig, !.res = res, !.loops = loops],
              Append(res, Head(orig)), FALSE, "readlink")

restart(p, s, l, path, loops) ==
  rl_elem(p, s, l, Elems(path), IF Absolute(path) THEN <<"/">> ELSE <<>>, loops)

filereadlink(p, s, l, path) ==
  \/ path = <<"/">> /\ Resolved(p, s, l, path)
  \/ path # <<"/">> /\ restart(p, s, l, path, MAX_SYMLINK_LOOPS)

\* Mutation: the text of a relative link replaces the whole path before it.
Spliced_root(res, text, rest) == text \o rest

\* The path with the link's text in the place of its name.
Spliced(res, text, rest) == (IF Absolute(text) THEN text ELSE res \o text) \o rest

\* namei(result) has returned.  The inode is unlocked and never put; a file in
\* the middle of a path is not even unlocked.
readlink(p) ==
  LET l == pr[p]
      i == l.cur
      s == ilock(fs, p, i)
      t == leak(iunlock(s, i), i)
      m == [l EXCEPT !.cur = 0]
      last == Len(l.orig) = 1
      type == s.ic[i].type
  IN /\ At(p, "readlink")
     /\ \/ i = 0 /\ Return(p, fs)
        \/ /\ i # 0 /\ CanLock(i)
           /\ \/ /\ type \in {"T_FILE", "T_DEV", "T_DIR"} /\ last
                 /\ Resolved(p, t, m, Append(l.res, Head(l.orig)))
              \/ /\ type \in {"T_FILE", "T_DEV"} /\ ~last
                 /\ Return(p, [leak(s, i) EXCEPT !.ic[i].busy = Left])
              \/ /\ type = "T_DIR" /\ ~last
                 /\ rl_elem(p, t, m, Tail(l.orig), Append(l.res, Head(l.orig)), l.loops)
              \/ type = "T_SYMLINK" /\ l.loops = 1 /\ Return(p, t)
              \/ /\ type = "T_SYMLINK" /\ l.loops > 1
                 /\ restart(p, t, m, Spliced(l.res, s.di[i].text, Tail(l.orig)), l.loops - 1)
-----------------------------------------------------------------------------
(***************************************************************************)
(* sys_link().                                                             *)
(***************************************************************************)
link_begin(p) ==
  /\ At(p, "link_begin")
  /\ \/ pr[p].cur = 0 /\ Return(p, fs)
     \/ /\ pr[p].cur # 0 /\ begin_trans(p)
        /\ Goto(p, Begun(p), [pr[p] EXCEPT !.pc = "link_inc", !.ip = pr[p].cur, !.cur = 0])

\* Mutation: ip stays locked while the new name is looked up.
link_inc_locked(p) ==
  LET l == pr[p]
      s == ilock(fs, p, l.ip)
  IN /\ At(p, "link_inc") /\ CanLock(l.ip)
     /\ \/ s.ic[l.ip].type = "T_DIR" /\ Commit(p, iunlockput(s, l.ip), Idle)
        \/ /\ s.ic[l.ip].type # "T_DIR"
           /\ namex(p, iupdate(s, l.ip, 1), l, l.path, TRUE, "link_add")

\* nlink is raised before the new name is looked up.
link_inc(p) ==
  LET l == pr[p]
      s == ilock(fs, p, l.ip)
  IN /\ At(p, "link_inc") /\ CanLock(l.ip)
     /\ \/ s.ic[l.ip].type = "T_DIR" /\ Commit(p, iunlockput(s, l.ip), Idle)
        \/ /\ s.ic[l.ip].type # "T_DIR"
           /\ namex(p, iunlock(iupdate(s, l.ip, 1), l.ip), l, l.path, TRUE, "link_add")

\* dirlink(dp, name, ip): fails if the name is there.
link_add(p) ==
  LET l == pr[p]
      d == l.cur
      s == ilock(fs, p, d)
      bad(t) == Goto(p, t, [l EXCEPT !.pc = "link_bad", !.cur = 0])
  IN /\ At(p, "link_add")
     /\ \/ d = 0 /\ bad(fs)
        \/ /\ d # 0 /\ CanLock(d)
           /\ LET old == dirlookup(s, d, l.name) IN
              \/ old # 0 /\ bad(iunlockput(iput(iget(s, old), old), d))
              \/ old = 0 /\ Commit(p, iput(iunlockput(SetEntry(s, d, l.name, l.ip), d), l.ip), Idle)

\* Mutation: the count stays raised.
link_bad_kept(p) ==
  LET l == pr[p] IN
  /\ At(p, "link_bad") /\ CanLock(l.ip)
  /\ Commit(p, iunlockput(ilock(fs, p, l.ip), l.ip), Idle)

link_bad(p) ==
  LET l == pr[p] IN
  /\ At(p, "link_bad") /\ CanLock(l.ip)
  /\ Commit(p, iunlockput(iupdate(ilock(fs, p, l.ip), l.ip, -1), l.ip), Idle)
-----------------------------------------------------------------------------
(***************************************************************************)
(* sys_unlink().                                                           *)
(***************************************************************************)
unlink_begin(p) ==
  /\ At(p, "unlink_begin")
  /\ \/ pr[p].cur = 0 /\ Return(p, fs)
     \/ /\ pr[p].cur # 0 /\ begin_trans(p)
        /\ Goto(p, Begun(p), [pr[p] EXCEPT !.pc = "unlink_dp", !.dp = pr[p].cur, !.cur = 0])

unlink_dp(p) ==
  LET l == pr[p]
      s == ilock(fs, p, l.dp)
      i == dirlookup(s, l.dp, l.name)
      bad == Commit(p, iunlockput(s, l.dp), Idle)
  IN /\ At(p, "unlink_dp") /\ CanLock(l.dp)
     /\ \/ (l.name = ".." \/ i = 0) /\ bad
        \/ l.name # ".." /\ i # 0 /\ Goto(p, iget(s, i), [l EXCEPT !.pc = "unlink_ip", !.ip = i])

\* dp stays locked while the process waits for ip.
unlink_ip(p) ==
  LET l == pr[p]
      s == ilock(fs, p, l.ip)
      isdir == s.ic[l.ip].type = "T_DIR"
      erased == SetEntry(s, l.dp, l.name, 0)
      t == iunlockput(IF isdir THEN iupdate(erased, l.dp, -1) ELSE erased, l.dp)
  IN /\ At(p, "unlink_ip") /\ CanLock(l.ip)
     /\ \/ s.ic[l.ip].nlink < 1 /\ Return(p, Panic(s))
        \/ /\ s.ic[l.ip].nlink >= 1 /\ ~Removable(s, l.ip)
           /\ Commit(p, iunlockput(iunlockput(s, l.ip), l.dp), Idle)
        \/ /\ s.ic[l.ip].nlink >= 1 /\ Removable(s, l.ip)
           /\ Commit(p, iunlockput(iupdate(t, l.ip, -1), l.ip), Idle)
-----------------------------------------------------------------------------
(***************************************************************************)
(* create(), for creat (open with O_CREATE), mkdir, mknod and symlink.     *)
(***************************************************************************)
create_begin(p) ==
  /\ At(p, "create_begin") /\ begin_trans(p)
  /\ namex(p, Begun(p), pr[p], pr[p].path, TRUE, "create_dp")

TypeOf(op) ==
  CASE op = "creat" -> "T_FILE" [] op = "mkdir" -> "T_DIR"
    [] op = "mknod" -> "T_DEV" [] op = "symlink" -> "T_SYMLINK"

\* create() has returned the inode i, locked.
Created(p, s, l, i) ==
  CASE l.op = "creat" -> Commit(p, s, [Idle EXCEPT !.pc = "filealloc", !.ip = i])
    [] l.op = "symlink" -> Commit(p, leak(iunlock(s, i), i), Idle)
    [] OTHER -> Commit(p, iunlockput(s, i), Idle)

create_dp(p) ==
  LET l == pr[p]
      d == l.cur
      s == ilock(fs, p, d)
      old == dirlookup(s, d, l.name)
      type == TypeOf(l.op)
      new == Dinode(type, 1, IF type = "T_DIR" THEN [NoEnts EXCEPT ![".."] = d] ELSE NoEnts,
                    IF type = "T_SYMLINK" THEN l.text ELSE <<>>)
      made(i) == SetEntry(DotDot([s EXCEPT !.di[i] = new], d, type), d, l.name, i)
  IN /\ At(p, "create_dp")
     /\ \/ d = 0 /\ Commit(p, fs, Idle)
        \/ /\ d # 0 /\ CanLock(d)
           /\ \/ /\ old # 0
                 /\ Goto(p, iunlockput(iget(s, old), d),
                         [l EXCEPT !.pc = "create_old", !.ip = old, !.cur = 0])
              \/ old = 0 /\ FreeInodes(s) = {} /\ Return(p, Panic(s))
              \/ /\ old = 0
                 /\ \E i \in Inode :
                      /\ ialloc(s, i)
                      /\ Created(p, iunlockput(ilock(iget(made(i), i), p, i), d), l, i)

\* The name exists: only open(O_CREATE) of a file succeeds.
create_old(p) ==
  LET l == pr[p]
      s == ilock(fs, p, l.ip)
  IN /\ At(p, "create_old") /\ CanLock(l.ip)
     /\ \/ l.op = "creat" /\ s.ic[l.ip].type = "T_FILE" /\ Created(p, s, l, l.ip)
        \/ /\ ~(l.op = "creat" /\ s.ic[l.ip].type = "T_FILE")
           /\ Commit(p, iunlockput(s, l.ip), Idle)
-----------------------------------------------------------------------------
(***************************************************************************)
(* sys_open(), sys_chdir(), exec()'s use of its file, close and exit.      *)
(***************************************************************************)

\* namei(final_path) has returned.
opened(p) ==
  LET l == pr[p]
      i == l.cur
      s == ilock(fs, p, i)
      isdir == s.ic[i].type = "T_DIR"
  IN /\ At(p, "opened")
     /\ \/ i = 0 /\ Return(p, fs)
        \/ /\ i # 0 /\ CanLock(i)
           /\ \/ /\ l.op = "exec" \/ (l.op = "chdir" /\ ~isdir) \/ (l.op = "openwr" /\ isdir)
                 /\ Return(p, iunlockput(s, i))
              \/ /\ l.op = "chdir" /\ isdir
                 /\ Step(p, iput(iunlock(s, i), cwd[p]), Idle)
                 /\ cwd' = [cwd EXCEPT ![p] = i]
                 /\ UNCHANGED <<home, file>>
              \/ /\ l.op \in {"openrd", "openi"} \/ (l.op = "openwr" /\ ~isdir)
                 /\ Goto(p, s, [Idle EXCEPT !.pc = "filealloc", !.ip = i])

\* filealloc() and fdalloc(), either of which may fail; ip is locked.
filealloc(p) ==
  LET i == pr[p].ip IN
  /\ At(p, "filealloc")
  /\ \/ /\ Step(p, iunlock(fs, i), Idle)
        /\ file' = [file EXCEPT ![p] = i]
        /\ UNCHANGED <<home, cwd>>
     \/ Return(p, iunlockput(fs, i))

\* The last fileclose() of a file.
fileclose(p) ==
  /\ At(p, "fileclose") /\ begin_trans(p)
  /\ LET s == iput(Begun(p), file[p]) IN
       /\ Step(p, commit_trans(s),
               IF pr[p].op = "exit" THEN [pr[p] EXCEPT !.pc = "exit"] ELSE Idle)
       /\ home' = IF s.panic THEN home ELSE s.di
  /\ file' = [file EXCEPT ![p] = 0]
  /\ UNCHANGED <<cwd>>

\* Mutation: cwd is not put.
exit_kept(p) ==
  /\ At(p, "exit")
  /\ Step(p, idup(fs, ROOTINO), Idle)
  /\ cwd' = [cwd EXCEPT ![p] = ROOTINO]
  /\ UNCHANGED <<home, file>>

\* exit() puts proc->cwd outside a transaction.  The next process in this place
\* is a child of init, whose cwd is the root.
exit(p) ==
  /\ At(p, "exit")
  /\ Step(p, idup(iput(fs, cwd[p]), ROOTINO), Idle)
  /\ cwd' = [cwd EXCEPT ![p] = ROOTINO]
  /\ UNCHANGED <<home, file>>
-----------------------------------------------------------------------------
\* A process makes a system call.  Bounds: one open file, MaxCalls calls.
syscall(p, c) ==
  LET l == [Idle EXCEPT !.op = c.op, !.path = c.path, !.text = c.text]
      to(pc) == Goto(p, fs, [l EXCEPT !.pc = pc])
  IN /\ At(p, "user") /\ calls[p] < MaxCalls[p]
     /\ c.op \in {"creat", "openrd", "openwr", "openi"} => file[p] = 0
     /\ \/ c.op = "link" /\ namex(p, fs, l, c.text, FALSE, "link_begin")
        \/ c.op = "unlink" /\ namex(p, fs, l, c.path, TRUE, "unlink_begin")
        \/ c.op \in {"mkdir", "mknod"} /\ to("create_begin")
        \/ /\ c.op \in {"creat", "symlink", "openrd", "openwr", "openi", "chdir", "exec", "readlink"}
           /\ filereadlink(p, fs, l, c.path)
        \/ c.op \in {"close", "exit"} /\ file[p] # 0 /\ to("fileclose")
        \/ c.op = "exit" /\ file[p] = 0 /\ to("exit")

crash ==
  /\ fs' = Boot(home)
  /\ pr' = [p \in Proc |-> Idle]
  /\ cwd' = [p \in Proc |-> ROOTINO]
  /\ file' = [p \in Proc |-> 0]
  /\ UNCHANGED <<home, calls>>

Init ==
  /\ home = [i \in Inode |->
               IF i = ROOTINO THEN Dinode("T_DIR", 1, [NoEnts EXCEPT ![".."] = ROOTINO], <<>>)
               ELSE FreeInode]
  /\ fs = Boot(home)
  /\ pr = [p \in Proc |-> Idle]
  /\ cwd = [p \in Proc |-> ROOTINO]
  /\ file = [p \in Proc |-> 0]
  /\ calls = [p \in Proc |-> 0]

Next ==
  \/ \E p \in Proc :
       \/ \E c \in Calls[p] : syscall(p, c)
       \/ walk(p) \/ readlink(p)
       \/ link_begin(p) \/ link_inc(p) \/ link_add(p) \/ link_bad(p)
       \/ unlink_begin(p) \/ unlink_dp(p) \/ unlink_ip(p)
       \/ create_begin(p) \/ create_dp(p) \/ create_old(p)
       \/ opened(p) \/ filealloc(p) \/ fileclose(p) \/ exit(p)
  \/ crash

Spec == Init /\ [][Next]_vars
-----------------------------------------------------------------------------
\* An inode that is allocated is not freed while a process has a pointer to it,
\* whoever unlinks it meanwhile, and so cannot become another file under its feet.
PointersStayAllocated ==
  [][~fs'.panic /\ ~crash =>
       \A i \in Inode : fs.di[i].type # "none" /\ Pointers(i) > 0 /\ Pointers(i)' > 0 =>
         fs'.di[i].type = fs.di[i].type]_vars
=============================================================================
