------------------------------ MODULE DirProofs ------------------------------
(***************************************************************************)
(* The theorems on the system calls on files and directories (Dir.tla).    *)
(*                                                                         *)
(* Each step of a process that finds what it relies on (Safe) is a Turn:   *)
(* in InodeProofs.tla for some of the calls, here for the others.  The     *)
(* invariant DirInv gives every process its Safe (InvSafe); and a turn of  *)
(* one process keeps the invariant, what the others rely on included       *)
(* (Assemble).  Then DirInv is inductive, and a crash is a new start.      *)
(***************************************************************************)
EXTENDS InodeProofs

\* sys_link() and sys_unlink() begin their transaction, now that they have an inode.
LEMMA BeginOK ==
  ASSUME NEW p \in Proc, Safe(p), begin_trans(p), NEW m \in LocalType, Goto(p, Begun(p), m),
         InTrans(m), \A j : ~Holds(pr[p], j), \A j : ~Holds(m, j),
         LocalsOK(m, file[p]), TypesOK(m, fs.di),
         \A j \in Inode : Own(m, cwd[p], file[p], j) = OwnOf(p, j)
  PROVE  Turn(p)
<1>1. Fits(Owns(p), Held(p), m, cwd[p], file[p])
  BY Zenon DEF Fits, Owns, Held
<1> QED
  BY <1>1, MidBegun, GotoOK, Zenon

\* sys_link() ...
LEMMA LinkBeginStep ==
  ASSUME NEW p \in Proc, Safe(p), link_begin(p)
  PROVE  Turn(p)
<1>1. /\ pr[p].pc = "link_begin" /\ pr[p].ip = 0 /\ pr[p].dp = 0
      /\ fs.trans # p /\ \A j : ~Holds(pr[p], j)
  BY Here, Zenon DEF link_begin, At, LocalsOK, InTrans, Holds
<1>2. CASE pr[p].cur = 0 /\ Return(p, fs)
  <2>1. Clear(p, Owns(p), Held(p))
    BY <1>1, <1>2, IsFacts DEF Clear, Owns, OwnOf, Own, Held
  <2> QED
    BY <1>1, <1>2, <2>1, MidSelf, ReturnOK, Zenon
<1>3. CASE /\ pr[p].cur # 0 /\ begin_trans(p)
           /\ Goto(p, Begun(p), [pr[p] EXCEPT !.pc = "link_inc", !.ip = pr[p].cur, !.cur = 0])
  <2> DEFINE m == [pr[p] EXCEPT !.pc = "link_inc", !.ip = pr[p].cur, !.cur = 0]
  <2> HIDE DEF m
  <2>2. "link_inc" \in Pcs /\ 0 \in 0..NInodes /\ pr[p] \in LocalType
    BY Here, NInodesAssumption DEF Pcs
  <2>3. /\ m \in LocalType /\ m.pc = "link_inc" /\ m.ip = pr[p].cur /\ m.cur = 0 /\ m.dp = 0
        /\ m.op = pr[p].op
    BY <1>1, <2>2, Zenon DEF LocalType, m
  <2>4. ASSUME NEW j \in Inode
        PROVE  Own(m, cwd[p], file[p], j) = OwnOf(p, j)
    BY <1>1, <2>3, IsFacts DEF Own, OwnOf
  <2>5. LocalsOK(m, file[p]) /\ TypesOK(m, fs.di) /\ InTrans(m) /\ \A j : ~Holds(m, j)
    BY <1>1, <1>3, <2>3, Here, Zenon DEF LocalsOK, TypesOK, InTrans, Holds
  <2> QED
    BY <1>1, <1>3, <2>3, <2>4, <2>5, BeginOK, Zenon DEF m
<1> QED
  BY <1>2, <1>3, Zenon DEF link_begin

\* ... and sys_unlink().
LEMMA UnlinkBeginStep ==
  ASSUME NEW p \in Proc, Safe(p), unlink_begin(p)
  PROVE  Turn(p)
<1>1. /\ pr[p].pc = "unlink_begin" /\ pr[p].ip = 0 /\ pr[p].dp = 0
      /\ fs.trans # p /\ \A j : ~Holds(pr[p], j)
  BY Here, Zenon DEF unlink_begin, At, LocalsOK, InTrans, Holds
<1>2. CASE pr[p].cur = 0 /\ Return(p, fs)
  <2>1. Clear(p, Owns(p), Held(p))
    BY <1>1, <1>2, IsFacts DEF Clear, Owns, OwnOf, Own, Held
  <2> QED
    BY <1>1, <1>2, <2>1, MidSelf, ReturnOK, Zenon
<1>3. CASE /\ pr[p].cur # 0 /\ begin_trans(p)
           /\ Goto(p, Begun(p), [pr[p] EXCEPT !.pc = "unlink_dp", !.dp = pr[p].cur, !.cur = 0])
  <2> DEFINE m == [pr[p] EXCEPT !.pc = "unlink_dp", !.dp = pr[p].cur, !.cur = 0]
  <2> HIDE DEF m
  <2>2. "unlink_dp" \in Pcs /\ 0 \in 0..NInodes /\ pr[p] \in LocalType
    BY Here, NInodesAssumption DEF Pcs
  <2>3. /\ m \in LocalType /\ m.pc = "unlink_dp" /\ m.dp = pr[p].cur /\ m.cur = 0 /\ m.ip = 0
        /\ m.op = pr[p].op
    BY <1>1, <2>2, Zenon DEF LocalType, m
  <2>4. ASSUME NEW j \in Inode
        PROVE  Own(m, cwd[p], file[p], j) = OwnOf(p, j)
    BY <1>1, <2>3, IsFacts, SMTT(30) DEF Own, OwnOf
  <2>5. LocalsOK(m, file[p]) /\ TypesOK(m, fs.di) /\ InTrans(m) /\ \A j : ~Holds(m, j)
    BY <1>1, <1>3, <2>3, Here DEF LocalsOK, TypesOK, InTrans, Holds
  <2> QED
    BY <1>1, <1>3, <2>3, <2>4, <2>5, BeginOK, Zenon DEF m
<1> QED
  BY <1>2, <1>3, Zenon DEF unlink_begin

\* sys_link() takes back what it has done.
LEMMA LinkBadStep ==
  ASSUME NEW p \in Proc, Safe(p), link_bad(p)
  PROVE  Turn(p)
<1> DEFINE i == pr[p].ip
           s == ilock(fs, p, i)
           o == Owns(p)
           K == Held(p) \cup {i}
<1>1. /\ pr[p].pc = "link_bad" /\ pr[p].cur = 0 /\ i # 0 /\ pr[p].dp = 0
      /\ fs.trans = p /\ \A j : ~Holds(pr[p], j)
  BY Here, Zenon DEF link_bad, At, LocalsOK, InTrans, Holds
<1>2. i \in Inode /\ o[i] > 0 /\ Mid(p, s, o, K, p)
  BY <1>1, HasFacts, LockFirst, Zenon DEF Has, link_bad
<1>3. Mid(p, iupdate(s, i, -1), o, K, p)
  BY <1>2, MidWrite, Zenon
<1>4. Mid(p, iunlockput(iupdate(s, i, -1), i), Swap(o, 0, i), K \ {i}, p)
  BY <1>2, <1>3, MidUnlockPut, Zenon
<1>5. Clear(p, Swap(o, 0, i), K \ {i})
  BY <1>1, IsFacts DEF Clear, Swap, Owns, OwnOf, Own, Held
<1> QED
  BY <1>4, <1>5, CommitReturnOK, Zenon DEF link_bad

\* create() finds that the name exists.
LEMMA CreateOldStep ==
  ASSUME NEW p \in Proc, Safe(p), create_old(p)
  PROVE  Turn(p)
<1> DEFINE i == pr[p].ip
           s == ilock(fs, p, i)
           o == Owns(p)
           K == Held(p) \cup {i}
<1>1. /\ pr[p].pc = "create_old" /\ pr[p].cur = 0 /\ i # 0 /\ pr[p].dp = 0
      /\ fs.trans = p /\ \A j : ~Holds(pr[p], j)
  BY Here, Zenon DEF create_old, At, LocalsOK, InTrans, Holds
<1>2. /\ i \in Inode /\ o[i] > 0 /\ Mid(p, s, o, K, p)
      /\ ~s.panic => fs.di[i].type # "none"
  BY <1>1, HasFacts, LockFirst, Zenon DEF Has, create_old
<1>3. \A j \in Inode : o[j] = Is(cwd[p], j) + Is(file[p], j) + Is(i, j) /\ (j \in K <=> j = i)
  BY <1>1, IsFacts DEF Owns, OwnOf, Own, Held
<1>4. CASE Commit(p, iunlockput(s, i), Idle)
  <2>1. Mid(p, iunlockput(s, i), Swap(o, 0, i), K \ {i}, p)
    BY <1>2, MidUnlockPut, Zenon
  <2>2. Clear(p, Swap(o, 0, i), K \ {i})
    BY <1>3, IsFacts DEF Clear, Swap
  <2> QED
    BY <1>4, <2>1, <2>2, CommitReturnOK, Zenon
<1>5. CASE pr[p].op = "creat" /\ Created(p, s, pr[p], i)
  <2>1. file[p] = 0
    BY <1>1, <1>5, Here, Zenon DEF LocalsOK
  <2>2. \A j \in Inode : o[j] = Is(cwd[p], j) + Is(i, j) /\ (j \in K <=> j = i)
    BY <1>3, <2>1, IsFacts
  <2>3. Commit(p, s, Opening(i))
    BY <1>5, Zenon DEF Created, Opening
  <2> QED
    BY <1>2, <2>1, <2>2, <2>3, OpenOK
<1> QED
  BY <1>4, <1>5, Zenon DEF create_old

\* create() begins its transaction before it looks up the parent directory.
LEMMA CreateBeginStep ==
  ASSUME NEW p \in Proc, Safe(p), create_begin(p)
  PROVE  Turn(p)
<1>1. /\ pr[p].pc = "create_begin" /\ pr[p].cur = 0 /\ pr[p].ip = 0 /\ pr[p].dp = 0
      /\ pr[p].op \in {"creat", "mkdir", "mknod", "symlink"} /\ pr[p].path \in Path
      /\ pr[p] \in LocalType
      /\ (pr[p].op = "creat" => file[p] = 0) /\ \A j : ~Holds(pr[p], j)
  BY Here, Zenon DEF create_begin, At, LocalsOK, Holds, LocalType
<1>2. Base(p, Begun(p), pr[p], Owns(p), Held(p), p)
  BY <1>1, MidBegun, Zenon DEF create_begin, Base, Held, Owns, OwnOf
<1>3. Calling(p, Begun(p), pr[p], TRUE, "create_dp", p)
  BY <1>1, Zenon DEF Calling
<1> QED
  BY <1>1, <1>2, <1>3, NamexOK, Zenon DEF create_begin

\* sys_link() raises nlink, and unlocks the inode before it looks up the new name.
LEMMA LinkIncStep ==
  ASSUME NEW p \in Proc, Safe(p), link_inc(p)
  PROVE  Turn(p)
<1> DEFINE i == pr[p].ip
           s == ilock(fs, p, i)
           o == Owns(p)
           K == Held(p) \cup {i}
<1>1. /\ pr[p].pc = "link_inc" /\ pr[p].cur = 0 /\ i # 0 /\ pr[p].dp = 0 /\ fs.trans = p
      /\ pr[p].path \in Path /\ pr[p] \in LocalType
      /\ (pr[p].op \in {"creat", "openrd", "openwr", "openi"} => file[p] = 0)
      /\ \A j : ~Holds(pr[p], j)
  BY Here, Zenon DEF link_inc, At, LocalsOK, InTrans, Holds, LocalType
<1>2. /\ i \in Inode /\ o[i] > 0 /\ Mid(p, s, o, K, p) /\ Intact(s)
      /\ ~s.panic => s.ic[i].type = fs.di[i].type /\ fs.di[i].type # "none"
  BY <1>1, HasFacts, LockFirst, Zenon DEF Has, link_inc
<1>3. CASE Commit(p, iunlockput(s, i), Idle)
  <2>1. Mid(p, iunlockput(s, i), Swap(o, 0, i), K \ {i}, p)
    BY <1>2, MidUnlockPut, Zenon
  <2>2. Clear(p, Swap(o, 0, i), K \ {i})
    BY <1>1, IsFacts DEF Clear, Swap, Owns, OwnOf, Own, Held
  <2> QED
    BY <1>3, <2>1, <2>2, CommitReturnOK, Zenon
<1>4. CASE /\ s.ic[i].type # "T_DIR"
           /\ namex(p, iunlock(iupdate(s, i, 1), i), pr[p], pr[p].path, TRUE, "link_add")
  <2> DEFINE u == iupdate(s, i, 1)
  <2> HIDE DEF u
  <2> DEFINE t == iunlock(u, i)
  <2> HIDE DEF t
  <2>3. Mid(p, u, o, K, p) /\ Intact(u)
    BY <1>2, MidWrite DEF u
  <2>7. ~u.panic => ~s.panic
    BY <1>2, UpdateStep DEF Mid, Mono, u
  <2>4. Mid(p, t, o, K \ {i}, p) /\ Intact(t) /\ (~t.panic => ~u.panic)
    BY <1>2, <2>3, MidUnlock DEF t
  <2>5. Base(p, t, pr[p], o, K \ {i}, p)
    BY <1>1, <2>4, Zenon DEF Base, Held, Owns, OwnOf
  <2>6. Calling(p, t, pr[p], TRUE, "link_add", p)
    BY <1>1, <1>2, <1>4, <2>7, <2>4, Zenon DEF Calling
  <2> QED
    BY <1>1, <1>4, <2>5, <2>6, NamexOK, Zenon DEF u, t
<1> QED
  BY <1>3, <1>4, Zenon DEF link_inc

\* sys_link() writes the new name, unless it is there.
LEMMA LinkAddStep ==
  ASSUME NEW p \in Proc, Safe(p), link_add(p)
  PROVE  Turn(p)
<1> DEFINE l == pr[p]
           d == pr[p].cur
           i == pr[p].ip
           s == ilock(fs, p, d)
           old == dirlookup(s, d, l.name)
           o == Owns(p)
           K == Held(p) \cup {d}
<1>1. /\ l.pc = "link_add" /\ i # 0 /\ l.dp = 0 /\ l \in LocalType /\ fs.trans = p
      /\ l.name \in Elem /\ i \in 0..NInodes /\ \A j : ~Holds(l, j)
  BY Here, Zenon DEF link_add, At, LocalsOK, InTrans, Holds, LocalType
<1> DEFINE m == [l EXCEPT !.pc = "link_bad", !.cur = 0]
<1> HIDE DEF m
<1>3. m \in LocalType /\ m.pc = "link_bad" /\ m.cur = 0 /\ m.ip = i /\ m.dp = 0 /\ m.op = l.op
  <2>1. "link_bad" \in Pcs /\ 0 \in 0..NInodes
    BY NInodesAssumption DEF Pcs
  <2> QED
    BY <1>1, <2>1, ZenonT(30) DEF LocalType, m
<1>4. LocalsOK(m, file[p]) /\ TypesOK(m, fs.di) /\ InTrans(m) /\ \A j : ~Holds(m, j)
  BY <1>1, <1>3, Here, Zenon DEF LocalsOK, TypesOK, InTrans, Holds
<1>5. \A j \in Inode : /\ j \notin Held(p)
                       /\ o[j] = Is(cwd[p], j) + Is(file[p], j) + Is(d, j) + Is(i, j)
                       /\ Own(m, cwd[p], file[p], j) = o[j] - Is(d, j)
  BY <1>1, <1>3, IsFacts DEF Held, Owns, OwnOf, Own
<1>6. CASE d = 0 /\ Goto(p, fs, m)
  <2>1. Fits(o, Held(p), m, cwd[p], file[p])
    BY <1>4, <1>5, <1>6, IsFacts DEF Fits
  <2> QED
    BY <1>1, <1>3, <1>4, <1>6, <2>1, MidSelf, GotoOK, Zenon
<1>7. ASSUME d # 0, CanLock(d)
      PROVE  /\ Mid(p, s, o, K, p) /\ Intact(s) /\ d \in Inode /\ o[d] > 0
             /\ i \in Inode /\ o[i] > 0 /\ i # d
  <2>1. Has(p, d) /\ Has(p, i)
    BY <1>1, <1>7, Zenon DEF Has
  <2>2. i # d
    BY <1>1, <1>7, Here DEF TypesOK
  <2> QED
    BY <1>1, <1>7, <2>1, <2>2, HasFacts, LockFirst, Zenon
<1>8. CASE /\ d # 0 /\ CanLock(d) /\ old # 0
           /\ Goto(p, iunlockput(iput(iget(s, old), old), d), m)
  <2>1. old \in Inode
    <3>1. s \in FsType
      BY <1>7, <1>8, Zenon DEF Mid
    <3> QED
      BY <1>7, <1>8, <3>1, LookupType, NInodesAssumption DEF Inode
  <2>2. Mid(p, iget(s, old), Swap(o, old, 0), K, p)
    BY <1>7, <1>8, <2>1, MidGet, ZenonT(30)
  <2>3. Swap(o, old, 0)[old] > 0 /\ (old \in K => Swap(o, old, 0)[old] > 1)
    BY <1>5, <1>7, <1>8, <2>1, IsFacts DEF Swap, Is
  <2>4. Mid(p, iput(iget(s, old), old), Swap(Swap(o, old, 0), 0, old), K, p)
    BY <2>1, <2>2, <2>3, MidPut, Zenon
  <2>5. \A j \in Inode : Swap(Swap(o, old, 0), 0, old)[j] = o[j] /\ o[j] \in Int
    BY <1>5, IsFacts DEF Swap
  <2>6. Mid(p, iunlockput(iput(iget(s, old), old), d), Swap(Swap(Swap(o, old, 0), 0, old), 0, d),
            K \ {d}, p)
    BY <1>7, <1>8, <2>4, <2>5, MidUnlockPut, Zenon
  <2>7. Fits(Swap(Swap(Swap(o, old, 0), 0, old), 0, d), K \ {d}, m, cwd[p], file[p])
    BY <1>4, <1>5, <2>5, IsFacts DEF Fits, Swap
  <2> QED
    BY <1>1, <1>3, <1>4, <1>8, <2>6, <2>7, GotoOK, ZenonT(30)
<1>9. CASE /\ d # 0 /\ CanLock(d)
           /\ Commit(p, iput(iunlockput(SetEntry(s, d, l.name, i), d), i), Idle)
  <2>1. Mid(p, s, o, K, p) /\ d \in Inode /\ o[d] > 0 /\ i \in Inode /\ o[i] > 0 /\ i # d
    BY <1>7, <1>9, Zenon
  <2>2. Mid(p, SetEntry(s, d, l.name, i), o, K, p)
    BY <1>1, <2>1, MidWrite, Zenon
  <2>3. Mid(p, iunlockput(SetEntry(s, d, l.name, i), d), Swap(o, 0, d), K \ {d}, p)
    BY <2>1, <2>2, MidUnlockPut, Zenon
  <2>4. i \notin K \ {d} /\ Swap(o, 0, d)[i] > 0
    BY <1>5, <2>1, IsFacts DEF Swap, Is
  <2>5. Mid(p, iput(iunlockput(SetEntry(s, d, l.name, i), d), i), Swap(Swap(o, 0, d), 0, i), K \ {d}, p)
    BY <2>1, <2>3, <2>4, MidPut, Zenon
  <2>6. Clear(p, Swap(Swap(o, 0, d), 0, i), K \ {d})
    BY <1>5, IsFacts DEF Clear, Swap
  <2> QED
    BY <1>9, <2>5, <2>6, CommitReturnOK, Zenon
<1> QED
  BY <1>6, <1>8, <1>9, Zenon DEF link_add, m

\* sys_unlink() looks up the name in the parent directory.
LEMMA UnlinkDpStep ==
  ASSUME NEW p \in Proc, Safe(p), unlink_dp(p)
  PROVE  Turn(p)
<1> DEFINE l == pr[p]
           d == pr[p].dp
           s == ilock(fs, p, d)
           i == dirlookup(s, d, l.name)
           o == Owns(p)
           K == Held(p) \cup {d}
<1>1. /\ l.pc = "unlink_dp" /\ l.cur = 0 /\ l.ip = 0 /\ d # 0 /\ l \in LocalType /\ fs.trans = p
      /\ \A j : ~Holds(l, j)
  BY Here, Zenon DEF unlink_dp, At, LocalsOK, InTrans, Holds
<1>2. Mid(p, s, o, K, p) /\ Intact(s) /\ s.di = fs.di /\ d \in Inode /\ o[d] > 0
  BY <1>1, HasFacts, LockFirst, Zenon DEF Has, unlink_dp
<1>3. \A j \in Inode : /\ o[j] = Is(cwd[p], j) + Is(file[p], j) + Is(d, j)
                       /\ j \in K <=> j = d
  BY <1>1, <1>2, IsFacts DEF Held, Owns, OwnOf, Own
<1>4. CASE Commit(p, iunlockput(s, d), Idle)
  <2>1. Mid(p, iunlockput(s, d), Swap(o, 0, d), K \ {d}, p)
    BY <1>2, MidUnlockPut, Zenon
  <2>2. Clear(p, Swap(o, 0, d), K \ {d})
    BY <1>3, IsFacts DEF Clear, Swap
  <2> QED
    BY <1>4, <2>1, <2>2, CommitReturnOK, Zenon
<1>5. CASE l.name # ".." /\ i # 0 /\ Goto(p, iget(s, i), [l EXCEPT !.pc = "unlink_ip", !.ip = i])
  <2>1. i \in Inode /\ i \in 0..NInodes
    BY <1>2, <1>5, LookupType, NInodesAssumption DEF Inode, Mid
  <2>2. i # d
    <3>1. l.name \in Name /\ i = fs.di[d].ents[l.name]
      BY <1>2, <1>5, Zenon DEF dirlookup
    <3> QED
      BY <1>2, <3>1, Zenon DEF Safe, Good, GoodAt, SelfAt
  <2> DEFINE m == [l EXCEPT !.pc = "unlink_ip", !.ip = i]
  <2> HIDE DEF m
  <2>4. "unlink_ip" \in Pcs
    BY Zenon DEF Pcs
  <2>5. m \in LocalType /\ m.pc = "unlink_ip" /\ m.cur = 0 /\ m.ip = i /\ m.dp = d /\ m.op = l.op
    BY <1>1, <2>1, <2>4, ZenonT(30) DEF LocalType, m
  <2>6. LocalsOK(m, file[p]) /\ TypesOK(m, fs.di) /\ InTrans(m) /\ \A j : Holds(m, j) <=> j = d
    BY <1>1, <1>5, <2>2, <2>5, Here, SMTT(30) DEF LocalsOK, TypesOK, InTrans, Holds
  <2>7. Fits(Swap(o, i, 0), K, m, cwd[p], file[p])
    BY <1>3, <2>5, <2>6, IsFacts DEF Fits, Swap, Own
  <2>8. Mid(p, iget(s, i), Swap(o, i, 0), K, p)
    BY <1>2, <2>1, MidGet, Zenon
  <2> QED
    BY <1>5, <2>5, <2>6, <2>7, <2>8, GotoOK, Zenon DEF m
<1> QED
  BY <1>4, <1>5, Zenon DEF unlink_dp

\* sys_unlink() erases the entry and lowers nlink, with both inodes locked.
LEMMA UnlinkIpStep ==
  ASSUME NEW p \in Proc, Safe(p), unlink_ip(p)
  PROVE  Turn(p)
<1> DEFINE l == pr[p]
           i == pr[p].ip
           d == pr[p].dp
           s == ilock(fs, p, i)
           o == Owns(p)
           K == Held(p) \cup {i}
<1>1. /\ l.pc = "unlink_ip" /\ l.cur = 0 /\ i # 0 /\ d # 0 /\ i # d /\ fs.trans = p
      /\ l.name \in Elem /\ \A j : Holds(l, j) <=> j = d
  BY Here, Zenon DEF unlink_ip, At, LocalsOK, InTrans, Holds, LocalType
<1>2. Mid(p, s, o, K, p) /\ i \in Inode /\ d \in Inode /\ o[i] > 0 /\ o[d] > 0
  BY <1>1, HasFacts, LockFirst, Zenon DEF Has, unlink_ip
<1>3. /\ \A j \in Inode : o[j] = Is(cwd[p], j) + Is(file[p], j) + Is(i, j) + Is(d, j)
      /\ \A j \in Inode : j \in K <=> j = i \/ j = d
      /\ i \in K /\ d \in K
  BY <1>1, <1>2, IsFacts DEF Held, Owns, OwnOf, Own
<1>4. Swap(o, 0, i)[d] > 0 /\ Swap(o, 0, d)[i] > 0
  BY <1>1, <1>2, <1>3, IsFacts DEF Swap, Is
<1>5. CASE Return(p, Panic(s))
  BY <1>2, <1>5, PanicOK, Zenon DEF Mid
<1>6. CASE Commit(p, iunlockput(iunlockput(s, i), d), Idle)
  <2>1. Mid(p, iunlockput(s, i), Swap(o, 0, i), K \ {i}, p)
    BY <1>2, <1>3, MidUnlockPut, Zenon
  <2>2. d \in K \ {i}
    BY <1>1, <1>3, Zenon
  <2>3. Mid(p, iunlockput(iunlockput(s, i), d), Swap(Swap(o, 0, i), 0, d), (K \ {i}) \ {d}, p)
    BY <1>2, <1>4, <2>1, <2>2, MidUnlockPut, Zenon
  <2>4. Clear(p, Swap(Swap(o, 0, i), 0, d), (K \ {i}) \ {d})
    BY <1>3, IsFacts DEF Clear, Swap
  <2> QED
    BY <1>6, <2>3, <2>4, CommitReturnOK, Zenon
<1>7. ASSUME NEW e, e = SetEntry(s, d, l.name, 0), NEW u, u = iupdate(e, d, -1) \/ u = e,
             Commit(p, iunlockput(iupdate(iunlockput(u, d), i, -1), i), Idle)
      PROVE  Turn(p)
  <2>1. Mid(p, e, o, K, p)
    BY <1>1, <1>2, <1>7, MidWrite, NInodesAssumption
  <2>2. Mid(p, u, o, K, p)
    BY <1>2, <1>7, <2>1, MidWrite, Zenon
  <2> DEFINE t == iunlockput(u, d)
  <2> HIDE DEF t
  <2>4. Mid(p, t, Swap(o, 0, d), K \ {d}, p)
    BY <1>2, <1>3, <2>2, MidUnlockPut, Zenon DEF t
  <2>5. Mid(p, iupdate(t, i, -1), Swap(o, 0, d), K \ {d}, p)
    BY <1>2, <2>4, MidWrite, Zenon
  <2>6. i \in K \ {d}
    BY <1>1, <1>3, Zenon
  <2>7. Mid(p, iunlockput(iupdate(t, i, -1), i), Swap(Swap(o, 0, d), 0, i), (K \ {d}) \ {i}, p)
    BY <1>2, <1>4, <2>5, <2>6, MidUnlockPut, Zenon
  <2>8. Clear(p, Swap(Swap(o, 0, d), 0, i), (K \ {d}) \ {i})
    BY <1>3, IsFacts DEF Clear, Swap
  <2> QED
    BY <1>7, <2>7, <2>8, CommitReturnOK, ZenonT(30) DEF t
<1> QED
  BY <1>5, <1>6, <1>7, Zenon DEF unlink_ip

\* The inode that create() makes.
NewDinode(op, text, d) ==
  Dinode(TypeOf(op), 1, IF TypeOf(op) = "T_DIR" THEN [NoEnts EXCEPT ![".."] = d] ELSE NoEnts,
         IF TypeOf(op) = "T_SYMLINK" THEN text ELSE <<>>)

\* It is a well-formed inode, and no entry of it leads to itself.
LEMMA NewInode ==
  ASSUME NEW op \in {"creat", "mkdir", "mknod", "symlink"}, NEW text \in Path, NEW d \in Inode,
         NEW i \in Inode, NEW e, e = NewDinode(op, text, d)
  PROVE  e \in DinodeType /\ \A n \in Name : e.ents[n] # i
<1>1. PICK ty \in Types : ty = TypeOf(op)
  BY Zenon DEF TypeOf, Types
<1> DEFINE x == IF TypeOf(op) = "T_DIR" THEN [NoEnts EXCEPT ![".."] = d] ELSE NoEnts
<1> HIDE DEF x
<1>3. x \in [Name \cup {".."} -> 0..NInodes]
  <2>1. d \in 0..NInodes /\ 0 \in 0..NInodes
    BY NInodesAssumption DEF Inode
  <2> QED
    BY <2>1, Zenon DEF NoEnts, x
<1>4. \A n \in Name : x[n] = 0
  BY NameAssumption, Zenon DEF NoEnts, x
<1>5. PICK y \in Path : y = IF TypeOf(op) = "T_SYMLINK" THEN text ELSE <<>>
  BY PathFacts, Zenon
<1>6. e = [type |-> ty, nlink |-> 1, ents |-> x, text |-> y]
  BY <1>1, <1>5, Zenon DEF Dinode, NewDinode, x
<1>7. e \in DinodeType /\ e.ents = x
  BY <1>1, <1>3, <1>5, <1>6 DEF DinodeType
<1> QED
  BY <1>4, <1>7, IsFacts, Zenon

\* create() locks the inode i that it has made, and gives up the directory d.
LEMMA MadeOK ==
  ASSUME NEW p \in Proc, Safe(p), NEW s, NEW o, NEW K, Mid(p, s, o, K, p), Intact(s),
         NEW d \in Inode, d \in K, o[d] > 0, NEW i \in Inode, i # d, fs.di[i].type = "none",
         o[i] >= 0, NEW t, t = iunlockput(ilock(iget(s, i), p, i), d)
  PROVE  /\ Mid(p, t, Swap(Swap(o, i, 0), 0, d), (K \cup {i}) \ {d}, p)
         /\ ~t.panic => t.di[i].type # "none"
<1> DEFINE g == iget(s, i)
<1> HIDE DEF g
<1> DEFINE u == ilock(g, p, i)
<1> HIDE DEF u
<1>3. Mid(p, g, Swap(o, i, 0), K, p)
  BY MidGet, Zenon DEF g
<1>4. Swap(o, i, 0)[i] > 0 /\ Swap(o, i, 0)[d] > 0
  BY IsFacts DEF Swap, Is, Mid
<1>5. fs.ic[i].busy \notin Proc
  BY Zenon DEF Safe
<1>6. Mid(p, u, Swap(o, i, 0), K \cup {i}, p) /\ u.di = g.di /\ (~u.panic => g.di[i].type # "none")
  BY <1>3, <1>4, <1>5, MidLock DEF u
<1>7. /\ Mid(p, t, Swap(Swap(o, i, 0), 0, d), (K \cup {i}) \ {d}, p)
      /\ ~t.panic => ~u.panic /\ \A j \in Inode : j # d => t.di[j] = u.di[j]
  BY <1>4, <1>6, MidUnlockPut DEF g, u
<1> QED
  BY <1>6, <1>7, Zenon

\* create(), in the parent directory.
LEMMA CreateDpStep ==
  ASSUME NEW p \in Proc, Safe(p), create_dp(p)
  PROVE  Turn(p)
<1> DEFINE l == pr[p]
           d == pr[p].cur
           s == ilock(fs, p, d)
           old == dirlookup(s, d, l.name)
           o == Owns(p)
           K == Held(p) \cup {d}
<1>1. /\ l.pc = "create_dp" /\ l.ip = 0 /\ l.dp = 0 /\ l \in LocalType /\ fs.trans = p
      /\ (\A j : ~Holds(l, j)) /\ l.op \in {"creat", "mkdir", "mknod", "symlink"}
      /\ l.name \in Elem /\ l.text \in Path /\ (d # 0 => fs.di[d].type = "T_DIR")
  BY Here, Zenon DEF create_dp, At, LocalsOK, InTrans, Holds, LocalType, TypesOK
<1>2. \A j \in Inode : /\ o[j] = Is(cwd[p], j) + Is(file[p], j) + Is(d, j) /\ o[j] >= 0
                       /\ j \notin Held(p)
  BY <1>1, IsFacts DEF Held, Owns, OwnOf, Own
<1>3. CASE d = 0 /\ Commit(p, fs, Idle)
  <2>1. Clear(p, o, Held(p))
    BY <1>2, <1>3, IsFacts, SMTT(30) DEF Clear
  <2> QED
    BY <1>1, <1>3, <2>1, MidSelf, CommitReturnOK, Zenon
<1>4. ASSUME d # 0, CanLock(d)
      PROVE  /\ Mid(p, s, o, K, p) /\ Intact(s) /\ s.di = fs.di /\ d \in Inode
             /\ o[d] > 0 /\ o[d] \in Int
  BY <1>1, <1>4, HasFacts, LockFirst, SMTT(30) DEF Has
<1>5. CASE /\ d # 0 /\ CanLock(d) /\ old # 0
           /\ Goto(p, iunlockput(iget(s, old), d), [l EXCEPT !.pc = "create_old", !.ip = old, !.cur = 0])
  <2>1. old \in Inode /\ old \in 0..NInodes
    BY <1>4, <1>5, LookupType, NInodesAssumption DEF Inode, Mid
  <2> DEFINE m == [l EXCEPT !.pc = "create_old", !.ip = old, !.cur = 0]
  <2> HIDE DEF m
  <2>3. "create_old" \in Pcs /\ 0 \in 0..NInodes
    BY NInodesAssumption DEF Pcs
  <2>4. m \in LocalType /\ m.pc = "create_old" /\ m.cur = 0 /\ m.ip = old /\ m.dp = 0 /\ m.op = l.op
    BY <1>1, <2>1, <2>3, ZenonT(30) DEF LocalType, m
  <2>5. LocalsOK(m, file[p]) /\ TypesOK(m, fs.di) /\ InTrans(m) /\ \A j : ~Holds(m, j)
    BY <1>1, <1>5, <2>4, Here, Zenon DEF LocalsOK, TypesOK, InTrans, Holds
  <2>6. Mid(p, iget(s, old), Swap(o, old, 0), K, p)
    BY <1>4, <1>5, <2>1, MidGet, Zenon
  <2>7. Swap(o, old, 0)[d] > 0
    BY <1>4, <1>5, IsFacts DEF Swap
  <2>8. Mid(p, iunlockput(iget(s, old), d), Swap(Swap(o, old, 0), 0, d), K \ {d}, p)
    BY <1>4, <1>5, <2>6, <2>7, MidUnlockPut, Zenon
  <2>9. Fits(Swap(Swap(o, old, 0), 0, d), K \ {d}, m, cwd[p], file[p])
    BY <1>2, <2>4, <2>5, IsFacts DEF Fits, Swap, Own
  <2> QED
    BY <1>5, <2>4, <2>5, <2>8, <2>9, GotoOK, Zenon DEF m
<1>6. CASE d # 0 /\ CanLock(d) /\ Return(p, Panic(s))
  BY <1>4, <1>6, PanicOK, Zenon DEF Mid
<1>7. ASSUME d # 0, CanLock(d), NEW i \in Inode, ialloc(s, i), NEW ty, NEW t,
             NEW a, a = [s EXCEPT !.di[i] = NewDinode(l.op, l.text, d)],
             t = iunlockput(ilock(iget(SetEntry(DotDot(a, d, ty), d, l.name, i), i), p, i), d),
             Created(p, t, l, i)
      PROVE  Turn(p)
  <2> DEFINE oo == Swap(Swap(o, i, 0), 0, d)
             KK == (K \cup {i}) \ {d}
  <2>0. i \in Inode /\ ialloc(s, i)
    BY <1>7, Zenon
  <2>1. /\ Mid(p, s, o, K, p) /\ Intact(s) /\ s.di = fs.di /\ d \in Inode
        /\ o[d] > 0 /\ d \in K
    BY <1>4, <1>7, Zenon
  <2>2. fs.di[i].type = "none" /\ o[i] >= 0 /\ i # d /\ i \in 0..NInodes
    BY <1>1, <1>2, <2>0, <2>1, NInodesAssumption, SMTT(30) DEF ialloc, FreeInodes, Inode
  <2>3. Mid(p, a, o, K, p) /\ Intact(a)
    <3> DEFINE e == NewDinode(l.op, l.text, d)
    <3> HIDE DEF e
    <3>2. e \in DinodeType /\ \A n \in Name : e.ents[n] # i
      BY <1>1, <2>0, <2>1, NewInode, SMTT(30) DEF e
    <3>3. a = [s EXCEPT !.di[i] = e] /\ s.di[i].type = "none"
      BY <1>7, <2>1, <2>2, Zenon DEF e
    <3> QED
      BY <2>0, <2>1, <2>2, <3>2, <3>3, MidNew, SMTT(30)
  <2>4. Mid(p, t, oo, KK, p) /\ (~t.panic => t.di[i].type # "none")
    <3> DEFINE b == DotDot(a, d, ty)
    <3> HIDE DEF b
    <3> DEFINE c == SetEntry(b, d, l.name, i)
    <3> HIDE DEF c
    <3>3. Mid(p, b, o, K, p) /\ Intact(b)
      BY <2>1, <2>3, MidWrite DEF DotDot, b
    <3>6. \E n \in Elem, k \in 0..NInodes : k # d /\ c = SetEntry(b, d, n, k)
      BY <1>1, <2>2, Zenon DEF c
    <3>4. Mid(p, c, o, K, p) /\ Intact(c)
      BY <2>1, <3>3, <3>6, MidWrite
    <3>5. t = iunlockput(ilock(iget(c, i), p, i), d) /\ i \in Inode
      BY <1>7, Zenon DEF b, c
    <3> QED
      BY <2>1, <2>2, <3>4, <3>5, MadeOK, ZenonT(30)
  <2>5. \A j \in Inode : /\ oo[j] = Is(cwd[p], j) + Is(file[p], j) + Is(i, j)
                         /\ j \in KK <=> j = i
    BY <1>2, <2>0, <2>2, IsFacts, SMTT(30) DEF Swap
  <2>6. oo[i] > 0 /\ i \in KK
    BY <2>0, <2>5, IsFacts, SMTT(30) DEF Is
  <2>7. Clear(p, Swap(oo, 0, i), KK \ {i})
    BY <2>5, IsFacts, SMTT(30) DEF Clear, Swap
  <2>8. CASE l.op = "creat"
    <3>1. file[p] = 0
      BY <1>1, <2>8, Here, Zenon DEF LocalsOK
    <3>2. Commit(p, t, Opening(i))
      BY <1>7, <2>8, Zenon DEF Created, Opening
    <3>3. \A j \in Inode : oo[j] = Is(cwd[p], j) + Is(i, j) /\ (j \in KK <=> j = i)
      BY <2>5, <3>1, IsFacts
    <3>4. Mid(p, t, oo, KK, p) /\ (~t.panic => t.di[i].type # "none") /\ i \in Inode
      BY <1>7, <2>4, Zenon
    <3> HIDE DEF oo, KK
    <3> QED
      BY <3>1, <3>2, <3>3, <3>4, OpenOK, SMTT(30)
  <2>9. CASE Commit(p, leak(iunlock(t, i), i), Idle)
    <3>1. Mid(p, leak(iunlock(t, i), i), Swap(oo, 0, i), KK \ {i}, p)
      BY <1>7, <2>4, <2>6, MidUnlockLeak, Zenon
    <3> QED
      BY <2>7, <2>9, <3>1, CommitReturnOK, Zenon
  <2>10. CASE Commit(p, iunlockput(t, i), Idle)
    <3>1. Mid(p, iunlockput(t, i), Swap(oo, 0, i), KK \ {i}, p)
      BY <1>7, <2>4, <2>6, MidUnlockPut, Zenon
    <3> QED
      BY <2>7, <2>10, <3>1, CommitReturnOK, Zenon
  <2> QED
    BY <1>1, <1>7, <2>8, <2>9, <2>10, Zenon DEF Created
<1> QED
  BY <1>3, <1>5, <1>6, <1>7, Zenon DEF create_dp, NewDinode

\* A process makes a system call.
LEMMA SyscallStep ==
  ASSUME NEW p \in Proc, Safe(p), NEW c \in Calls[p], syscall(p, c)
  PROVE  Turn(p)
<1> DEFINE o == Owns(p)
           H == Held(p)
<1>1. /\ pr[p].pc = "user" /\ pr[p].cur = 0 /\ pr[p].ip = 0 /\ pr[p].dp = 0
      /\ fs.trans # p /\ \A j : ~Holds(pr[p], j)
  BY Here, Zenon DEF syscall, At, LocalsOK, InTrans, Holds
<1>2. c.op \in Ops /\ c.path \in Path /\ c.text \in Path
  BY CallsAssumption, Zenon
<1> DEFINE l == [Idle EXCEPT !.op = c.op, !.path = c.path, !.text = c.text]
<1> HIDE DEF l
<1>4. /\ l \in LocalType /\ l.op = c.op /\ l.path = c.path /\ l.text = c.text
      /\ l.cur = 0 /\ l.ip = 0 /\ l.dp = 0
  <2>1. Idle \in LocalType /\ c.op \in Ops \cup {"none"}
    BY <1>2, IdleFacts, Zenon
  <2> QED
    BY <1>2, <2>1, IdleFacts, Zenon DEF LocalType, l
<1>5. l.op \in {"creat", "openrd", "openwr", "openi"} => file[p] = 0
  BY <1>4, Zenon DEF syscall
<1>6. \A j \in Inode : j \notin H /\ o[j] = Own(l, cwd[p], file[p], j)
  BY <1>1, <1>4, Zenon DEF Held, Owns, OwnOf, Own
<1>7. Base(p, fs, l, o, H, fs.trans)
  BY <1>4, <1>5, <1>6, MidSelf, Zenon DEF Base
<1>8. Rests(p, fs, l, o, H)
  BY <1>1, <1>4, <1>7, Zenon DEF Rests
<1>9. CASE namex(p, fs, l, c.text, FALSE, "link_begin")
  <2>1. Calling(p, fs, l, FALSE, "link_begin", fs.trans)
    BY <1>1, <1>4, Zenon DEF Calling
  <2> QED
    BY <1>2, <1>7, <1>9, <2>1, NamexOK, Zenon
<1>10. CASE namex(p, fs, l, c.path, TRUE, "unlink_begin")
  <2>1. Calling(p, fs, l, TRUE, "unlink_begin", fs.trans)
    BY <1>1, <1>4, Zenon DEF Calling
  <2> QED
    BY <1>2, <1>7, <1>10, <2>1, NamexOK, Zenon
<1>11. CASE filereadlink(p, fs, l, c.path)
  <2>1. CASE Resolved(p, fs, l, c.path)
    BY <1>2, <1>8, <2>1, ResolvedOK, Zenon
  <2>2. CASE restart(p, fs, l, c.path, MAX_SYMLINK_LOOPS)
    BY <1>2, <1>8, <2>2, LoopsAssumption, RestartOK
  <2> QED
    BY <1>11, <2>1, <2>2, Zenon DEF filereadlink
<1>12. ASSUME NEW pc, Goto(p, fs, [l EXCEPT !.pc = pc]),
              \/ c.op \in {"mkdir", "mknod"} /\ pc = "create_begin"
              \/ file[p] # 0 /\ pc = "fileclose"
              \/ pc = "exit"
       PROVE  Turn(p)
  <2> DEFINE m == [l EXCEPT !.pc = pc]
  <2> HIDE DEF m
  <2>2. pc \in Pcs
    BY <1>12, Zenon DEF Pcs
  <2>3. m \in LocalType /\ m.pc = pc /\ m.op = c.op /\ m.cur = 0 /\ m.ip = 0 /\ m.dp = 0
    BY <1>4, <2>2, Zenon DEF LocalType, m
  <2>4. LocalsOK(m, file[p]) /\ TypesOK(m, fs.di) /\ ~InTrans(m) /\ \A j : ~Holds(m, j)
    BY <1>4, <1>5, <1>12, <2>3, Zenon DEF LocalsOK, TypesOK, InTrans, Holds
  <2>5. Fits(o, H, m, cwd[p], file[p])
    BY <1>4, <1>6, <2>3, <2>4, Zenon DEF Fits, Own
  <2> QED
    BY <1>1, <1>12, <2>3, <2>4, <2>5, MidSelf, GotoOK, Zenon DEF m
<1>13. CASE c.op \in {"mkdir", "mknod"} /\ Goto(p, fs, [l EXCEPT !.pc = "create_begin"])
  BY <1>12, <1>13, Zenon
<1>14. CASE file[p] # 0 /\ Goto(p, fs, [l EXCEPT !.pc = "fileclose"])
  BY <1>12, <1>14, Zenon
<1>15. CASE Goto(p, fs, [l EXCEPT !.pc = "exit"])
  BY <1>12, <1>15, Zenon
<1> QED
  BY <1>9, <1>10, <1>11, <1>13, <1>14, <1>15, Zenon DEF syscall, l

\* One, if p is in A.
In(p, A) == IF p \in A THEN 1 ELSE 0

\* What is known of the number of members of a set of processes.
CountLaw ==
  /\ Count({}) = 0
  /\ \A A \in SUBSET Proc :
       Count(A) \in Nat /\ \A p \in Proc : Count(A \ {p}) = Count(A) - In(p, A)

\* Counting the processes of a set that a step of p may enter or leave.
LEMMA CountStep ==
  ASSUME CountLaw, NEW p \in Proc, NEW A \in SUBSET Proc, NEW B \in SUBSET Proc,
         A \ {p} = B \ {p}
  PROVE  Count(A) \in Nat /\ Count(B) \in Nat /\ Count(B) = Count(A) + In(p, B) - In(p, A)
<1>1. /\ Count(A) \in Nat /\ Count(A \ {p}) = Count(A) - In(p, A)
      /\ Count(B) \in Nat /\ Count(B \ {p}) = Count(B) - In(p, B)
  BY Zenon DEF CountLaw
<1> QED
  BY <1>1 DEF In

\* A set has at least the members that are named.
LEMMA CountBound ==
  ASSUME CountLaw, NEW p \in Proc, NEW q \in Proc, NEW A \in SUBSET Proc
  PROVE  Count(A) \in Nat /\ Count(A) >= In(p, A) /\ (p # q => Count(A) >= In(p, A) + In(q, A))
<1>1. PICK B \in SUBSET Proc : B = A \ {p}
  BY Zenon
<1>2. PICK E \in SUBSET Proc : E = B \ {q}
  BY Zenon
<1>3. A \ {p} = B \ {p} /\ B \ {q} = E \ {q}
  BY <1>1, <1>2, Zenon
<1>4. /\ Count(A) \in Nat /\ Count(B) \in Nat /\ Count(E) \in Nat
      /\ Count(B) = Count(A) + In(p, B) - In(p, A) /\ Count(E) = Count(B) + In(q, E) - In(q, B)
  BY <1>3, CountStep, Zenon
<1>5. p \notin B /\ q \notin E /\ (p # q => (q \in B <=> q \in A))
  BY <1>1, <1>2, Zenon
<1> QED
  BY <1>4, <1>5 DEF In

\* What a step of p adds to the pointers is what it adds to its own.
LEMMA PointersStep ==
  ASSUME CountLaw, NEW p \in Proc, NEW i, NEW m, NEW w, NEW f, TypeOK,
         pr' = [pr EXCEPT ![p] = m], cwd' = [cwd EXCEPT ![p] = w], file' = [file EXCEPT ![p] = f]
  PROVE  Pointers(i) \in Int /\ Pointers(i)' = Pointers(i) + Own(m, w, f, i) - OwnOf(p, i)
<1> DEFINE C == { q \in Proc : cwd[q] = i }
           F == { q \in Proc : file[q] = i }
           U == { q \in Proc : pr[q].cur = i }
           I == { q \in Proc : pr[q].ip = i }
           D == { q \in Proc : pr[q].dp = i }
<1>1. /\ C \in SUBSET Proc /\ C' \in SUBSET Proc /\ C \ {p} = C' \ {p}
      /\ F \in SUBSET Proc /\ F' \in SUBSET Proc /\ F \ {p} = F' \ {p}
      /\ U \in SUBSET Proc /\ U' \in SUBSET Proc /\ U \ {p} = U' \ {p}
      /\ I \in SUBSET Proc /\ I' \in SUBSET Proc /\ I \ {p} = I' \ {p}
      /\ D \in SUBSET Proc /\ D' \in SUBSET Proc /\ D \ {p} = D' \ {p}
  BY Zenon DEF TypeOK
<1>2. /\ In(p, C) = Is(cwd[p], i) /\ In(p, F) = Is(file[p], i)
      /\ In(p, U) = Is(pr[p].cur, i) /\ In(p, I) = Is(pr[p].ip, i) /\ In(p, D) = Is(pr[p].dp, i)
  BY Zenon DEF In, Is
<1>3. /\ In(p, C') = Is(w, i) /\ In(p, F') = Is(f, i)
      /\ In(p, U') = Is(m.cur, i) /\ In(p, I') = Is(m.ip, i) /\ In(p, D') = Is(m.dp, i)
  BY Zenon DEF In, Is, TypeOK
<1>4. /\ Pointers(i) = Count(C) + Count(F) + Count(U) + Count(I) + Count(D) + Is(i, ROOTINO)
      /\ Pointers(i)' = Count(C') + Count(F') + Count(U') + Count(I') + Count(D') + Is(i, ROOTINO)
  BY Zenon DEF Pointers
<1> HIDE DEF C, F, U, I, D
<1>5. /\ Count(C) \in Nat /\ Count(C') = Count(C) + In(p, C') - In(p, C)
      /\ Count(F) \in Nat /\ Count(F') = Count(F) + In(p, F') - In(p, F)
      /\ Count(U) \in Nat /\ Count(U') = Count(U) + In(p, U') - In(p, U)
      /\ Count(I) \in Nat /\ Count(I') = Count(I) + In(p, I') - In(p, I)
      /\ Count(D) \in Nat /\ Count(D') = Count(D) + In(p, D') - In(p, D)
  BY <1>1, CountStep, Zenon
<1> QED
  BY <1>2, <1>3, <1>4, <1>5, IsFacts DEF Own, OwnOf

\* Pointers(i), in a given state of the processes.
Counted(P, W, E, i) ==
  Count({ x \in Proc : W[x] = i }) + Count({ x \in Proc : E[x] = i })
  + Count({ x \in Proc : P[x].cur = i }) + Count({ x \in Proc : P[x].ip = i })
  + Count({ x \in Proc : P[x].dp = i }) + Is(i, ROOTINO)

\* It is the number of pointers, now and in the next state.
LEMMA PointersCounted ==
  ASSUME NEW i
  PROVE  Pointers(i) = Counted(pr, cwd, file, i) /\ Pointers(i)' = Counted(pr', cwd', file', i)
  BY Zenon DEF Pointers, Counted

\* The number of pointers is a natural number.
LEMMA PointersNat ==
  ASSUME CountLaw, NEW i
  PROVE  Pointers(i) \in Nat /\ Pointers(i)' \in Nat
<1>1. \A A \in SUBSET Proc : Count(A) \in Nat
  BY Zenon DEF CountLaw
<1>2. \A P, W, E : Counted(P, W, E, i) \in Nat
  BY <1>1, IsFacts DEF Counted
<1> QED
  BY <1>2, PointersCounted, Zenon

\* The pointers are at least those of one process, or of two, and init's.
LEMMA PointersBound ==
  ASSUME CountLaw, NEW P, NEW W, NEW E, NEW i, NEW p \in Proc, NEW q \in Proc
  PROVE  /\ Counted(P, W, E, i) \in Nat
         /\ Counted(P, W, E, i) >= Own(P[p], W[p], E[p], i) + Is(i, ROOTINO)
         /\ p # q => Counted(P, W, E, i) >= Own(P[p], W[p], E[p], i) + Own(P[q], W[q], E[q], i)
<1> DEFINE C == { x \in Proc : W[x] = i }
           F == { x \in Proc : E[x] = i }
           U == { x \in Proc : P[x].cur = i }
           I == { x \in Proc : P[x].ip = i }
           D == { x \in Proc : P[x].dp = i }
<1>1. /\ C \in SUBSET Proc /\ F \in SUBSET Proc /\ U \in SUBSET Proc
      /\ I \in SUBSET Proc /\ D \in SUBSET Proc
  BY Zenon
<1>2. \A x \in Proc :
      /\ In(x, C) = Is(W[x], i) /\ In(x, F) = Is(E[x], i)
      /\ In(x, U) = Is(P[x].cur, i) /\ In(x, I) = Is(P[x].ip, i) /\ In(x, D) = Is(P[x].dp, i)
  BY Zenon DEF In, Is
<1>3. Counted(P, W, E, i) = Count(C) + Count(F) + Count(U) + Count(I) + Count(D) + Is(i, ROOTINO)
  BY Zenon DEF Counted
<1> HIDE DEF C, F, U, I, D
<1>4. /\ Count(C) \in Nat /\ Count(C) >= In(p, C) /\ (p # q => Count(C) >= In(p, C) + In(q, C))
      /\ Count(F) \in Nat /\ Count(F) >= In(p, F) /\ (p # q => Count(F) >= In(p, F) + In(q, F))
      /\ Count(U) \in Nat /\ Count(U) >= In(p, U) /\ (p # q => Count(U) >= In(p, U) + In(q, U))
      /\ Count(I) \in Nat /\ Count(I) >= In(p, I) /\ (p # q => Count(I) >= In(p, I) + In(q, I))
      /\ Count(D) \in Nat /\ Count(D) >= In(p, D) /\ (p # q => Count(D) >= In(p, D) + In(q, D))
  BY <1>1, CountBound, Zenon
<1> QED
  BY <1>2, <1>3, <1>4, IsFacts DEF Own

\* What the invariant gives a step of p: every reference is one of a process, or init's.
LEMMA InvFacts ==
  ASSUME CountLaw, DirInv, ~fs.panic
  PROVE  /\ Good(fs)
         /\ \A i \in Inode : Ex(fs, i) = Pointers(i)
         /\ \A p \in Proc, i \in Inode :
              /\ Ex(fs, i) >= OwnOf(p, i) + Is(i, ROOTINO)
              /\ fs.ic[i].busy \in Proc \ {p} => Ex(fs, i) > OwnOf(p, i)
<1>1. ASSUME NEW i \in Inode
      PROVE  /\ fs.ic[i].ref = Pointers(i) + (IF i \in fs.leaked THEN 1 ELSE 0)
             /\ fs.ic[i].ref \in Int /\ fs.ic[i].busy \in Proc \cup {None, Left} /\ CacheAt(fs, i)
  BY Zenon DEF DirInv, RefsAreCounted, TypeOK, LocksInv, CacheOK, CacheAt, FsType, IcType,
     CacheType
<1>2. ASSUME NEW q \in Proc, NEW i \in Inode, fs.ic[i].busy = q
      PROVE  OwnOf(q, i) > 0
  <2>1. Holds(pr[q], i)
    BY <1>2, Zenon DEF DirInv, LocksInv
  <2>2. Is(pr[q].ip, i) = 1 \/ Is(pr[q].dp, i) = 1
    BY <2>1, Zenon DEF Holds, Is
  <2> QED
    BY <2>2, IsFacts DEF OwnOf, Own
<1>3. ASSUME NEW i \in Inode
      PROVE  Pointers(i) \in Nat /\ Ex(fs, i) = Pointers(i)
  BY <1>1, PointersNat DEF Ex
<1>4. ASSUME NEW p \in Proc, NEW i \in Inode
      PROVE  /\ Ex(fs, i) >= OwnOf(p, i) + Is(i, ROOTINO)
             /\ fs.ic[i].busy \in Proc \ {p} => Ex(fs, i) > OwnOf(p, i)
             /\ fs.ic[i].busy = p => fs.ic[i].ref > 0
  <2> Is(i, ROOTINO) \in {0, 1}
    BY IsFacts, Zenon
  <2>1. OwnOf(p, i) \in Nat /\ Pointers(i) >= OwnOf(p, i) + Is(i, ROOTINO)
    BY PointersCounted, PointersBound, OwnNat, Zenon DEF OwnOf
  <2>2. ASSUME NEW q \in Proc \ {p}, fs.ic[i].busy = q
        PROVE  Ex(fs, i) > OwnOf(p, i)
    <3>1. OwnOf(q, i) > 0 /\ OwnOf(q, i) \in Nat /\ Pointers(i) >= OwnOf(p, i) + OwnOf(q, i)
      BY <1>2, <2>2, PointersCounted, PointersBound, OwnNat, ZenonT(30) DEF OwnOf
    <3> QED
      BY <1>3, <2>1, <3>1
  <2>3. fs.ic[i].busy = p => fs.ic[i].ref > 0
    BY <1>1, <1>2, <1>3, <2>1
  <2> QED
    BY <1>3, <2>1, <2>2, <2>3, Zenon
<1>5. ASSUME NEW i \in Inode
      PROVE  GoodAt(fs, i)
  <2>1. fs.ic[i].ref \in Nat
    BY <1>1, <1>3
  <2>2. fs.ic[i].busy # None => fs.ic[i].ref > 0
    BY <1>1, <1>3, <1>4 DEF CacheAt
  <2>3. SelfAt(fs, i)
    BY Zenon DEF DirInv, LocksInv, NoSelf, SelfAt
  <2> QED
    BY <1>1, <2>1, <2>2, <2>3, Zenon DEF GoodAt
<1>6. fs \in FsType
  BY Zenon DEF DirInv, RefsAreCounted, TypeOK
<1> QED
  BY <1>3, <1>4, <1>5, <1>6, Zenon DEF Good

\* The invariant gives each process what it relies on.
LEMMA InvSafe ==
  ASSUME CountLaw, DirInv, ~fs.panic, NEW p \in Proc
  PROVE  Safe(p)
<1>1. /\ TypeOK /\ LocalsOK(pr[p], file[p]) /\ TypesOK(pr[p], fs.di)
      /\ fs.trans = p <=> InTrans(pr[p])
      /\ \A i \in Inode : fs.ic[i].busy = p <=> Holds(pr[p], i)
  BY Zenon DEF DirInv, RefsAreCounted, LocksInv
<1>2. ASSUME NEW i \in Inode, fs.di[i].type = "none", fs.ic[i].busy \in Proc
      PROVE  FALSE
  <2>1. PICK q \in Proc : fs.ic[i].busy = q
    BY <1>2, Zenon
  <2>2. Holds(pr[q], i) /\ TypesOK(pr[q], fs.di)
    BY <2>1, Zenon DEF DirInv, LocksInv
  <2> QED
    BY <1>2, <2>2, Zenon DEF Holds, TypesOK
<1> QED
  BY <1>1, <1>2, InvFacts, Zenon DEF Safe

\* An inode that a process still has a pointer to has kept its type.
TypeKept(di, j) == di[j].type = fs.di[j].type \/ fs.di[j].type = "none" \/ Pointers(j)' <= 0

\* What is shown of every step but a crash.
StepOK == DirInv' /\ (~fs'.panic => \A j \in Inode : TypeKept(fs'.di, j))

\* A process relies on the types of inodes that it has pointers to.
LEMMA TypesStay ==
  ASSUME NEW l \in LocalType, NEW w, NEW f, NEW di, TypesOK(l, fs.di), LocalsOK(l, f),
         \A j \in Inode : Pointers(j)' \in Int /\ Pointers(j)' >= Own(l, w, f, j) /\ TypeKept(di, j)
  PROVE  TypesOK(l, di)
<1>1. ASSUME NEW j \in Inode, j \in {l.cur, l.ip, l.dp}, fs.di[j].type # "none"
      PROVE  di[j].type = fs.di[j].type
  <2>1. Is(l.cur, j) = 1 \/ Is(l.ip, j) = 1 \/ Is(l.dp, j) = 1
    BY <1>1, Zenon DEF Is
  <2>2. Own(l, w, f, j) > 0
    BY <2>1, IsFacts DEF Own
  <2> QED
    BY <1>1, <2>2, OwnNat DEF TypeKept
<1>2. \A j \in {l.cur, l.ip, l.dp} : j # 0 => j \in Inode
  BY NInodesAssumption DEF LocalType, Inode
<1> QED
  BY <1>1, <1>2, Zenon DEF TypesOK, LocalsOK

\* A step of one process keeps what the others rely on.
LEMMA Assemble ==
  ASSUME CountLaw, DirInv, ~fs.panic, NEW p \in Proc, NEW S, NEW m \in LocalType, NEW w \in Inode,
         NEW f \in 0..NInodes, Step(p, S, m),
         cwd' = [cwd EXCEPT ![p] = w], file' = [file EXCEPT ![p] = f],
         home' = home \/ (~S.panic /\ home' = S.di), ~S.panic => Effect(p, S, m, w, f)
  PROVE  StepOK
<1>1. /\ TypeOK /\ NoSelf(home) /\ LocksInv /\ \A q \in Proc : LocalsOK(pr[q], file[q])
      /\ pr' = [pr EXCEPT ![p] = m]
  BY Zenon DEF DirInv, RefsAreCounted, Step
<1>2. pr' \in [Proc -> LocalType] /\ cwd' \in [Proc -> Inode] /\ file' \in [Proc -> 0..NInodes]
  BY <1>1, Zenon DEF TypeOK
<1>3. CASE S.panic
  <2>1. fs' \in FsType /\ fs'.panic /\ home' = home
    BY <1>1, <1>3, PanicFacts, Zenon DEF Step, TypeOK
  <2> QED
    BY <1>1, <1>2, <2>1, Zenon DEF StepOK, DirInv, RefsAreCounted, TypeOK
<1>4. CASE ~S.panic
  <2>1. fs' = S /\ Effect(p, S, m, w, f) /\ S \in FsType
    BY <1>4, Zenon DEF Step, Effect
  <2>2. ASSUME NEW j \in Inode
        PROVE  /\ Move(fs, S, j, Own(m, w, f, j) - OwnOf(p, j))
               /\ Pointers(j)' \in Nat /\ Ex(S, j) = Pointers(j)'
    <3>1. Move(fs, S, j, Own(m, w, f, j) - OwnOf(p, j))
      BY <2>1, Zenon DEF Effect
    <3>2. Pointers(j) \in Int /\ Pointers(j)' = Pointers(j) + Own(m, w, f, j) - OwnOf(p, j)
      BY <1>1, PointersStep, Zenon
    <3>3. Ex(fs, j) = Pointers(j) /\ Own(m, w, f, j) \in Nat /\ OwnOf(p, j) \in Nat
      BY InvFacts, OwnNat, Zenon DEF OwnOf
    <3>4. Ex(S, j) = Ex(fs, j) + (Own(m, w, f, j) - OwnOf(p, j))
      BY <3>1, Zenon DEF Move
    <3>5. Pointers(j)' \in Nat
      BY PointersCounted, PointersBound
    <3> QED
      BY <3>1, <3>2, <3>3, <3>4, <3>5, Zenon
  <2>3. TypeOK'
    BY <1>1, <1>2, <2>1, Zenon DEF TypeOK, FsType
  <2>4. RefsAreCounted'
    <3>1. ASSUME NEW j \in Inode
          PROVE  S.ic[j].ref = Pointers(j)' + (IF j \in S.leaked THEN 1 ELSE 0)
      <4>1. S.ic[j].ref \in Nat
        BY <2>2, Zenon DEF Move, GoodAt
      <4> QED
        BY <2>2, <4>1 DEF Ex
    <3> QED
      BY <2>1, <2>3, <3>1, Zenon DEF RefsAreCounted
  <2>5. CacheOK(S) /\ NoSelf(S.di)
    BY <2>2, Zenon DEF Move, GoodAt, CacheAt, SelfAt, CacheOK, NoSelf
  <2>6. \A j \in Inode : TypeKept(S.di, j)
    BY <2>2, Zenon DEF Move, TypeKept
  <2>7. ASSUME NEW q \in Proc
        PROVE  /\ S.trans = q <=> InTrans(pr'[q])
               /\ \A j \in Inode : S.ic[j].busy = q <=> Holds(pr'[q], j)
               /\ TypesOK(pr'[q], S.di) /\ LocalsOK(pr'[q], file'[q])
    <3>1. /\ fs.trans = q <=> InTrans(pr[q])
          /\ \A j \in Inode : fs.ic[j].busy = q <=> Holds(pr[q], j)
          /\ TypesOK(pr[q], fs.di)
      BY <1>1, Zenon DEF LocksInv
    <3>2. /\ q = p => pr'[q] = m /\ file'[q] = f /\ cwd'[q] = w
          /\ q # p => pr'[q] = pr[q] /\ file'[q] = file[q]
      BY <1>1, Zenon DEF TypeOK
    <3>3. LocalsOK(pr'[q], file'[q])
      BY <1>1, <2>1, <3>2, Zenon DEF Effect
    <3>4. S.trans = q <=> InTrans(pr'[q])
      BY <2>1, <3>1, <3>2, ProcAssumption, Zenon DEF Effect
    <3>5. \A j \in Inode : S.ic[j].busy = q <=> Holds(pr'[q], j)
      BY <2>1, <3>1, <3>2, Zenon DEF Effect
    <3>6. \A j \in Inode :
            /\ Pointers(j)' \in Int /\ Pointers(j)' >= Own(pr'[q], cwd'[q], file'[q], j)
            /\ TypeKept(S.di, j)
      <4>1. ASSUME NEW j \in Inode
            PROVE  Pointers(j)' >= Own(pr'[q], cwd'[q], file'[q], j)
        <5>1. Pointers(j)' = Counted(pr', cwd', file', j)
          BY PointersCounted, Zenon
        <5>2. Pointers(j)' >= Own(pr'[q], cwd'[q], file'[q], j) + Is(j, ROOTINO)
          BY <5>1, PointersBound, Zenon
        <5>3. Own(pr'[q], cwd'[q], file'[q], j) \in Nat /\ Is(j, ROOTINO) \in {0, 1} /\ Pointers(j)' \in Nat
          BY <2>2, OwnNat, IsFacts, Zenon
        <5> QED
          BY <5>2, <5>3
      <4> QED
        BY <2>2, <2>6, <4>1
    <3>7. TypesOK(pr'[q], fs.di) => TypesOK(pr'[q], S.di)
      BY <1>2, <3>3, <3>6, TypesStay, Zenon
    <3>8. TypesOK(pr'[q], S.di)
      BY <2>1, <3>1, <3>2, <3>7, Zenon DEF Effect
    <3> QED
      BY <3>3, <3>4, <3>5, <3>8, Zenon
  <2>8. NoSelf(home)'
    BY <1>1, <2>1, <2>5, Zenon
  <2>9. LocksInv'
    BY <2>1, <2>5, <2>7, Zenon DEF LocksInv
  <2> QED
    BY <2>1, <2>4, <2>6, <2>7, <2>8, <2>9, Zenon DEF StepOK, DirInv
<1> QED
  BY <1>3, <1>4, Zenon

\* So every turn of a process keeps the invariant.
LEMMA TurnOK ==
  ASSUME CountLaw, DirInv, ~fs.panic, NEW p \in Proc, Turn(p)
  PROVE  StepOK
<1>1. PICK S : \E m \in LocalType, w \in Inode, f \in 0..NInodes :
        /\ Step(p, S, m)
        /\ cwd' = [cwd EXCEPT ![p] = w] /\ file' = [file EXCEPT ![p] = f]
        /\ home' = home \/ (~S.panic /\ home' = S.di)
        /\ ~S.panic => Effect(p, S, m, w, f)
  BY Zenon DEF Turn
<1>2. PICK m \in LocalType, w \in Inode, f \in 0..NInodes :
        /\ Step(p, S, m)
        /\ cwd' = [cwd EXCEPT ![p] = w] /\ file' = [file EXCEPT ![p] = f]
        /\ home' = home \/ (~S.panic /\ home' = S.di)
        /\ ~S.panic => Effect(p, S, m, w, f)
  BY <1>1, Zenon
<1> QED
  BY <1>2, Assemble, Zenon

\* The machine has just started.
Booted ==
  /\ fs = Boot(home) /\ home \in DiType /\ NoSelf(home)
  /\ pr = [p \in Proc |-> Idle]
  /\ cwd = [p \in Proc |-> ROOTINO]
  /\ file = [p \in Proc |-> 0]

\* userinit(): after a mkfs or a crash only the root is in the cache, with a reference
\* for each process's cwd and for init's.
LEMMA BootFacts ==
  ASSUME CountLaw, NEW d \in DiType, NEW s, s = Boot(d)
  PROVE  /\ s \in FsType /\ s.di = d /\ s.trans = None /\ s.leaked = {}
         /\ \A i \in Inode :
              /\ s.ic[i].ref = IF i = ROOTINO THEN Count(Proc) + 1 ELSE 0
              /\ s.ic[i].busy = None /\ ~s.ic[i].valid
<1>1. Count(Proc) \in Nat
  BY Zenon DEF CountLaw
<1>2. NotCached \in CacheType
  BY DEF NotCached, CacheType, Types
<1>3. PICK k \in Int : k = Count(Proc) + 1
  BY <1>1
<1> DEFINE c == [NotCached EXCEPT !.ref = k]
<1> HIDE DEF c
<1>12. c \in CacheType
  BY <1>2, <1>3, Zenon DEF CacheType, c
<1>13. c.ref = k /\ c.busy = None /\ ~c.valid
  BY Zenon DEF NotCached, c
<1> DEFINE x == [i \in Inode |-> IF i = ROOTINO THEN c ELSE NotCached]
<1> HIDE DEF x
<1>6. x \in IcType
  BY <1>2, <1>12, Zenon DEF IcType, x
<1>7. s = [di |-> d, trans |-> None, leaked |-> {}, panic |-> FALSE, ic |-> x]
  BY <1>3, Zenon DEF Boot, Count, c, x
<1>8. None \in Proc \cup {None} /\ {} \in SUBSET Inode /\ FALSE \in BOOLEAN
  BY Zenon
<1>9. s \in FsType
  BY <1>6, <1>7, <1>8 DEF FsType
<1>10. s.ic = x /\ s.di = d /\ s.trans = None /\ s.leaked = {}
  BY <1>7
<1>11. NotCached.ref = 0 /\ NotCached.busy = None /\ ~NotCached.valid
  BY Zenon DEF NotCached
<1> QED
  BY <1>3, <1>9, <1>10, <1>11, <1>13, Zenon DEF x

\* The invariant holds when the machine has just started.
LEMMA BootInv ==
  ASSUME CountLaw, Booted
  PROVE  DirInv
<1>1. /\ fs \in FsType /\ fs.di = home /\ fs.trans = None /\ fs.leaked = {}
      /\ \A i \in Inode :
           /\ fs.ic[i].ref = IF i = ROOTINO THEN Count(Proc) + 1 ELSE 0
           /\ fs.ic[i].busy = None /\ ~fs.ic[i].valid
  BY BootFacts DEF Booted
<1>2. ROOTINO \in Inode /\ 0 \in 0..NInodes
  BY NInodesAssumption DEF ROOTINO, Inode
<1>3. TypeOK
  BY <1>1, <1>2, IdleFacts, Zenon DEF TypeOK, Booted
<1>4. Count(Proc) \in Nat /\ Count({}) = 0
  BY Zenon DEF CountLaw
<1>5. ASSUME NEW i \in Inode
      PROVE  fs.ic[i].ref = Pointers(i) + (IF i \in fs.leaked THEN 1 ELSE 0)
  <2>1. 0 # i
    BY IsFacts, Zenon
  <2>2. /\ { p \in Proc : file[p] = i } = {} /\ { p \in Proc : pr[p].cur = i } = {}
        /\ { p \in Proc : pr[p].ip = i } = {} /\ { p \in Proc : pr[p].dp = i } = {}
    BY <2>1, IdleFacts, Zenon DEF Booted
  <2>3. Pointers(i) = Count({ p \in Proc : cwd[p] = i }) + Is(i, ROOTINO)
    <3>1. PICK n \in Nat : n = Count({ p \in Proc : cwd[p] = i })
      BY Zenon DEF CountLaw
    <3>2. Pointers(i) = n + 0 + 0 + 0 + 0 + Is(i, ROOTINO)
      BY <1>4, <2>2, <3>1, Zenon DEF Pointers
    <3> QED
      BY <3>1, <3>2, IsFacts
  <2>4. CASE i = ROOTINO
    <3>1. { p \in Proc : cwd[p] = i } = Proc
      BY <2>4, Zenon DEF Booted
    <3>2. Is(i, ROOTINO) = 1 /\ i \notin fs.leaked
      BY <1>1, <2>4, Zenon DEF Is
    <3>3. fs.ic[i].ref = Count(Proc) + 1
      BY <1>1, <2>4, Zenon
    <3>4. Pointers(i) = Count(Proc) + 1
      BY <1>4, <2>3, <3>1, <3>2, Zenon
    <3> QED
      BY <1>4, <3>2, <3>3, <3>4
  <2>5. CASE i # ROOTINO
    <3>1. { p \in Proc : cwd[p] = i } = {}
      BY <2>5, Zenon DEF Booted
    <3> QED
      <4>1. Count({ p \in Proc : cwd[p] = i }) = 0
        BY <1>4, <3>1, Zenon
      <4> QED
        BY <1>1, <2>3, <2>5, <4>1 DEF Is
  <2> QED
    BY <2>4, <2>5, Zenon
<1>6. CacheOK(fs)
  BY <1>1, LeftAssumption, Zenon DEF CacheOK
<1>7. ASSUME NEW p \in Proc
      PROVE  /\ fs.trans = p <=> InTrans(pr[p])
             /\ \A i \in Inode : fs.ic[i].busy = p <=> Holds(pr[p], i)
             /\ TypesOK(pr[p], fs.di) /\ LocalsOK(pr[p], file[p])
  <2>1. pr[p] = Idle
    BY Zenon DEF Booted
  <2> QED
    BY <1>1, <2>1, IdleFacts, ProcAssumption, Zenon
<1> QED
  BY <1>1, <1>3, <1>5, <1>6, <1>7, ZenonT(30) DEF DirInv, RefsAreCounted, LocksInv, Booted

\* A process waits for the log or for a lock.  Whoever holds the lock of an inode is in
\* sys_unlink() and in a transaction, or in sys_open() and does not wait; and the one in
\* a transaction waits only for locks of processes that do not wait.
LEMMA Undeadlocked == DirInv => NoDeadlock
<1> SUFFICES ASSUME DirInv, ~fs.panic, \A i \in Inode : fs.ic[i].busy # Left,
                    NEW p0 \in Proc, pr[p0].pc # "user"
             PROVE  \E p \in { p \in Proc : pr[p].pc # "user" } : ~Waits(p)
  BY Zenon DEF NoDeadlock
<1>1. /\ fs \in FsType /\ \A p \in Proc : pr[p] \in LocalType /\ LocalsOK(pr[p], file[p])
      /\ \A p \in Proc : fs.trans = p <=> InTrans(pr[p])
      /\ \A p \in Proc, i \in Inode : fs.ic[i].busy = p <=> Holds(pr[p], i)
  BY Zenon DEF DirInv, RefsAreCounted, TypeOK, LocksInv
<1>2. ASSUME NEW p \in Proc, Wanted(p) # 0
      PROVE  Wanted(p) \in Inode /\ Wanted(p) \in {pr[p].cur, pr[p].ip, pr[p].dp}
  <2>1. Wanted(p) \in {pr[p].cur, pr[p].ip, pr[p].dp}
    BY <1>2, Zenon DEF Wanted
  <2> QED
    BY <1>1, <1>2, <2>1, NInodesAssumption DEF LocalType, Inode
<1>3. ASSUME NEW i \in Inode, fs.ic[i].busy # None
      PROVE  \E q \in Proc : Holds(pr[q], i)
  BY <1>1, <1>3, Fields, CacheFields
<1>4. CASE \E p \in Proc : pr[p].pc = "filealloc"
  <2>1. PICK p \in Proc : pr[p].pc = "filealloc"
    BY <1>4, Zenon
  <2>2. Wanted(p) = 0
    BY <2>1, Zenon DEF Wanted
  <2> QED
    BY <2>1, <2>2, Zenon DEF Waits
<1>5. ASSUME \A p \in Proc : pr[p].pc # "filealloc", NEW p \in Proc, InTrans(pr[p])
      PROVE  ~Waits(p) /\ pr[p].pc # "user"
  <2>1. pr[p].pc \notin {"user", "link_begin", "unlink_begin", "create_begin", "fileclose"}
    BY <1>5, Zenon DEF InTrans
  <2>2. ASSUME Wanted(p) # 0, fs.ic[Wanted(p)].busy # None
        PROVE  FALSE
    <3>1. PICK q \in Proc : Holds(pr[q], Wanted(p))
      BY <1>2, <1>3, <2>2, Zenon
    <3>2. pr[q].pc = "unlink_ip" /\ pr[q].dp = Wanted(p)
      BY <1>5, <3>1, Zenon DEF Holds
    <3>3. q = p
      BY <1>1, <1>5, <3>2, Zenon DEF InTrans
    <3>4. Wanted(p) = pr[p].ip
      BY <3>2, <3>3, Zenon DEF Wanted
    <3> QED
      BY <1>1, <3>2, <3>3, <3>4 DEF LocalsOK
  <2> QED
    BY <2>1, <2>2, Zenon DEF Waits
<1>6. ASSUME \A p \in Proc : pr[p].pc # "filealloc" /\ ~InTrans(pr[p])
      PROVE  ~Waits(p0)
  <2>1. fs.trans = None
    BY <1>1, <1>6, Fields, Zenon
  <2>2. \A q \in Proc : \A i : ~Holds(pr[q], i)
    BY <1>6, Zenon DEF Holds, InTrans
  <2> QED
    BY <1>2, <1>3, <2>1, <2>2, Zenon DEF Waits
<1> QED
  BY <1>4, <1>5, <1>6, Zenon

\* mkfs leaves the root directory, and the machine starts from it.
LEMMA InitBooted == Init => Booted
<1> SUFFICES ASSUME Init PROVE Booted
  BY Zenon
<1>1. ROOTINO \in Inode /\ <<>> \in Path
  BY NInodesAssumption, PathFacts DEF ROOTINO, Inode
<1> DEFINE e == Dinode("T_DIR", 1, [NoEnts EXCEPT ![".."] = ROOTINO], <<>>)
<1> HIDE DEF e
<1>3. e = NewDinode("mkdir", <<>>, ROOTINO)
  BY Zenon DEF NewDinode, TypeOf, e
<1>4. e \in DinodeType /\ \A i \in Inode, n \in Name : e.ents[n] # i
  BY <1>1, <1>3, NewInode, Zenon
<1>5. \A i \in Inode, n \in Name : FreeInode.ents[n] # i
  BY FreeInodeType, IsFacts, Zenon DEF NoEnts
<1>6. home = [i \in Inode |-> IF i = ROOTINO THEN e ELSE FreeInode]
  BY Zenon DEF Init, e
<1>7. home \in DiType
  BY <1>4, <1>6, FreeInodeType, Zenon DEF DiType
<1>8. NoSelf(home)
  BY <1>4, <1>5, <1>6, Zenon DEF NoSelf
<1> QED
  BY <1>7, <1>8, Zenon DEF Init, Booted

\* Every step but a crash.
LEMMA NextOK ==
  ASSUME CountLaw, DirInv, Next, ~crash
  PROVE  StepOK
<1>1. PICK p \in Proc :
        \/ \E c \in Calls[p] : syscall(p, c)
        \/ walk(p) \/ readlink(p)
        \/ link_begin(p) \/ link_inc(p) \/ link_add(p) \/ link_bad(p)
        \/ unlink_begin(p) \/ unlink_dp(p) \/ unlink_ip(p)
        \/ create_begin(p) \/ create_dp(p) \/ create_old(p)
        \/ opened(p) \/ filealloc(p) \/ fileclose(p) \/ exit(p)
  BY Zenon DEF Next
<1>2. ~fs.panic
  BY <1>1, Zenon DEF At, syscall, walk, readlink, link_begin, link_inc, link_add, link_bad,
     unlink_begin, unlink_dp, unlink_ip, create_begin, create_dp, create_old, opened, filealloc,
     fileclose, exit
<1>3. Safe(p)
  BY <1>2, InvSafe, Zenon
<1>4. Turn(p)
  BY <1>1, <1>3, SyscallStep, WalkStep, ReadlinkStep, LinkBeginStep, LinkIncStep, LinkAddStep,
     LinkBadStep, UnlinkBeginStep, UnlinkDpStep, UnlinkIpStep, CreateBeginStep, CreateDpStep,
     CreateOldStep, OpenedStep, FileallocStep, FilecloseStep, ExitStep, Zenon
<1> QED
  BY <1>2, <1>4, TurnOK, Zenon

INSTANCE FiniteSetTheorems

\* The law of counting holds, for there are finitely many processes.
LEMMA Counting == CountLaw
<1>1. ASSUME NEW A \in SUBSET Proc
      PROVE  IsFiniteSet(A) /\ Count(A) \in Nat
  BY ProcAssumption, FS_Subset, FS_CardinalityType, Zenon DEF Count
<1>2. ASSUME NEW A \in SUBSET Proc, NEW p \in Proc
      PROVE  Count(A \ {p}) = Count(A) - In(p, A)
  <2>1. CASE p \in A
    <3>1. Cardinality(A \ {p}) = Cardinality(A) - 1
      BY <1>1, <2>1, FS_RemoveElement, ZenonT(30)
    <3> QED
      BY <2>1, <3>1, Zenon DEF Count, In
  <2>2. CASE p \notin A
    <3>1. A \ {p} = A
      BY <2>2, Zenon
    <3>2. Count(A \ {p}) = Count(A)
      BY <3>1, Zenon
    <3> QED
      BY <1>1, <2>2, <3>2 DEF In
  <2> QED
    BY <2>1, <2>2, Zenon
<1>3. Count({}) = 0
  BY FS_EmptySet, Zenon DEF Count
<1> QED
  BY <1>1, <1>2, <1>3, Zenon DEF CountLaw

\* The invariant holds after every start, of a new file system or after a crash.
LEMMA BootedInv == Booted => DirInv
  BY BootInv, Counting, Zenon

\* The invariant of the system calls holds in every state, for any number of
\* processes, inodes and names and whatever calls they make: every reference of the inode
\* cache is a pointer of a process or was lost by filereadlink() or filesymlink(), the
\* log is held by the call that began the transaction, every I_BUSY inode is locked by the
\* call that will unlock it, and a cached inode has the type of the one on the disk.
THEOREM DirInvariance == Spec => []DirInv
<1>1. Init => DirInv
  BY InitBooted, BootedInv, Zenon
<1>2. DirInv /\ crash => Booted'
  BY Zenon DEF DirInv, RefsAreCounted, TypeOK, crash, Booted
<1>3. Booted' => DirInv'
  BY BootedInv, PTL
<1>4. DirInv /\ UNCHANGED vars => DirInv'
  BY DEF vars, DirInv, RefsAreCounted, TypeOK, Pointers, LocksInv
<1>5. DirInv /\ Next /\ ~crash => DirInv'
  BY NextOK, Counting, Zenon DEF StepOK
<1>6. DirInv /\ [Next]_vars => DirInv'
  BY <1>2, <1>3, <1>4, <1>5, Zenon
<1> QED
  BY <1>1, <1>6, PTL DEF Spec

\* ip->ref is the number of pointers to the entry (fs.c:125), but for the
\* references that filereadlink() and filesymlink() never put, on every path of every
\* call: iget(), idup(), iput() and the calls' error paths never lose or drop another one.
THEOREM ReferencesAreCounted == Spec => []RefsAreCounted
<1>1. DirInv => RefsAreCounted
  BY Zenon DEF DirInv
<1> QED
  BY <1>1, DirInvariance, PTL

\* iput() does not free an inode that a process still has a pointer to, and
\* ialloc() does not give it to another file, whatever other processes unlink.
THEOREM InodesStay == Spec => PointersStayAllocated
<1> DEFINE A == ~fs'.panic /\ ~crash =>
                  \A i \in Inode : fs.di[i].type # "none" /\ Pointers(i) > 0 /\ Pointers(i)' > 0 =>
                    fs'.di[i].type = fs.di[i].type
<1>1. ASSUME DirInv, Next, DirInv' PROVE A
  <2> SUFFICES ASSUME ~fs'.panic, ~crash, NEW i \in Inode, fs.di[i].type # "none", Pointers(i)' > 0
               PROVE  fs'.di[i].type = fs.di[i].type
    BY Zenon
  <2>1. TypeKept(fs'.di, i)
    BY <1>1, NextOK, Counting, Zenon DEF StepOK
  <2> QED
    BY <2>1, PointersNat, Counting, SMTT(30) DEF TypeKept
<1>2. DirInv /\ DirInv' /\ [Next]_vars => [A]_vars
  BY <1>1, Zenon
<1>3. Spec => [][A]_vars
  BY <1>2, DirInvariance, PTL DEF Spec
<1> QED
  BY <1>3, Zenon DEF PointersStayAllocated

\* The locks of inodes and the log never have all processes of the kernel wait
\* for each other, unless filereadlink() has left a lock behind.
THEOREM NoDeadlockEver == Spec => []NoDeadlock
  BY Undeadlocked, DirInvariance, PTL
=============================================================================
