----------------------------- MODULE InodeProofs -----------------------------
(***************************************************************************)
(* The inode cache under the system calls: what a step of one process does *)
(* to the references, the locks and the inodes.                            *)
(*                                                                         *)
(* A step is a composition of the functions of fs.c.  For each function a  *)
(* ...Step lemma says what it does to the count of references and to the   *)
(* lock of each inode (Net), and a Mid... lemma carries what p can rely on *)
(* in the course of its step (Mid) past it: p has o[j] references to each  *)
(* inode j, and holds the locks of H.  A step that ends with the           *)
(* references and locks that its local variables stand for is a Turn.      *)
(* Here are the turns of namex(), of sys_open() and of the resolution of   *)
(* symbolic links; those of the other calls are in DirProofs.tla.          *)
(***************************************************************************)
EXTENDS Dir, TLAPS

\* The fields of a state of the file system ...
LEMMA Fields ==
  ASSUME NEW s \in FsType
  PROVE  /\ s.di \in DiType /\ s.ic \in IcType /\ s.trans \in Proc \cup {None}
         /\ s.leaked \in SUBSET Inode /\ s.panic \in BOOLEAN
  BY Zenon DEF FsType

\* ... of an entry of the inode cache ...
LEMMA CacheFields ==
  ASSUME NEW x \in IcType, NEW i \in Inode
  PROVE  /\ x[i] \in CacheType /\ x[i].ref \in Int /\ x[i].nlink \in Int /\ x[i].type \in Types
         /\ x[i].busy \in Proc \cup {None, Left} /\ x[i].valid \in BOOLEAN
  BY Zenon DEF IcType, CacheType

\* ... and of an inode on the disk.
LEMMA DinodeFields ==
  ASSUME NEW x \in DiType, NEW i \in Inode
  PROVE  /\ x[i] \in DinodeType /\ x[i].type \in Types /\ x[i].nlink \in Int
         /\ x[i].ents \in [Name \cup {".."} -> 0..NInodes] /\ x[i].text \in Path
  BY Zenon DEF DiType, DinodeType

\* panic() only sets the flag.
LEMMA PanicFacts ==
  ASSUME NEW s \in FsType
  PROVE  Panic(s) \in FsType /\ Panic(s).panic = TRUE
  BY Zenon DEF FsType, Panic

\* An inode in the cache, or on the disk, is replaced.
LEMMA Entry ==
  ASSUME NEW x \in IcType, NEW i \in Inode, NEW c \in CacheType
  PROVE  /\ [x EXCEPT ![i] = c] \in IcType
         /\ \A j \in Inode : [x EXCEPT ![i] = c][j] = IF j = i THEN c ELSE x[j]
  BY Zenon DEF IcType

\* Writing one inode of the disk changes nothing else.
LEMMA SetDinode ==
  ASSUME NEW x \in DiType, NEW i \in Inode, NEW d \in DinodeType
  PROVE  /\ [x EXCEPT ![i] = d] \in DiType
         /\ \A j \in Inode : [x EXCEPT ![i] = d][j] = IF j = i THEN d ELSE x[j]
  BY Zenon DEF DiType

\* The operations that write one entry of the cache.
Writes(s, t, i, c) == t = [s EXCEPT !.ic = [s.ic EXCEPT ![i] = c]]

\* The same for one entry of the cache.
LEMMA SetCache ==
  ASSUME NEW s \in FsType, NEW i \in Inode, NEW c \in CacheType, NEW t, Writes(s, t, i, c)
  PROVE  /\ t \in FsType /\ t.leaked = s.leaked /\ t.di = s.di /\ t.panic = s.panic
         /\ t.trans = s.trans
         /\ \A j \in Inode : t.ic[j] = IF j = i THEN c ELSE s.ic[j]
<1> DEFINE x == [s.ic EXCEPT ![i] = c]
<1> HIDE DEF x
<1>2. x \in IcType /\ \A j \in Inode : x[j] = IF j = i THEN c ELSE s.ic[j]
  BY Fields, Entry DEF x
<1>3. t = [s EXCEPT !.ic = x]
  BY Zenon DEF Writes, x
<1>4. /\ t \in FsType /\ t.ic = x /\ t.di = s.di /\ t.trans = s.trans
      /\ t.leaked = s.leaked /\ t.panic = s.panic
  BY <1>2, <1>3, Zenon DEF FsType
<1> QED
  BY <1>2, <1>4, Zenon

\* What the cache says of inode i: only a lost reference is left locked, and a valid
\* entry has the type of the inode on the disk.
CacheAt(s, i) ==
  /\ s.ic[i].busy = Left => i \in s.leaked
  /\ s.ic[i].valid => s.ic[i].type = s.di[i].type /\ s.di[i].type # "none"

\* The references to i that are counted and not lost.
Ex(s, i) == s.ic[i].ref - (IF i \in s.leaked THEN 1 ELSE 0)

\* At entry j, k references are added, and what is cached stays right.
Eff(s, t, j, k) ==
  /\ t.ic[j].ref = s.ic[j].ref + k
  /\ CacheAt(s, j) => CacheAt(t, j)

\* The operations that write a count of references.
WritesRef(s, t, i, r) == t = [s EXCEPT !.ic[i].ref = r]

\* Writing a count of references changes neither the locks nor what is cached.
LEMMA SetRef ==
  ASSUME NEW s \in FsType, NEW i \in Inode, NEW r \in Int, NEW t, WritesRef(s, t, i, r)
  PROVE  /\ t \in FsType /\ t.leaked = s.leaked /\ t.di = s.di /\ t.panic = s.panic
         /\ t.trans = s.trans
         /\ t.ic[i].ref = r
         /\ \A j \in Inode :
              /\ j # i => t.ic[j].ref = s.ic[j].ref
              /\ CacheAt(s, j) => CacheAt(t, j)
              /\ t.ic[j].busy = s.ic[j].busy
<1>1. s.ic \in IcType /\ s.ic[i] \in CacheType
  BY Fields, CacheFields, Zenon
<1> DEFINE c == [s.ic[i] EXCEPT !.ref = r]
<1> HIDE DEF c
<1>3. /\ c \in CacheType /\ c.ref = r /\ c.busy = s.ic[i].busy
      /\ c.valid = s.ic[i].valid /\ c.type = s.ic[i].type
  BY <1>1, Zenon DEF CacheType, c
<1>4. Writes(s, t, i, c)
  BY Zenon DEF WritesRef, Writes, c
<1>5. /\ t \in FsType /\ t.leaked = s.leaked /\ t.di = s.di /\ t.panic = s.panic
      /\ t.trans = s.trans
      /\ \A j \in Inode : t.ic[j] = IF j = i THEN c ELSE s.ic[j]
  BY <1>3, <1>4, SetCache
<1> QED
  BY <1>3, <1>5, Zenon DEF CacheAt

\* No name of a directory leads to the directory itself.
SelfAt(s, j) == \A n \in Name : s.di[j].ents[n] # j

\* What the operations rely on at inode j, and keep.
GoodAt(s, j) ==
  /\ s.ic[j].ref \in Nat
  /\ s.ic[j].busy # None => s.ic[j].ref > 0
  /\ CacheAt(s, j)
  /\ SelfAt(s, j)

\* A state between two functions of fs.c.
Good(s) == s \in FsType /\ \A j \in Inode : GoodAt(s, j)

\* At inode j, k references have been counted.  The type can only
\* have been changed by freeing the inode.
Move(s, t, j, k) ==
  /\ GoodAt(t, j)
  /\ Ex(t, j) = Ex(s, j) + k
  /\ t.di[j].type = s.di[j].type \/ Ex(t, j) <= 0 \/ s.di[j].type = "none"
  /\ j \in s.leaked => j \in t.leaked

\* One more reference to g, one less to d, and b for the lock of i.
NetAt(s, t, j, g, d, i, b) ==
  /\ Move(s, t, j, Is(g, j) - Is(d, j))
  /\ t.ic[j].busy = IF j = i THEN b ELSE s.ic[j].busy

\* The effect of a function of fs.c on all inodes.
Net(s, t, g, d, i, b) == \A j \in Inode : NetAt(s, t, j, g, d, i, b)

\* The function returned, and did not touch the transaction.
Done(s, t) == ~s.panic /\ t.trans = s.trans

\* No operation leaves the state that panic() stops in.
Mono(s, t) == t \in FsType /\ (~t.panic => ~s.panic)

\* Zero is no inode.
LEMMA IsFacts ==
  /\ \A i, j : Is(i, j) \in {0, 1}
  /\ \A j \in Inode : Is(0, j) = 0 /\ 0 # j
  BY NInodesAssumption DEF Is, Inode

\* The references that are not lost are a number.
LEMMA ExInt ==
  ASSUME NEW s, Good(s), NEW j \in Inode
  PROVE  Ex(s, j) \in Int
  BY DEF Good, GoodAt, Ex

\* Begin and end of a transaction.
LEMMA TransFacts ==
  ASSUME NEW s \in FsType, NEW x \in Proc \cup {None}
  PROVE  /\ [s EXCEPT !.trans = x] \in FsType
         /\ [s EXCEPT !.trans = x].trans = x
         /\ [s EXCEPT !.trans = x].ic = s.ic
         /\ [s EXCEPT !.trans = x].di = s.di
         /\ [s EXCEPT !.trans = x].leaked = s.leaked
         /\ [s EXCEPT !.trans = x].panic = s.panic
  BY Zenon DEF FsType

\* idup() and iget() count a reference.
LEMMA GetStep ==
  ASSUME NEW s \in FsType, NEW i \in Inode, NEW t, t = iget(s, i) \/ t = idup(s, i)
  PROVE  /\ Mono(s, t)
         /\ Good(s) /\ ~t.panic =>
              /\ Done(s, t) /\ Net(s, t, i, 0, 0, None) /\ t.di = s.di
              /\ t.ic[i].ref = s.ic[i].ref + 1
<1> DEFINE Frame(u) == /\ u \in FsType /\ u.leaked = s.leaked /\ u.di = s.di /\ u.panic = s.panic
                       /\ u.trans = s.trans
           Counts(u) == \A j \in Inode : Eff(s, u, j, Is(i, j)) /\ u.ic[j].busy = s.ic[j].busy
<1>1. s.ic \in IcType /\ \A j \in Inode : s.ic[j].ref \in Int
  BY Fields, CacheFields, Zenon
<1>2. ASSUME t = idup(s, i)
      PROVE  Frame(t) /\ Counts(t)
  <2>1. WritesRef(s, t, i, s.ic[i].ref + 1)
    BY <1>2, Zenon DEF idup, WritesRef
  <2> QED
    BY <1>1, <2>1, SetRef DEF Eff, Is
<1>3. ASSUME t = [s EXCEPT !.ic[i] = [NotCached EXCEPT !.ref = 1]], ~(s.ic[i].ref > 0)
      PROVE  Frame(t) /\ (Good(s) => Counts(t))
  <2> DEFINE c == [NotCached EXCEPT !.ref = 1]
  <2> HIDE DEF c
  <2>2. c \in CacheType /\ c.ref = 1 /\ c.busy = None /\ ~c.valid
    <3>1. "none" \in Types /\ None \in Proc \cup {None, Left}
      BY Zenon DEF Types
    <3>2. NotCached \in CacheType
      BY <3>1 DEF NotCached, CacheType
    <3>3. c.ref = 1 /\ c.busy = None /\ ~c.valid
      BY Zenon DEF NotCached, c
    <3> QED
      BY <3>2, <3>3 DEF CacheType, c
  <2>3. Writes(s, t, i, c)
    BY <1>3, Zenon DEF Writes, c
  <2>4. Frame(t) /\ \A j \in Inode : t.ic[j] = IF j = i THEN c ELSE s.ic[j]
    BY <2>2, <2>3, SetCache
  <2>5. ASSUME Good(s)
        PROVE  s.ic[i].ref = 0 /\ s.ic[i].busy = None
    BY <1>3, <2>5 DEF Good, GoodAt
  <2> QED
    BY <1>1, <2>2, <2>4, <2>5, LeftAssumption DEF Eff, CacheAt, Is
<1>4. Mono(s, t) /\ (Good(s) /\ ~t.panic => Frame(t) /\ Counts(t))
  <2>1. CASE t = idup(s, i)
    BY <1>2, <2>1, Zenon DEF Mono
  <2>2. CASE t = iget(s, i)
    <3>1. CASE s.ic[i].ref > 0
      BY <1>2, <2>2, <3>1, Zenon DEF iget, idup, Mono
    <3>2. CASE ~(s.ic[i].ref > 0) /\ Cardinality(Cached(s)) = NINODE
      BY <2>2, <3>2, PanicFacts, Zenon DEF iget, Mono
    <3>3. CASE ~(s.ic[i].ref > 0) /\ Cardinality(Cached(s)) # NINODE
      BY <1>3, <2>2, <3>3, Zenon DEF iget, Mono
    <3> QED
      BY <3>1, <3>2, <3>3, Zenon
  <2> QED
    BY <2>1, <2>2, Zenon
<1>5. ASSUME Good(s), Frame(t), Counts(t), NEW j \in Inode
      PROVE  NetAt(s, t, j, i, 0, 0, None)
  <2>1. GoodAt(s, j) /\ Is(i, j) \in {0, 1}
    BY <1>5, IsFacts, Zenon DEF Good
  <2> QED
    BY <1>5, <2>1, IsFacts DEF NetAt, Move, GoodAt, Eff, Ex, SelfAt
<1>6. Counts(t) => t.ic[i].ref = s.ic[i].ref + 1
  BY Zenon DEF Eff, Is
<1> HIDE DEF Counts
<1> QED
  BY <1>4, <1>5, <1>6, Zenon DEF Net, Done

\* The rest of ilock(): the inode is marked busy, and read.
LEMMA LockStep ==
  ASSUME NEW s \in FsType, NEW p \in Proc, NEW i \in Inode, NEW t, t = ilock(s, p, i)
  PROVE  /\ Mono(s, t) /\ t.di = s.di
         /\ Good(s) /\ s.ic[i].ref > 0 /\ ~t.panic =>
              /\ Done(s, t) /\ Net(s, t, 0, 0, i, p)
              /\ t.ic[i].type = s.di[i].type /\ s.di[i].type # "none"
<1>1. s.ic \in IcType /\ s.ic[i] \in CacheType /\ s.panic \in BOOLEAN /\ s.ic[i].valid \in BOOLEAN
  BY Fields, CacheFields, Zenon
<1>2. \A j \in Inode : s.ic[j].ref \in Int
  BY <1>1, CacheFields, Zenon
<1> DEFINE c == IF s.ic[i].valid THEN [s.ic[i] EXCEPT !.busy = p]
                ELSE [ref |-> s.ic[i].ref, busy |-> p, valid |-> TRUE,
                      type |-> s.di[i].type, nlink |-> s.di[i].nlink]
<1> HIDE DEF c
<1>4. /\ c \in CacheType /\ c.ref = s.ic[i].ref /\ c.busy = p /\ c.valid
      /\ c.type = IF s.ic[i].valid THEN s.ic[i].type ELSE s.di[i].type
  <2>1. CASE s.ic[i].valid
    BY <1>1, <2>1, Zenon DEF CacheType, c
  <2>2. CASE ~s.ic[i].valid
    <3>1. s.di[i].type \in Types /\ s.di[i].nlink \in Int
      BY Fields, DinodeFields, Zenon
    <3> QED
      BY <1>2, <2>2, <3>1, Zenon DEF CacheType, c
  <2> QED
    BY <2>1, <2>2, Zenon
<1> DEFINE x == [s.ic EXCEPT ![i] = c]
<1> HIDE DEF x
<1>6. x \in IcType /\ \A j \in Inode : x[j] = IF j = i THEN c ELSE s.ic[j]
  BY <1>1, <1>4, Entry, Zenon DEF x
<1>7. PICK b \in BOOLEAN : b = (s.panic \/ (~s.ic[i].valid /\ s.di[i].type = "none"))
  BY Zenon
<1>8. /\ t \in FsType /\ t.ic = x /\ t.di = s.di /\ t.trans = s.trans
      /\ t.leaked = s.leaked /\ t.panic = b
  <2>1. CASE s.ic[i].valid
    <3>1. t = [s EXCEPT !.ic = x] /\ b = s.panic
      BY <1>1, <1>7, <2>1, Zenon DEF ilock, c, x
    <3> QED
      BY <1>6, <3>1, Zenon DEF FsType
  <2>2. CASE ~s.ic[i].valid
    <3>1. t = [s EXCEPT !.ic = x, !.panic = b]
      BY <1>7, <2>2, Zenon DEF ilock, c, x
    <3> QED
      BY <1>6, <1>7, <3>1, Zenon DEF FsType
  <2> QED
    BY <2>1, <2>2, Zenon
<1>9. ~t.panic => ~s.panic /\ (s.ic[i].valid \/ s.di[i].type # "none")
  BY <1>7, <1>8, Zenon
<1>10. ASSUME Good(s), s.ic[i].ref > 0, ~t.panic, NEW j \in Inode
       PROVE  /\ NetAt(s, t, j, 0, 0, i, p)
              /\ t.ic[i].type = s.di[i].type /\ s.di[i].type # "none"
  <2>1. GoodAt(s, j) /\ CacheAt(s, i)
    BY <1>10, Zenon DEF Good, GoodAt
  <2>2. t.ic[i].type = s.di[i].type /\ s.di[i].type # "none"
    BY <1>4, <1>6, <1>8, <1>9, <1>10, <2>1, Zenon DEF CacheAt
  <2>3. CacheAt(t, j) /\ t.ic[j].ref = s.ic[j].ref
    BY <1>4, <1>6, <1>8, <2>1, <2>2, LeftAssumption DEF GoodAt, CacheAt
  <2> QED
    BY <1>4, <1>6, <1>8, <1>10, <2>1, <2>2, <2>3, IsFacts DEF NetAt, Move, GoodAt, Ex, SelfAt
<1> QED
  BY <1>8, <1>9, <1>10, Zenon DEF Net, Done, Mono

\* iunlock(), or a lock that nobody has any more.
SetBusy(s, i, b) == [s EXCEPT !.ic[i].busy = b]

\* The lock of i is given up, or left behind with a lost reference.
LEMMA UnlockStep ==
  ASSUME NEW s \in FsType, NEW i \in Inode, NEW b \in {None, Left},
         NEW t, t = SetBusy(s, i, b)
  PROVE  /\ Mono(s, t) /\ t.di = s.di
         /\ Good(s) /\ (b = Left => i \in s.leaked /\ s.ic[i].ref > 0) /\ ~t.panic =>
              Done(s, t) /\ Net(s, t, 0, 0, i, b)
<1>1. s.ic \in IcType /\ s.ic[i] \in CacheType
  BY Fields, CacheFields, Zenon
<1> DEFINE c == [s.ic[i] EXCEPT !.busy = b]
<1> HIDE DEF c
<1>3. /\ c \in CacheType /\ c.ref = s.ic[i].ref /\ c.busy = b
      /\ c.valid = s.ic[i].valid /\ c.type = s.ic[i].type
  BY <1>1, Zenon DEF CacheType, c
<1>4. Writes(s, t, i, c)
  BY Zenon DEF Writes, SetBusy, c
<1>5. /\ t \in FsType /\ t.leaked = s.leaked /\ t.di = s.di /\ t.panic = s.panic
      /\ t.trans = s.trans
      /\ \A j \in Inode : t.ic[j] = IF j = i THEN c ELSE s.ic[j]
  BY <1>3, <1>4, SetCache
<1>6. ASSUME Good(s), b = Left => i \in s.leaked /\ s.ic[i].ref > 0, NEW j \in Inode
      PROVE  NetAt(s, t, j, 0, 0, i, b)
  <2>1. GoodAt(s, j)
    BY <1>6, Zenon DEF Good
  <2>2. CacheAt(t, j) /\ t.ic[j].ref = s.ic[j].ref
    BY <1>3, <1>5, <1>6, <2>1, LeftAssumption DEF GoodAt, CacheAt
  <2> QED
    BY <1>3, <1>5, <1>6, <2>1, <2>2, IsFacts DEF NetAt, Move, GoodAt, Ex, SelfAt
<1> QED
  BY <1>5, <1>6, Zenon DEF Net, Done, Mono

\* What iput() writes to the disk is an inode without entries.
LEMMA FreeInodeType == FreeInode \in DinodeType /\ FreeInode.type = "none" /\ FreeInode.ents = NoEnts
<1>1. "none" \in Types
  BY Zenon DEF Types
<1>2. <<>> \in Path
  BY DEF Path
<1>3. NoEnts \in [Name \cup {".."} -> 0..NInodes]
  BY NInodesAssumption DEF NoEnts
<1> HIDE DEF Types, Path, NoEnts
<1> QED
  BY <1>1, <1>2, <1>3 DEF FreeInode, Dinode, DinodeType

\* iput() drops a reference; with the last one, it may free the inode.
LEMMA PutStep ==
  ASSUME NEW s \in FsType, NEW i \in Inode, NEW t, t = iput(s, i)
  PROVE  /\ Mono(s, t)
         /\ Good(s) /\ s.ic[i].ref > 0 /\ (s.ic[i].busy = None \/ s.ic[i].ref > 1) /\ ~t.panic =>
              /\ Done(s, t) /\ Net(s, t, 0, i, 0, None)
              /\ \A j \in Inode : j # i => t.di[j] = s.di[j]
<1>1. /\ s.ic \in IcType /\ s.ic[i] \in CacheType /\ s.di \in DiType
      /\ \A j \in Inode : s.ic[j].ref \in Int
  BY Fields, CacheFields, Zenon
<1> DEFINE f == [s EXCEPT !.di[i] = FreeInode, !.ic[i].valid = FALSE,
                          !.panic = @ \/ s.ic[i].busy # None]
<1> HIDE DEF f
<1>3. /\ f \in FsType /\ f.leaked = s.leaked /\ f.trans = s.trans /\ (~f.panic => ~s.panic)
      /\ f.di[i] = FreeInode
      /\ \A j \in Inode :
           /\ j # i => f.di[j] = s.di[j]
           /\ Eff(s, f, j, 0)
           /\ f.ic[j].busy = s.ic[j].busy
  <2> DEFINE c == [s.ic[i] EXCEPT !.valid = FALSE]
  <2> HIDE DEF c
  <2>2. c \in CacheType /\ c.ref = s.ic[i].ref /\ c.busy = s.ic[i].busy /\ ~c.valid
    BY <1>1, Zenon DEF CacheType, c
  <2> DEFINE y == [s.ic EXCEPT ![i] = c]
  <2> HIDE DEF y
  <2>4. y \in IcType /\ \A j \in Inode : y[j] = IF j = i THEN c ELSE s.ic[j]
    BY <1>1, <2>2, Entry DEF y
  <2> DEFINE x == [s.di EXCEPT ![i] = FreeInode]
  <2> HIDE DEF x
  <2>6. x \in DiType /\ \A j \in Inode : x[j] = IF j = i THEN FreeInode ELSE s.di[j]
    BY <1>1, FreeInodeType, SetDinode DEF x
  <2>7. PICK b \in BOOLEAN : b = (s.panic \/ s.ic[i].busy # None)
    BY Zenon
  <2>8. f = [s EXCEPT !.di = x, !.ic = y, !.panic = b]
    BY <2>7, Zenon DEF f, c, y, x
  <2>9. /\ f \in FsType /\ f.ic = y /\ f.di = x /\ f.trans = s.trans
        /\ f.leaked = s.leaked /\ f.panic = b
    BY <2>4, <2>6, <2>7, <2>8, Zenon DEF FsType
  <2>10. ~b => ~s.panic
    BY <2>7, Zenon
  <2> QED
    BY <1>1, <2>2, <2>4, <2>6, <2>9, <2>10 DEF Eff, CacheAt
<1> DEFINE u == IF LastReference(s, i) THEN log_write(f) ELSE s
<1> HIDE DEF u
<1>5. /\ u \in FsType
      /\ u.panic \/ (LastReference(s, i) /\ u = f) \/ (~LastReference(s, i) /\ u = s)
  BY <1>3, PanicFacts, Zenon DEF log_write, u
<1>6. \A j \in Inode : u.ic[j].ref \in Int
  BY <1>5, Fields, CacheFields, Zenon
<1>7. WritesRef(u, t, i, u.ic[i].ref - 1)
  BY Zenon DEF iput, WritesRef, f, u
<1>8. /\ t \in FsType /\ t.leaked = u.leaked /\ t.di = u.di /\ t.panic = u.panic
      /\ t.trans = u.trans
      /\ t.ic[i].ref = u.ic[i].ref - 1
      /\ \A j \in Inode :
              /\ j # i => t.ic[j].ref = u.ic[j].ref
              /\ CacheAt(u, j) => CacheAt(t, j)
              /\ t.ic[j].busy = u.ic[j].busy
  <2>1. u \in FsType /\ u.ic[i].ref - 1 \in Int
    BY <1>5, <1>6
  <2> QED
    BY <1>7, <2>1, SetRef
<1>9. ASSUME ~t.panic
      PROVE  /\ ~s.panic /\ t.leaked = s.leaked /\ t.trans = s.trans
             /\ \A j \in Inode :
                  /\ t.ic[j].ref = s.ic[j].ref - Is(i, j)
                  /\ CacheAt(s, j) => CacheAt(t, j)
                  /\ t.ic[j].busy = s.ic[j].busy
                  /\ t.di[j] = s.di[j] \/ (j = i /\ t.ic[j].ref = 0 /\ t.di[j] = FreeInode)
  <2>1. CASE ~LastReference(s, i) /\ u = s
    BY <1>1, <1>8, <1>9, <2>1 DEF Is
  <2>2. CASE LastReference(s, i) /\ u = f
    <3>1. s.ic[i].ref = 1
      BY <2>2, Zenon DEF LastReference
    <3> QED
      BY <1>1, <1>3, <1>8, <1>9, <2>2, <3>1 DEF Is, Eff
  <2> QED
    BY <1>5, <1>8, <1>9, <2>1, <2>2, Zenon
<1>10. ASSUME Good(s), s.ic[i].ref > 0, s.ic[i].busy = None \/ s.ic[i].ref > 1, ~t.panic, NEW j \in Inode
       PROVE  NetAt(s, t, j, 0, i, 0, None)
  <2>1. Is(i, j) = (IF i = j THEN 1 ELSE 0) /\ GoodAt(s, j)
    BY <1>10, Zenon DEF Is, Good
  <2>2. SelfAt(t, j)
    <3>1. CASE t.di[j] = s.di[j]
      BY <2>1, <3>1, Zenon DEF SelfAt, GoodAt
    <3>2. CASE t.di[j] = FreeInode
      BY <3>2, IsFacts, FreeInodeType, Zenon DEF SelfAt, NoEnts
    <3> QED
      BY <1>9, <1>10, <3>1, <3>2, Zenon
  <2>3. s.ic[j].ref - Is(i, j) \in Nat
    BY <1>10, <2>1 DEF GoodAt
  <2>4. Is(0, j) = 0 /\ 0 # j
    BY IsFacts, Zenon
  <2>5. /\ t.leaked = s.leaked /\ t.ic[j].ref = s.ic[j].ref - Is(i, j) /\ t.ic[j].busy = s.ic[j].busy
        /\ CacheAt(s, j) => CacheAt(t, j)
        /\ t.di[j] = s.di[j] \/ (j = i /\ t.ic[j].ref = 0)
        /\ i = j => s.ic[j].busy = None \/ s.ic[j].ref > 1
    BY <1>9, <1>10, Zenon
  <2> QED
    BY <2>1, <2>2, <2>3, <2>4, <2>5, SMTT(30) DEF NetAt, Move, GoodAt, Ex
<1> QED
  BY <1>8, <1>9, <1>10, Zenon DEF Net, Done, Mono

\* A link count is changed, and written to the disk.
LEMMA UpdateStep ==
  ASSUME NEW s \in FsType, NEW i \in Inode, NEW d \in Int, NEW t, t = iupdate(s, i, d)
  PROVE  /\ Mono(s, t)
         /\ Good(s) /\ ~t.panic =>
              /\ Done(s, t) /\ Net(s, t, 0, 0, 0, None)
              /\ \A j \in Inode : t.di[j].type = s.di[j].type
<1>1. /\ s.ic \in IcType /\ s.ic[i] \in CacheType /\ s.di \in DiType /\ s.di[i] \in DinodeType
      /\ s.ic[i].nlink \in Int
  BY Fields, CacheFields, DinodeFields, Zenon
<1> DEFINE c == [s.ic[i] EXCEPT !.nlink = s.ic[i].nlink + d]
<1> HIDE DEF c
<1>3. /\ c \in CacheType /\ c.ref = s.ic[i].ref /\ c.busy = s.ic[i].busy
      /\ c.valid = s.ic[i].valid /\ c.type = s.ic[i].type
  BY <1>1 DEF CacheType, c
<1> DEFINE e == [s.di[i] EXCEPT !.nlink = s.ic[i].nlink + d]
<1> HIDE DEF e
<1>5. e \in DinodeType /\ e.type = s.di[i].type /\ e.ents = s.di[i].ents
  BY <1>1 DEF DinodeType, e
<1> DEFINE y == [s.ic EXCEPT ![i] = c]
<1> HIDE DEF y
<1>7. y \in IcType /\ \A j \in Inode : y[j] = IF j = i THEN c ELSE s.ic[j]
  BY <1>1, <1>3, Entry DEF y
<1> DEFINE x == [s.di EXCEPT ![i] = e]
<1> HIDE DEF x
<1>9. x \in DiType /\ \A j \in Inode : x[j] = IF j = i THEN e ELSE s.di[j]
  BY <1>1, <1>5, SetDinode DEF x
<1> DEFINE u == [s EXCEPT !.ic = y, !.di = x]
<1> HIDE DEF u
<1>11. t = log_write(u)
  BY Zenon DEF iupdate, c, e, y, x, u
<1>12. /\ u \in FsType /\ u.ic = y /\ u.di = x /\ u.trans = s.trans
       /\ u.leaked = s.leaked /\ u.panic = s.panic
  BY <1>7, <1>9, Zenon DEF FsType, u
<1>13. t \in FsType /\ (t = u \/ t.panic)
  BY <1>11, <1>12, PanicFacts, Zenon DEF log_write
<1>14. ASSUME Good(s), NEW j \in Inode
       PROVE  /\ NetAt(s, u, j, 0, 0, 0, None)
              /\ u.di[j].type = s.di[j].type
  <2>1. GoodAt(s, j)
    BY <1>14, Zenon DEF Good
  <2>2. CacheAt(u, j) /\ SelfAt(u, j) /\ u.di[j].type = s.di[j].type
    BY <1>3, <1>5, <1>7, <1>9, <1>12, <2>1 DEF GoodAt, CacheAt, SelfAt
  <2> QED
    BY <1>3, <1>7, <1>12, <2>1, <2>2, IsFacts DEF NetAt, Move, GoodAt, Ex
<1> QED
  BY <1>12, <1>13, <1>14, Zenon DEF Net, Done, Mono

\* writei() writes an entry of a directory.
LEMMA EntryStep ==
  ASSUME NEW s \in FsType, NEW d \in Inode, NEW n \in Elem, NEW i \in 0..NInodes,
         NEW t, t = SetEntry(s, d, n, i)
  PROVE  /\ Mono(s, t)
         /\ Good(s) /\ i # d /\ ~t.panic =>
              /\ Done(s, t) /\ Net(s, t, 0, 0, 0, None)
              /\ \A j \in Inode : t.di[j].type = s.di[j].type
<1>1. /\ s.di \in DiType /\ s.di[d] \in DinodeType
      /\ s.di[d].ents \in [Name \cup {".."} -> 0..NInodes]
  BY Fields, DinodeFields, Zenon
<1> DEFINE f == [s.di[d].ents EXCEPT ![n] = i]
<1> HIDE DEF f
<1>3. f \in [Name \cup {".."} -> 0..NInodes] /\ \A m \in Name : f[m] \in {s.di[d].ents[m], i}
  BY <1>1, Zenon DEF f
<1> DEFINE e == [s.di[d] EXCEPT !.ents = f]
<1> HIDE DEF e
<1>5. e \in DinodeType /\ e.type = s.di[d].type /\ e.ents = f
  BY <1>1, <1>3, Zenon DEF DinodeType, e
<1> DEFINE x == [s.di EXCEPT ![d] = e]
<1> HIDE DEF x
<1>7. x \in DiType /\ \A j \in Inode : x[j] = IF j = d THEN e ELSE s.di[j]
  BY <1>1, <1>5, SetDinode DEF x
<1> DEFINE u == [s EXCEPT !.di = x]
<1> HIDE DEF u
<1>9. t = log_write(u)
  BY Zenon DEF SetEntry, f, e, x, u
<1>10. /\ u \in FsType /\ u.di = x /\ u.ic = s.ic /\ u.trans = s.trans
       /\ u.leaked = s.leaked /\ u.panic = s.panic
  BY <1>7, Zenon DEF FsType, u
<1>11. t \in FsType /\ (t = u \/ t.panic)
  BY <1>9, <1>10, PanicFacts, Zenon DEF log_write
<1>12. ASSUME Good(s), i # d, NEW j \in Inode
       PROVE  /\ NetAt(s, u, j, 0, 0, 0, None)
              /\ u.di[j].type = s.di[j].type
  <2>1. GoodAt(s, j)
    BY <1>12, Zenon DEF Good
  <2>2. SelfAt(u, j)
    BY <1>3, <1>5, <1>7, <1>10, <1>12, <2>1, Zenon DEF GoodAt, SelfAt
  <2>3. u.di[j].type = s.di[j].type
    BY <1>5, <1>7, <1>10, Zenon
  <2> QED
    BY <1>10, <2>1, <2>2, <2>3, IsFacts DEF NetAt, Move, GoodAt, Ex, CacheAt
<1> QED
  BY <1>10, <1>11, <1>12, Zenon DEF Net, Done, Mono

\* A reference is lost: it is still in the count, but nobody has it.
LEMMA LeakStep ==
  ASSUME NEW s \in FsType, NEW i \in Inode, NEW t, t = leak(s, i)
  PROVE  /\ Mono(s, t)
         /\ Good(s) /\ Ex(s, i) > 0 /\ ~t.panic =>
              Done(s, t) /\ Net(s, t, 0, i, 0, None) /\ i \in t.leaked /\ t.di = s.di
<1>1. \A j \in Inode : s.ic[j].ref \in Int
  BY Fields, CacheFields, Zenon
<1>2. /\ t \in FsType /\ t.di = s.di /\ t.panic = s.panic /\ t.trans = s.trans
      /\ t.leaked = s.leaked \cup {i}
      /\ \A j \in Inode :
           /\ t.ic[j].ref = IF j = i /\ i \in s.leaked THEN s.ic[j].ref - 1 ELSE s.ic[j].ref
           /\ CacheAt(s, j) => CacheAt(t, j)
           /\ t.ic[j].busy = s.ic[j].busy
  <2>1. CASE i \in s.leaked
    <3>1. WritesRef(s, t, i, s.ic[i].ref - 1)
      BY <2>1, Zenon DEF leak, WritesRef
    <3>2. s.leaked = s.leaked \cup {i}
      BY <2>1, Zenon
    <3> QED
      BY <1>1, <2>1, <3>1, <3>2, SetRef
  <2>2. CASE i \notin s.leaked
    <3>1. t = [s EXCEPT !.leaked = @ \cup {i}]
      BY <2>2, Zenon DEF leak
    <3>2. /\ t \in FsType /\ t.leaked = s.leaked \cup {i} /\ t.di = s.di /\ t.panic = s.panic
          /\ t.trans = s.trans /\ t.ic = s.ic
      BY <3>1 DEF FsType
    <3> QED
      BY <2>2, <3>2, Zenon DEF CacheAt
  <2> QED
    BY <2>1, <2>2, Zenon
<1>3. ASSUME Good(s), Ex(s, i) > 0, NEW j \in Inode
      PROVE  NetAt(s, t, j, 0, i, 0, None)
  <2>1. GoodAt(s, j)
    BY <1>3, Zenon DEF Good
  <2>2. t.ic[j].ref \in Nat /\ (s.ic[j].ref > 0 => t.ic[j].ref > 0)
    BY <1>1, <1>2, <1>3, <2>1 DEF GoodAt, Ex
  <2>3. SelfAt(t, j) /\ CacheAt(t, j)
    BY <1>2, <2>1, Zenon DEF GoodAt, SelfAt
  <2>4. Ex(t, j) = Ex(s, j) + (Is(0, j) - Is(i, j))
    BY <1>1, <1>2, IsFacts DEF Ex, Is
  <2> QED
    BY <1>2, <2>1, <2>2, <2>3, <2>4, IsFacts, Zenon DEF NetAt, Move, GoodAt
<1> QED
  BY <1>2, <1>3, Zenon DEF Net, Done, Mono

\* The pointers of a process: its cwd, its file and those of its system call.
Own(l, w, f, j) == Is(w, j) + Is(f, j) + Is(l.cur, j) + Is(l.ip, j) + Is(l.dp, j)

\* The pointers that p has to inode j.
OwnOf(p, j) == Own(pr[p], cwd[p], file[p], j)

\* A process has a number of pointers to an inode.
LEMMA OwnNat ==
  ASSUME NEW l, NEW w, NEW f, NEW j
  PROVE  Own(l, w, f, j) \in Nat
  BY IsFacts DEF Own

\* What p can rely on when its turn comes.
Safe(p) ==
  /\ TypeOK /\ ~fs.panic /\ Good(fs)
  /\ LocalsOK(pr[p], file[p]) /\ TypesOK(pr[p], fs.di)
  /\ fs.trans = p <=> InTrans(pr[p])
  /\ \A i \in Inode :
       /\ fs.ic[i].busy = p <=> Holds(pr[p], i)
       /\ Ex(fs, i) >= OwnOf(p, i) + Is(i, ROOTINO)
       /\ fs.ic[i].busy \in Proc \ {p} => Ex(fs, i) > OwnOf(p, i)
       /\ fs.di[i].type = "none" => fs.ic[i].busy \notin Proc

\* In the course of a step of p, which has k references to j and has locked the
\* inodes of H, the file system has become t.
MidAt(p, t, j, k, H) ==
  /\ Move(fs, t, j, k - OwnOf(p, j))
  /\ t.ic[j].busy = p <=> j \in H
  /\ \/ t.ic[j].busy = fs.ic[j].busy
     \/ fs.ic[j].busy \notin Proc \ {p} /\ t.ic[j].busy \notin Proc \ {p}

Mid(p, t, o, H, x) ==
  /\ t \in FsType /\ o \in [Inode -> Int]
  /\ x = fs.trans \/ (fs.trans = None /\ x = p)
  /\ ~t.panic => t.trans = x /\ \A j \in Inode : MidAt(p, t, j, o[j], H)

\* No inode has been freed since the step began.
Intact(t) == ~t.panic => \A j \in Inode : t.di[j].type = fs.di[j].type \/ fs.di[j].type = "none"

\* One reference to g more, one to d less.
Swap(o, g, d) == [j \in Inode |-> o[j] + Is(g, j) - Is(d, j)]

\* The references of p as the step begins.
Owns(p) == [j \in Inode |-> OwnOf(p, j)]

\* The inodes that p has locked.
Held(p) == { j \in Inode : Holds(pr[p], j) }

\* What p can rely on between two operations of its step: whatever it has a reference
\* to is in the cache, and iput() does not find the lock of another process.
LEMMA MidGood ==
  ASSUME NEW p \in Proc, Safe(p), NEW s, NEW o, NEW H, NEW x, Mid(p, s, o, H, x), ~s.panic
  PROVE  /\ Good(s) /\ s.trans = x
         /\ \A j \in Inode :
              /\ o[j] \in Int /\ Ex(s, j) \in Int
              /\ Ex(s, j) >= o[j] + Is(j, ROOTINO)
              /\ o[j] > 0 => s.ic[j].ref > 0 /\ Ex(s, j) > 0
              /\ o[j] > 0 /\ (j \in H => o[j] > 1) => s.ic[j].busy = None \/ s.ic[j].ref > 1
<1>1. s \in FsType /\ s.trans = x
  BY Zenon DEF Mid
<1>2. ASSUME NEW j \in Inode
      PROVE  /\ GoodAt(s, j) /\ o[j] \in Int /\ Ex(s, j) \in Int
             /\ Ex(s, j) >= o[j] + Is(j, ROOTINO)
             /\ o[j] > 0 => s.ic[j].ref > 0 /\ Ex(s, j) > 0
             /\ o[j] > 0 /\ (j \in H => o[j] > 1) => s.ic[j].busy = None \/ s.ic[j].ref > 1
  <2>1. MidAt(p, s, j, o[j], H) /\ o[j] \in Int
    BY Zenon DEF Mid
  <2>2. GoodAt(s, j) /\ Ex(s, j) = Ex(fs, j) + (o[j] - OwnOf(p, j))
    BY <2>1, Zenon DEF MidAt, Move
  <2>3. Good(fs) /\ Ex(fs, j) >= OwnOf(p, j) + Is(j, ROOTINO)
    BY Zenon DEF Safe
  <2>4. OwnOf(p, j) \in Nat /\ Ex(fs, j) \in Int /\ Is(j, ROOTINO) \in {0, 1}
    BY <2>3, OwnNat, ExInt, IsFacts, Zenon DEF OwnOf
  <2>5. Ex(s, j) \in Int /\ Ex(s, j) >= o[j] + Is(j, ROOTINO)
    BY <2>1, <2>2, <2>3, <2>4
  <2>6. ASSUME o[j] > 0
        PROVE  s.ic[j].ref > 0 /\ Ex(s, j) > 0
    BY <2>1, <2>2, <2>4, <2>5, <2>6 DEF Ex, GoodAt
  <2>7. ASSUME o[j] > 0, j \notin H
        PROVE  s.ic[j].busy = None \/ s.ic[j].ref > 1
    <3>1. s.ic[j].busy \in Proc \cup {None, Left}
      BY <1>1, Fields, CacheFields, Zenon
    <3>2. CASE s.ic[j].busy = Left
      BY <2>2, <2>6, <2>7, <3>2 DEF Ex, GoodAt, CacheAt
    <3>3. CASE s.ic[j].busy \in Proc
      <4>1. fs.ic[j].busy \in Proc \ {p}
        BY <2>1, <2>7, <3>3, Zenon DEF MidAt
      <4>2. Ex(fs, j) > OwnOf(p, j)
        BY <4>1, Zenon DEF Safe
      <4> QED
        BY <2>1, <2>2, <2>4, <2>7, <4>2 DEF Ex, GoodAt
    <3> QED
      BY <3>1, <3>2, <3>3, Zenon
  <2>8. ASSUME o[j] > 1
        PROVE  s.ic[j].ref > 1
    BY <2>1, <2>2, <2>4, <2>5, <2>8 DEF Ex, GoodAt
  <2> QED
    BY <2>1, <2>2, <2>5, <2>6, <2>7, <2>8, Zenon
<1> QED
  BY <1>1, <1>2, Zenon DEF Good

\* An operation of p, in the course of its step.
LEMMA MidNet ==
  ASSUME NEW p \in Proc, Safe(p), NEW s, NEW o, NEW H, NEW x, Mid(p, s, o, H, x),
         NEW t, NEW g, NEW d, NEW i, NEW b, NEW K, Mono(s, t),
         ~t.panic => Done(s, t) /\ Net(s, t, g, d, i, b),
         ~s.panic => g = 0 \/ Intact(s) \/ Ex(s, g) > 0,
         \/ i = 0 /\ K = H
         \/ /\ ~s.panic => s.ic[i].busy \notin Proc \ {p}
            /\ (b = p /\ K = H \cup {i}) \/ (b \in {None, Left} /\ K = H \ {i})
  PROVE  Mid(p, t, Swap(o, g, d), K, x)
<1>1. /\ t \in FsType /\ o \in [Inode -> Int] /\ (x = fs.trans \/ (fs.trans = None /\ x = p))
      /\ ~t.panic => ~s.panic
  BY Zenon DEF Mid, Mono
<1>2. Swap(o, g, d) \in [Inode -> Int]
  BY <1>1, IsFacts DEF Swap
<1>3. ASSUME ~t.panic, NEW j \in Inode
      PROVE  MidAt(p, t, j, Swap(o, g, d)[j], K)
  <2>1. MidAt(p, s, j, o[j], H) /\ NetAt(s, t, j, g, d, i, b) /\ o[j] \in Int
    BY <1>1, <1>3, Zenon DEF Mid, Net
  <2>2. /\ Ex(s, j) = Ex(fs, j) + (o[j] - OwnOf(p, j))
        /\ s.di[j].type = fs.di[j].type \/ Ex(s, j) <= 0 \/ fs.di[j].type = "none"
        /\ j \in fs.leaked => j \in s.leaked
        /\ s.ic[j].busy = p <=> j \in H
        /\ \/ s.ic[j].busy = fs.ic[j].busy
           \/ fs.ic[j].busy \notin Proc \ {p} /\ s.ic[j].busy \notin Proc \ {p}
    BY <2>1, Zenon DEF MidAt, Move
  <2>3. /\ GoodAt(t, j) /\ Ex(t, j) = Ex(s, j) + (Is(g, j) - Is(d, j))
        /\ t.di[j].type = s.di[j].type \/ Ex(t, j) <= 0 \/ s.di[j].type = "none"
        /\ j \in s.leaked => j \in t.leaked
        /\ t.ic[j].busy = IF j = i THEN b ELSE s.ic[j].busy
    BY <2>1, Zenon DEF NetAt, Move
  <2>4. OwnOf(p, j) \in Nat /\ Ex(fs, j) \in Int /\ Is(g, j) \in {0, 1} /\ Is(d, j) \in {0, 1}
    BY OwnNat, ExInt, IsFacts, Zenon DEF OwnOf, Safe
  <2>5. Swap(o, g, d)[j] = o[j] + Is(g, j) - Is(d, j)
    BY Zenon DEF Swap
  <2>6. t.di[j].type = fs.di[j].type \/ Ex(t, j) <= 0 \/ fs.di[j].type = "none"
    <3>1. CASE s.di[j].type = fs.di[j].type \/ fs.di[j].type = "none"
      BY <2>3, <3>1, Zenon
    <3>2. CASE s.di[j].type # fs.di[j].type /\ fs.di[j].type # "none"
      <4>1. Ex(s, j) <= 0 /\ g # j
        BY <1>1, <1>3, <2>1, <2>2, <2>4, <3>2, IsFacts DEF Intact
      <4>2. Is(g, j) = 0
        BY <4>1, Zenon DEF Is
      <4> QED
        BY <2>1, <2>2, <2>3, <2>4, <4>1, <4>2
    <3> QED
      BY <3>1, <3>2, Zenon
  <2>7. Move(fs, t, j, Swap(o, g, d)[j] - OwnOf(p, j))
    BY <2>1, <2>2, <2>3, <2>4, <2>5, <2>6 DEF Move
  <2>8. /\ t.ic[j].busy = p <=> j \in K
        /\ \/ t.ic[j].busy = fs.ic[j].busy
           \/ fs.ic[j].busy \notin Proc \ {p} /\ t.ic[j].busy \notin Proc \ {p}
    BY <1>1, <1>3, <2>2, <2>3, IsFacts, ProcAssumption, LeftAssumption, Zenon
  <2> QED
    BY <2>7, <2>8, Zenon DEF MidAt
<1>4. ~t.panic => t.trans = x
  BY <1>1, Zenon DEF Mid, Done
<1> QED
  BY <1>1, <1>2, <1>3, <1>4, Zenon DEF Mid

\* No reference more and none less.
LEMMA SwapNone ==
  ASSUME NEW o \in [Inode -> Int]
  PROVE  Swap(o, 0, 0) = o
<1>1. \A j \in Inode : o[j] + Is(0, j) - Is(0, j) = o[j]
  BY IsFacts
<1> QED
  BY <1>1, Zenon DEF Swap

\* Before the first operation of a step.
LEMMA MidSelf ==
  ASSUME NEW p \in Proc, Safe(p)
  PROVE  /\ Mid(p, fs, Owns(p), Held(p), fs.trans) /\ Intact(fs)
         /\ \A j \in Inode : Owns(p)[j] = OwnOf(p, j)
<1>1. fs \in FsType /\ Good(fs)
  BY Zenon DEF Safe, TypeOK
<1>2. Owns(p) \in [Inode -> Int] /\ \A j \in Inode : Owns(p)[j] = OwnOf(p, j)
  BY OwnNat DEF Owns, OwnOf
<1>3. ASSUME NEW j \in Inode
      PROVE  MidAt(p, fs, j, Owns(p)[j], Held(p))
  <2>1. Ex(fs, j) \in Int /\ GoodAt(fs, j) /\ OwnOf(p, j) \in Nat
    BY <1>1, ExInt, OwnNat, Zenon DEF Good, OwnOf
  <2>2. Move(fs, fs, j, Owns(p)[j] - OwnOf(p, j))
    BY <1>2, <2>1 DEF Move
  <2>3. fs.ic[j].busy = p <=> j \in Held(p)
    BY Zenon DEF Safe, Held
  <2> QED
    BY <2>2, <2>3, Zenon DEF MidAt
<1> QED
  BY <1>1, <1>2, <1>3, Zenon DEF Mid, Intact

\* ilock(), by a process that has a reference.
LEMMA MidLock ==
  ASSUME NEW p \in Proc, Safe(p), NEW s, NEW o, NEW H, NEW x, Mid(p, s, o, H, x),
         NEW i \in Inode, o[i] > 0, fs.ic[i].busy \notin Proc, NEW t, t = ilock(s, p, i)
  PROVE  /\ Mid(p, t, o, H \cup {i}, x) /\ t.di = s.di
         /\ ~t.panic => t.ic[i].type = s.di[i].type /\ s.di[i].type # "none"
         /\ Intact(s) => Intact(t)
<1>1. s \in FsType /\ Mono(s, t) /\ t.di = s.di
  BY LockStep DEF Mid
<1>2. ASSUME ~t.panic
      PROVE  /\ Done(s, t) /\ Net(s, t, 0, 0, i, p)
             /\ t.ic[i].type = s.di[i].type /\ s.di[i].type # "none"
  <2>1. Good(s) /\ s.ic[i].ref > 0
    BY <1>1, <1>2, MidGood, Zenon DEF Mono
  <2> QED
    BY <1>1, <1>2, <2>1, LockStep, Zenon
<1>3. ~s.panic => s.ic[i].busy \notin Proc \ {p}
  BY Zenon DEF Mid, MidAt
<1>4. Mid(p, t, Swap(o, 0, 0), H \cup {i}, x)
  BY <1>1, <1>2, <1>3, MidNet, Zenon
<1>5. Swap(o, 0, 0) = o
  BY SwapNone, Zenon DEF Mid
<1> QED
  BY <1>1, <1>2, <1>4, <1>5, Zenon DEF Mono, Intact

\* iget() and idup(), before any inode is freed, or of the root.
LEMMA MidGet ==
  ASSUME NEW p \in Proc, Safe(p), NEW s, NEW o, NEW H, NEW x, Mid(p, s, o, H, x),
         NEW i \in Inode, Intact(s) \/ (i = ROOTINO /\ o[i] >= 0),
         NEW t, t = iget(s, i) \/ t = idup(s, i)
  PROVE  Mid(p, t, Swap(o, i, 0), H, x) /\ (Intact(s) => Intact(t))
<1>1. s \in FsType /\ Mono(s, t)
  BY GetStep, Zenon DEF Mid
<1>2. ASSUME ~t.panic
      PROVE  Done(s, t) /\ Net(s, t, i, 0, 0, None) /\ t.di = s.di
  BY <1>1, <1>2, MidGood, GetStep DEF Mono
<1>3. ~s.panic => Intact(s) \/ Ex(s, i) > 0
  BY MidGood DEF Is
<1> QED
  BY <1>1, <1>2, <1>3, MidNet, Zenon DEF Mono, Intact

\* iunlock(), and a lock that is left behind with a reference.
LEMMA MidFree ==
  ASSUME NEW p \in Proc, Safe(p), NEW s, NEW o, NEW H, NEW x, Mid(p, s, o, H, x),
         NEW i \in Inode, i \in H, NEW b \in {None, Left}, NEW t, t = SetBusy(s, i, b),
         b = Left /\ ~s.panic => i \in s.leaked
  PROVE  /\ Mid(p, t, o, H \ {i}, x) /\ t.di = s.di /\ (Intact(s) => Intact(t))
         /\ ~t.panic => ~s.panic
<1>1. s \in FsType /\ Mono(s, t) /\ t.di = s.di
  BY UnlockStep, Zenon DEF Mid
<1>2. ~s.panic => s.ic[i].busy = p
  BY Zenon DEF Mid, MidAt
<1>3. ASSUME ~t.panic
      PROVE  Done(s, t) /\ Net(s, t, 0, 0, i, b)
  <2>1. Good(s) /\ ~s.panic
    BY <1>1, <1>3, MidGood, Zenon DEF Mono
  <2>2. s.ic[i].ref > 0
    BY <1>2, <2>1, ProcAssumption, Zenon DEF Good, GoodAt
  <2> QED
    BY <1>1, <1>3, <2>1, <2>2, UnlockStep, Zenon
<1>4. Mid(p, t, Swap(o, 0, 0), H \ {i}, x)
  BY <1>1, <1>2, <1>3, MidNet, Zenon
<1>5. Swap(o, 0, 0) = o
  BY SwapNone, Zenon DEF Mid
<1> QED
  BY <1>1, <1>4, <1>5, Zenon DEF Mono, Intact

\* iput(), by a process that has a reference and not the lock.
LEMMA MidPut ==
  ASSUME NEW p \in Proc, Safe(p), NEW s, NEW o, NEW H, NEW x, Mid(p, s, o, H, x),
         NEW i \in Inode, i \in H => o[i] > 1, o[i] > 0, NEW t, t = iput(s, i)
  PROVE  /\ Mid(p, t, Swap(o, 0, i), H, x)
         /\ ~t.panic => ~s.panic /\ \A j \in Inode : j # i => t.di[j] = s.di[j]
<1>1. s \in FsType /\ Mono(s, t)
  BY PutStep, Zenon DEF Mid
<1>2. ASSUME ~t.panic
      PROVE  /\ Done(s, t) /\ Net(s, t, 0, i, 0, None)
             /\ \A j \in Inode : j # i => t.di[j] = s.di[j]
  <2>1. Good(s) /\ s.ic[i].ref > 0 /\ (s.ic[i].busy = None \/ s.ic[i].ref > 1)
    BY <1>1, <1>2, MidGood, Zenon DEF Mono
  <2> QED
    BY <1>1, <1>2, <2>1, PutStep
<1> QED
  BY <1>1, <1>2, MidNet, Zenon DEF Mono

\* iunlockput().
LEMMA MidUnlockPut ==
  ASSUME NEW p \in Proc, Safe(p), NEW s, NEW o, NEW H, NEW x, Mid(p, s, o, H, x),
         NEW i \in Inode, i \in H, o[i] > 0, NEW t, t = iunlockput(s, i)
  PROVE  /\ Mid(p, t, Swap(o, 0, i), H \ {i}, x)
         /\ ~t.panic => ~s.panic /\ \A j \in Inode : j # i => t.di[j] = s.di[j]
<1> DEFINE u == SetBusy(s, i, None)
<1> HIDE DEF u
<1>2. Mid(p, u, o, H \ {i}, x) /\ u.di = s.di /\ (~u.panic => ~s.panic)
  BY MidFree, LeftAssumption DEF u
<1>3. t = iput(u, i)
  BY Zenon DEF iunlockput, iunlock, SetBusy, u
<1> QED
  BY <1>2, <1>3, MidPut

\* iunlock().
LEMMA MidUnlock ==
  ASSUME NEW p \in Proc, Safe(p), NEW s, NEW o, NEW H, NEW x, Mid(p, s, o, H, x),
         NEW i \in Inode, i \in H, NEW t, t = iunlock(s, i)
  PROVE  /\ Mid(p, t, o, H \ {i}, x) /\ (Intact(s) => Intact(t))
         /\ ~t.panic => ~s.panic
<1>1. t = SetBusy(s, i, None)
  BY Zenon DEF iunlock, SetBusy
<1> QED
  BY <1>1, MidFree, LeftAssumption

\* A reference is lost.
LEMMA MidLeak ==
  ASSUME NEW p \in Proc, Safe(p), NEW s, NEW o, NEW H, NEW x, Mid(p, s, o, H, x),
         NEW i \in Inode, o[i] > 0, NEW t, t = leak(s, i)
  PROVE  /\ Mid(p, t, Swap(o, 0, i), H, x) /\ (Intact(s) => Intact(t))
         /\ ~t.panic => i \in t.leaked
<1>1. s \in FsType /\ Mono(s, t)
  BY LeakStep, Zenon DEF Mid
<1>2. ASSUME ~t.panic
      PROVE  Done(s, t) /\ Net(s, t, 0, i, 0, None) /\ i \in t.leaked /\ t.di = s.di
  <2>1. Good(s) /\ Ex(s, i) > 0
    BY <1>1, <1>2, MidGood, Zenon DEF Mono
  <2> QED
    BY <1>1, <1>2, <2>1, LeakStep, Zenon
<1> QED
  BY <1>1, <1>2, MidNet, Zenon DEF Mono, Intact

\* filereadlink() and filesymlink(): the inode is unlocked, and never put ...
LEMMA MidUnlockLeak ==
  ASSUME NEW p \in Proc, Safe(p), NEW s, NEW o, NEW H, NEW x, Mid(p, s, o, H, x),
         NEW i \in Inode, i \in H, o[i] > 0, NEW t, t = leak(iunlock(s, i), i)
  PROVE  Mid(p, t, Swap(o, 0, i), H \ {i}, x) /\ (Intact(s) => Intact(t))
<1> DEFINE u == iunlock(s, i)
<1> HIDE DEF u
<1>2. Mid(p, u, o, H \ {i}, x) /\ (Intact(s) => Intact(u)) /\ t = leak(u, i)
  BY MidUnlock, Zenon DEF u
<1> QED
  BY <1>2, MidLeak, Zenon

\* ... or not even unlocked.
LEMMA MidLeft ==
  ASSUME NEW p \in Proc, Safe(p), NEW s, NEW o, NEW H, NEW x, Mid(p, s, o, H, x),
         NEW i \in Inode, i \in H, o[i] > 0, NEW t, t = [leak(s, i) EXCEPT !.ic[i].busy = Left]
  PROVE  Mid(p, t, Swap(o, 0, i), H \ {i}, x)
<1> DEFINE u == leak(s, i)
<1> HIDE DEF u
<1>2. t = SetBusy(u, i, Left)
  BY Zenon DEF SetBusy, u
<1>3. Mid(p, u, Swap(o, 0, i), H, x) /\ (~u.panic => i \in u.leaked)
  BY MidLeak, Zenon DEF u
<1> QED
  BY <1>2, <1>3, MidFree, Zenon

\* A link count or an entry of a directory is written.
LEMMA MidWrite ==
  ASSUME NEW p \in Proc, Safe(p), NEW s, NEW o, NEW H, NEW x, Mid(p, s, o, H, x),
         NEW i \in Inode, NEW t,
         \/ \E d \in {1, -1} : t = iupdate(s, i, d)
         \/ \E n \in Elem, k \in 0..NInodes : k # i /\ t = SetEntry(s, i, n, k)
  PROVE  Mid(p, t, o, H, x) /\ (Intact(s) => Intact(t))
<1>1. s \in FsType
  BY Zenon DEF Mid
<1>2. /\ Mono(s, t)
      /\ Good(s) /\ ~t.panic =>
           Done(s, t) /\ Net(s, t, 0, 0, 0, None) /\ \A j \in Inode : t.di[j].type = s.di[j].type
  <2>1. CASE \E d \in {1, -1} : t = iupdate(s, i, d)
    <3>1. PICK d \in Int : t = iupdate(s, i, d)
      BY <2>1
    <3> QED
      BY <1>1, <3>1, UpdateStep
  <2>2. CASE \E n \in Elem, k \in 0..NInodes : k # i /\ t = SetEntry(s, i, n, k)
    BY <1>1, <2>2, EntryStep
  <2> QED
    BY <2>1, <2>2, Zenon
<1>3. ~t.panic => ~s.panic /\ Good(s)
  BY <1>2, MidGood, Zenon DEF Mono
<1>4. Mid(p, t, Swap(o, 0, 0), H, x)
  BY <1>2, <1>3, MidNet, Zenon
<1>5. Swap(o, 0, 0) = o
  BY SwapNone, Zenon DEF Mid
<1> QED
  BY <1>2, <1>3, <1>4, <1>5, Zenon DEF Intact

\* A free inode is allocated.
LEMMA MidNew ==
  ASSUME NEW p \in Proc, Safe(p), NEW s, NEW o, NEW H, NEW x, Mid(p, s, o, H, x), Intact(s),
         NEW i \in Inode, s.di[i].type = "none", fs.di[i].type = "none",
         NEW e \in DinodeType, \A n \in Name : e.ents[n] # i,
         NEW t, t = [s EXCEPT !.di[i] = e]
  PROVE  Mid(p, t, o, H, x) /\ Intact(t)
<1> DEFINE y == [s.di EXCEPT ![i] = e]
<1> HIDE DEF y
<1>2. t = [s EXCEPT !.di = y]
  BY Zenon DEF y
<1>3. y \in DiType /\ \A j \in Inode : y[j] = IF j = i THEN e ELSE s.di[j]
  BY Fields, SetDinode DEF Mid, y
<1>4. /\ t \in FsType /\ t.di = y /\ t.ic = s.ic /\ t.trans = s.trans
      /\ t.leaked = s.leaked /\ t.panic = s.panic
  BY <1>2, <1>3, Zenon DEF FsType, Mid
<1>5. ASSUME ~s.panic, NEW j \in Inode
      PROVE  NetAt(s, t, j, 0, 0, 0, None)
  <2>1. GoodAt(s, j) /\ Ex(s, j) \in Int
    BY <1>5, MidGood, Zenon DEF Good
  <2>2. SelfAt(t, j)
    BY <1>3, <1>4, <2>1, Zenon DEF GoodAt, SelfAt
  <2>3. t.di[j].type = s.di[j].type \/ s.di[j].type = "none"
    BY <1>3, <1>4, Zenon
  <2> QED
    BY <1>4, <2>1, <2>2, <2>3, IsFacts DEF NetAt, Move, GoodAt, Ex, CacheAt
<1>6. Mid(p, t, Swap(o, 0, 0), H, x)
  BY <1>4, <1>5, MidNet, Zenon DEF Mono, Net, Done
<1>7. Swap(o, 0, 0) = o
  BY SwapNone, Zenon DEF Mid
<1>8. Intact(t)
  BY <1>3, <1>4 DEF Intact
<1> QED
  BY <1>6, <1>7, <1>8, Zenon

\* In a step of p, fs becomes S; the process goes on with locals m, cwd w and file f.
Effect(p, S, m, w, f) ==
  /\ S \in FsType
  /\ \A j \in Inode :
       /\ Move(fs, S, j, Own(m, w, f, j) - OwnOf(p, j))
       /\ S.ic[j].busy = p <=> Holds(m, j)
       /\ \/ S.ic[j].busy = fs.ic[j].busy
          \/ fs.ic[j].busy \notin Proc \ {p} /\ S.ic[j].busy \notin Proc \ {p}
  /\ S.trans = p <=> InTrans(m)
  /\ S.trans = fs.trans \/ (fs.trans \in {None, p} /\ S.trans \in {None, p})
  /\ TypesOK(m, fs.di) \/ TypesOK(m, S.di)
  /\ LocalsOK(m, f)

\* A turn of p: fs becomes S, unless the kernel stops.
Turn(p) ==
  \E S : \E m \in LocalType, w \in Inode, f \in 0..NInodes :
    /\ Step(p, S, m)
    /\ cwd' = [cwd EXCEPT ![p] = w] /\ file' = [file EXCEPT ![p] = f]
    /\ home' = home \/ (~S.panic /\ home' = S.di)
    /\ ~S.panic => Effect(p, S, m, w, f)

\* The references and locks that p has are those of its locals m, its cwd w and file f.
Fits(o, H, m, w, f) == \A j \in Inode : o[j] = Own(m, w, f, j) /\ (j \in H <=> Holds(m, j))

\* The end of a step, with a commit_trans() or without.
LEMMA TurnEnd ==
  ASSUME NEW p \in Proc, Safe(p), NEW t, NEW o, NEW H, NEW x, Mid(p, t, o, H, x),
         NEW S, NEW m \in LocalType, NEW w \in Inode, NEW f \in 0..NInodes, Step(p, S, m),
         cwd' = [cwd EXCEPT ![p] = w], file' = [file EXCEPT ![p] = f],
         \/ S = t /\ home' = home /\ (x = p <=> InTrans(m))
         \/ /\ S = commit_trans(t) /\ home' = (IF t.panic THEN home ELSE t.di)
            /\ x = p /\ ~InTrans(m),
         Fits(o, H, m, w, f), LocalsOK(m, f),
         ~t.panic => TypesOK(m, fs.di) \/ TypesOK(m, t.di)
  PROVE  Turn(p)
<1>1. /\ t.panic => S.panic
      /\ ~t.panic => /\ S \in FsType /\ S.ic = t.ic /\ S.di = t.di /\ S.leaked = t.leaked
                     /\ S.panic = t.panic
                     /\ \/ S.trans = t.trans /\ (x = p <=> InTrans(m))
                        \/ S.trans = None /\ x = p /\ ~InTrans(m)
  <2>1. CASE S = t /\ (x = p <=> InTrans(m))
    BY <2>1, Zenon DEF Mid
  <2>2. CASE S = commit_trans(t) /\ x = p /\ ~InTrans(m)
    <3>1. S = IF t.panic THEN t ELSE [t EXCEPT !.trans = None]
      BY <2>2, Zenon DEF commit_trans
    <3> QED
      BY <2>2, <3>1, TransFacts DEF Mid
  <2> QED
    BY <2>1, <2>2, Zenon
<1>2. ASSUME ~S.panic
      PROVE  Effect(p, S, m, w, f)
  <2>1. /\ ~t.panic /\ S \in FsType /\ S.ic = t.ic /\ S.di = t.di /\ S.leaked = t.leaked
        /\ \/ S.trans = t.trans /\ (x = p <=> InTrans(m))
           \/ S.trans = None /\ x = p /\ ~InTrans(m)
    BY <1>1, <1>2, Zenon
  <2>2. ASSUME NEW j \in Inode
        PROVE  /\ Move(fs, S, j, Own(m, w, f, j) - OwnOf(p, j))
               /\ S.ic[j].busy = p <=> Holds(m, j)
               /\ \/ S.ic[j].busy = fs.ic[j].busy
                  \/ fs.ic[j].busy \notin Proc \ {p} /\ S.ic[j].busy \notin Proc \ {p}
    <3>1. MidAt(p, t, j, o[j], H) /\ o[j] = Own(m, w, f, j) /\ (j \in H <=> Holds(m, j))
      BY <2>1, Zenon DEF Mid, Fits
    <3>2. Move(fs, S, j, Own(m, w, f, j) - OwnOf(p, j))
      BY <2>1, <3>1, Zenon DEF MidAt, Move, Ex, GoodAt, CacheAt, SelfAt
    <3> QED
      BY <2>1, <3>1, <3>2, Zenon DEF MidAt
  <2>3. t.trans = x /\ (x = fs.trans \/ (fs.trans = None /\ x = p))
    BY <2>1, Zenon DEF Mid
  <2>4. /\ S.trans = p <=> InTrans(m)
        /\ S.trans = fs.trans \/ (fs.trans \in {None, p} /\ S.trans \in {None, p})
    BY <2>1, <2>3, ProcAssumption, Zenon
  <2> QED
    BY <2>1, <2>2, <2>4, Zenon DEF Effect
<1>3. home' = home \/ (~S.panic /\ home' = S.di)
  BY <1>1, Zenon
<1> QED
  BY <1>2, <1>3, Zenon DEF Turn

\* The end of a step without a commit_trans(), when cwd or the file may have changed ...
LEMMA StayOK ==
  ASSUME NEW p \in Proc, Safe(p), NEW t, NEW o, NEW H, NEW x, Mid(p, t, o, H, x),
         NEW m \in LocalType, NEW w \in Inode, NEW f \in 0..NInodes, Step(p, t, m),
         cwd' = [cwd EXCEPT ![p] = w], file' = [file EXCEPT ![p] = f], home' = home,
         x = p <=> InTrans(m), Fits(o, H, m, w, f), LocalsOK(m, f),
         ~t.panic => TypesOK(m, fs.di) \/ TypesOK(m, t.di)
  PROVE  Turn(p)
  BY TurnEnd, Zenon

\* ... when neither has ...
LEMMA GotoOK ==
  ASSUME NEW p \in Proc, Safe(p), NEW t, NEW o, NEW H, NEW x, Mid(p, t, o, H, x),
         NEW m \in LocalType, Goto(p, t, m), x = p <=> InTrans(m),
         Fits(o, H, m, cwd[p], file[p]), LocalsOK(m, file[p]),
         ~t.panic => TypesOK(m, fs.di) \/ TypesOK(m, t.di)
  PROVE  Turn(p)
<1>1. /\ Step(p, t, m) /\ home' = home /\ cwd[p] \in Inode /\ file[p] \in 0..NInodes
      /\ cwd' = [cwd EXCEPT ![p] = cwd[p]] /\ file' = [file EXCEPT ![p] = file[p]]
  BY Zenon DEF Goto, Safe, TypeOK
<1> QED
  BY <1>1, StayOK, Zenon

\* ... and the end of a step with a commit_trans().
LEMMA CommitOK ==
  ASSUME NEW p \in Proc, Safe(p), NEW t, NEW o, NEW H, Mid(p, t, o, H, p),
         NEW m \in LocalType, Commit(p, t, m), ~InTrans(m),
         Fits(o, H, m, cwd[p], file[p]), LocalsOK(m, file[p]),
         ~t.panic => TypesOK(m, fs.di) \/ TypesOK(m, t.di)
  PROVE  Turn(p)
<1>1. /\ Step(p, commit_trans(t), m) /\ home' = (IF t.panic THEN home ELSE t.di)
      /\ cwd[p] \in Inode /\ file[p] \in 0..NInodes
      /\ cwd' = [cwd EXCEPT ![p] = cwd[p]] /\ file' = [file EXCEPT ![p] = file[p]]
  BY Zenon DEF Commit, Safe, TypeOK
<1> QED
  BY <1>1, TurnEnd, Zenon

\* Paths are sequences of names.
LEMMA PathFacts ==
  /\ <<>> \in Path /\ <<"/">> \in Path
  /\ \A x \in Path : Elems(x) \in Path
  /\ \A x \in Path : x # <<>> => Head(x) \in Elem /\ Tail(x) \in Path
  /\ \A x, y \in Path : x \o y \in Path
  /\ \A x \in Path, e \in Elem : Append(x, e) \in Path
<1>1. "/" \in Elem
  BY Zenon DEF Elem
<1>2. <<>> \in Path /\ <<"/">> \in Path
  BY <1>1 DEF Path
<1>3. \A x \in Path : x # <<>> => Head(x) \in Elem /\ Tail(x) \in Path
  BY DEF Path
<1>4. \A x, y \in Path : x \o y \in Path
  BY DEF Path
<1>5. \A x \in Path, e \in Elem : Append(x, e) \in Path
  BY DEF Path
<1>6. \A x \in Path : Elems(x) \in Path
  BY <1>3, Zenon DEF Elems, Absolute
<1> QED
  BY <1>2, <1>3, <1>4, <1>5, <1>6, Zenon

\* A process in user space has no pointer, no lock and no transaction.
LEMMA IdleFacts ==
  /\ Idle \in LocalType /\ Idle.cur = 0 /\ Idle.ip = 0 /\ Idle.dp = 0
  /\ ~InTrans(Idle) /\ \A i : ~Holds(Idle, i)
  /\ \A di : TypesOK(Idle, di)
  /\ \A f : LocalsOK(Idle, f)
<1>1. Idle \in LocalType
  <2>1. 0 \in 0..NInodes /\ 0 \in Int
    BY NInodesAssumption
  <2>2. "user" \in Pcs /\ "none" \in Ops \cup {"none"} /\ "" \in Elem
    BY Zenon DEF Pcs, Elem
  <2>3. <<>> \in Path
    BY PathFacts, Zenon
  <2> QED
    BY <2>1, <2>2, <2>3, Zenon DEF Idle, LocalType
<1>2. Idle.pc = "user" /\ Idle.cur = 0 /\ Idle.ip = 0 /\ Idle.dp = 0 /\ Idle.op = "none"
  BY Zenon DEF Idle
<1> QED
  BY <1>1, <1>2, Zenon DEF InTrans, Holds, TypesOK, LocalsOK

\* A call that returns has given up its pointers and its locks.
Clear(p, o, H) == \A j \in Inode : o[j] = Is(cwd[p], j) + Is(file[p], j) /\ j \notin H

\* So it has only its cwd and its file.
LEMMA ClearFits ==
  ASSUME NEW p, NEW o, NEW H, Clear(p, o, H)
  PROVE  Fits(o, H, Idle, cwd[p], file[p])
  BY IdleFacts, IsFacts DEF Clear, Fits, Own

\* A system call returns ...
LEMMA ReturnOK ==
  ASSUME NEW p \in Proc, Safe(p), NEW t, NEW o, NEW H, NEW x, Mid(p, t, o, H, x),
         Return(p, t), x # p, Clear(p, o, H)
  PROVE  Turn(p)
<1>1. Goto(p, t, Idle)
  BY Zenon DEF Return, Goto
<1> QED
  BY <1>1, GotoOK, ClearFits, IdleFacts, Zenon

\* ... or ends its transaction and returns.
LEMMA CommitReturnOK ==
  ASSUME NEW p \in Proc, Safe(p), NEW t, NEW o, NEW H, Mid(p, t, o, H, p),
         Commit(p, t, Idle), Clear(p, o, H)
  PROVE  Turn(p)
  BY CommitOK, ClearFits, IdleFacts, Zenon

\* A step that only stops the kernel.
LEMMA PanicOK ==
  ASSUME NEW p \in Proc, Safe(p), NEW s \in FsType, Return(p, Panic(s))
  PROVE  Turn(p)
<1> DEFINE t == Panic(s)
<1> HIDE DEF t
<1>2. t.panic
  BY PanicFacts, Zenon DEF t
<1>3. /\ Step(p, t, Idle) /\ home' = home /\ cwd[p] \in Inode /\ file[p] \in 0..NInodes
      /\ cwd' = [cwd EXCEPT ![p] = cwd[p]] /\ file' = [file EXCEPT ![p] = file[p]]
  BY Zenon DEF Return, Safe, TypeOK, t
<1> QED
  BY <1>2, <1>3, IdleFacts, Zenon DEF Turn

\* What is known of the process whose turn it is.
LEMMA Here ==
  ASSUME NEW p \in Proc, Safe(p)
  PROVE  /\ pr[p] \in LocalType /\ cwd[p] \in Inode /\ file[p] \in 0..NInodes
         /\ pr[p].cur \in 0..NInodes /\ pr[p].ip \in 0..NInodes /\ pr[p].dp \in 0..NInodes
         /\ LocalsOK(pr[p], file[p]) /\ TypesOK(pr[p], fs.di)
         /\ fs.trans = p <=> InTrans(pr[p])
         /\ \A i \in Inode : fs.ic[i].busy = p <=> Holds(pr[p], i)
         /\ fs \in FsType
<1>1. pr[p] \in LocalType /\ cwd[p] \in Inode /\ file[p] \in 0..NInodes /\ fs \in FsType
  BY Zenon DEF Safe, TypeOK
<1>2. /\ LocalsOK(pr[p], file[p]) /\ TypesOK(pr[p], fs.di)
      /\ fs.trans = p <=> InTrans(pr[p])
      /\ \A i \in Inode : fs.ic[i].busy = p <=> Holds(pr[p], i)
  BY Zenon DEF Safe
<1> QED
  BY <1>1, <1>2, Zenon DEF LocalType

\* A process has a pointer to i ...
Has(p, i) == i # 0 /\ i \in {pr[p].cur, pr[p].ip, pr[p].dp, cwd[p], file[p]}

\* ... and so may lock it, or put it.
LEMMA HasFacts ==
  ASSUME NEW p \in Proc, Safe(p), NEW i, Has(p, i)
  PROVE  i \in Inode /\ Owns(p)[i] > 0 /\ Owns(p)[i] \in Int
<1>1. i \in Inode
  BY Here, NInodesAssumption DEF Has, Inode
<1>2. OwnOf(p, i) > 0
  <2>1. \/ Is(pr[p].cur, i) = 1 \/ Is(pr[p].ip, i) = 1 \/ Is(pr[p].dp, i) = 1
        \/ Is(cwd[p], i) = 1 \/ Is(file[p], i) = 1
    BY Zenon DEF Has, Is
  <2> QED
    BY <2>1, IsFacts DEF OwnOf, Own
<1> QED
  BY <1>1, <1>2, OwnNat DEF Owns, OwnOf

\* The first ilock() of a step.
LEMMA LockFirst ==
  ASSUME NEW p \in Proc, Safe(p), NEW i, Has(p, i), CanLock(i), NEW s, s = ilock(fs, p, i)
  PROVE  /\ Mid(p, s, Owns(p), Held(p) \cup {i}, fs.trans) /\ Intact(s) /\ s.di = fs.di
         /\ ~s.panic => s.ic[i].type = fs.di[i].type /\ fs.di[i].type # "none"
         /\ i \in Inode /\ i \notin Held(p)
<1>1. i \in Inode /\ Owns(p)[i] > 0
  BY HasFacts, Zenon
<1>2. i \notin Held(p) /\ fs.ic[i].busy \notin Proc
  BY <1>1, ProcAssumption, Zenon DEF Safe, Held, CanLock
<1> QED
  BY <1>1, <1>2, MidSelf, MidLock

\* begin_trans().
LEMMA MidBegun ==
  ASSUME NEW p \in Proc, Safe(p), begin_trans(p)
  PROVE  Mid(p, Begun(p), Owns(p), Held(p), p) /\ Intact(Begun(p))
<1> DEFINE t == Begun(p)
<1> HIDE DEF t
<1>2. Mid(p, fs, Owns(p), Held(p), fs.trans) /\ ~fs.panic
  BY MidSelf, Zenon DEF Safe
<1>3. /\ t \in FsType /\ t.ic = fs.ic /\ t.di = fs.di /\ t.leaked = fs.leaked
      /\ t.panic = fs.panic /\ t.trans = p
  BY <1>2, TransFacts, Zenon DEF Begun, Mid, t
<1>4. ASSUME NEW j \in Inode
      PROVE  MidAt(p, t, j, Owns(p)[j], Held(p))
  <2>1. MidAt(p, fs, j, Owns(p)[j], Held(p))
    BY <1>2, Zenon DEF Mid
  <2> QED
    BY <1>3, <2>1, Zenon DEF MidAt, Move, Ex, GoodAt, CacheAt, SelfAt
<1>5. Mid(p, t, Owns(p), Held(p), p) /\ Intact(t)
  BY <1>2, <1>3, <1>4, Zenon DEF Mid, Intact, begin_trans
<1> QED
  BY <1>5, Zenon DEF t

\* dirlookup() finds an inode, or 0.
LEMMA LookupType ==
  ASSUME NEW s \in FsType, NEW d \in Inode, NEW n
  PROVE  dirlookup(s, d, n) \in 0..NInodes
<1>1. s.di[d].ents \in [Name \cup {".."} -> 0..NInodes]
  BY Fields, DinodeFields, Zenon
<1> QED
  BY <1>1, NInodesAssumption DEF dirlookup

\* The locals of a process that has opened i and not yet made a file of it.
Opening(i) == [Idle EXCEPT !.pc = "filealloc", !.ip = i]

\* It has one pointer, to i.
LEMMA OpenLocals ==
  ASSUME NEW i \in Inode, NEW m, m = Opening(i)
  PROVE  m \in LocalType /\ m.pc = "filealloc" /\ m.op = "none" /\ m.cur = 0 /\ m.ip = i /\ m.dp = 0
<1>1. "filealloc" \in Pcs /\ i \in 0..NInodes
  BY NInodesAssumption DEF Pcs, Inode
<1>2. Idle \in LocalType
  BY IdleFacts, Zenon
<1>3. m \in LocalType
  BY <1>1, <1>2, Zenon DEF LocalType, Opening
<1> QED
  BY <1>3, Zenon DEF Idle, Opening

\* A process has opened i, and goes on to allocate a file.
LEMMA OpenOK ==
  ASSUME NEW p \in Proc, Safe(p), NEW t, NEW o, NEW H, NEW x, Mid(p, t, o, H, x),
         NEW i \in Inode, file[p] = 0,
         \A j \in Inode : o[j] = Is(cwd[p], j) + Is(i, j) /\ (j \in H <=> j = i),
         ~t.panic => fs.di[i].type # "none" \/ t.di[i].type # "none",
         \/ x # p /\ Goto(p, t, Opening(i))
         \/ x = p /\ Commit(p, t, Opening(i))
  PROVE  Turn(p)
<1>1. PICK m \in LocalType : /\ m = Opening(i) /\ m.pc = "filealloc" /\ m.op = "none"
                             /\ m.cur = 0 /\ m.ip = i /\ m.dp = 0
  BY OpenLocals
<1>2. Fits(o, H, m, cwd[p], file[p])
  BY <1>1, IsFacts DEF Fits, Own, Holds
<1>3. LocalsOK(m, file[p]) /\ ~InTrans(m)
  BY <1>1, IsFacts, Zenon DEF LocalsOK, InTrans
<1>4. ~t.panic => TypesOK(m, fs.di) \/ TypesOK(m, t.di)
  BY <1>1, Zenon DEF TypesOK
<1>5. (x # p /\ Goto(p, t, m)) \/ (x = p /\ Commit(p, t, m))
  BY <1>1, Zenon
<1> QED
  BY <1>2, <1>3, <1>4, <1>5, GotoOK, CommitOK, Zenon

\* sys_open(), sys_chdir() and exec(), once namei() has returned.
LEMMA OpenedStep ==
  ASSUME NEW p \in Proc, Safe(p), opened(p)
  PROVE  Turn(p)
<1> DEFINE i == pr[p].cur
           s == ilock(fs, p, i)
           o == Owns(p)
           H == Held(p)
<1>1. /\ pr[p].pc = "opened" /\ pr[p].ip = 0 /\ pr[p].dp = 0 /\ fs.trans # p
      /\ \A j \in Inode : j \notin H /\ o[j] = Is(cwd[p], j) + Is(file[p], j) + Is(i, j)
  <2>1. /\ pr[p].pc = "opened" /\ pr[p].ip = 0 /\ pr[p].dp = 0
        /\ ~InTrans(pr[p]) /\ \A j : ~Holds(pr[p], j)
    BY Here, Zenon DEF opened, At, LocalsOK, InTrans, Holds
  <2> QED
    BY <2>1, Here, IsFacts DEF Owns, OwnOf, Own, Held
<1>2. CASE i = 0 /\ Return(p, fs)
  BY <1>1, <1>2, IsFacts, MidSelf, ReturnOK DEF Clear
<1>3. ASSUME i # 0, CanLock(i)
      PROVE  /\ Mid(p, s, o, H \cup {i}, fs.trans) /\ i \in Inode /\ o[i] > 0 /\ Has(p, i)
             /\ ~s.panic => fs.di[i].type # "none"
  <2>1. Has(p, i)
    BY <1>3, Zenon DEF Has
  <2> QED
    BY <1>3, <2>1, HasFacts, LockFirst, Zenon
<1>4. CASE i # 0 /\ CanLock(i) /\ Return(p, iunlockput(s, i))
  <2>1. Mid(p, iunlockput(s, i), Swap(o, 0, i), (H \cup {i}) \ {i}, fs.trans)
    BY <1>3, <1>4, MidUnlockPut, Zenon
  <2>2. Clear(p, Swap(o, 0, i), (H \cup {i}) \ {i})
    BY <1>1, IsFacts DEF Clear, Swap
  <2> QED
    BY <1>1, <1>4, <2>1, <2>2, ReturnOK, Zenon
<1>5. CASE /\ i # 0 /\ CanLock(i)
           /\ Step(p, iput(iunlock(s, i), cwd[p]), Idle)
           /\ cwd' = [cwd EXCEPT ![p] = i] /\ UNCHANGED <<home, file>>
  <2>1. Has(p, cwd[p])
    BY Here, IsFacts, Zenon DEF Has
  <2>2. cwd[p] \in Inode /\ o[cwd[p]] > 0
    BY <2>1, HasFacts, Zenon
  <2>3. Mid(p, iunlock(s, i), o, (H \cup {i}) \ {i}, fs.trans)
    BY <1>3, <1>5, MidUnlock, Zenon
  <2>4. Mid(p, iput(iunlock(s, i), cwd[p]), Swap(o, 0, cwd[p]), (H \cup {i}) \ {i}, fs.trans)
    BY <1>1, <2>2, <2>3, MidPut
  <2>5. Fits(Swap(o, 0, cwd[p]), (H \cup {i}) \ {i}, Idle, i, file[p])
    BY <1>1, IsFacts, IdleFacts DEF Fits, Swap, Own
  <2>6. file[p] \in 0..NInodes /\ file' = [file EXCEPT ![p] = file[p]]
    BY <1>5, Zenon DEF Safe, TypeOK
  <2>7. i \in Inode /\ home' = home /\ fs.trans # p
    BY <1>1, <1>3, <1>5, Zenon
  <2> QED
    BY <1>5, <2>4, <2>5, <2>6, <2>7, IdleFacts, StayOK, Zenon
<1>6. CASE /\ i # 0 /\ CanLock(i) /\ pr[p].op \in {"openrd", "openi", "openwr"}
           /\ Goto(p, s, [Idle EXCEPT !.pc = "filealloc", !.ip = i])
  <2>1. file[p] = 0
    BY <1>1, <1>6, Here, Zenon DEF LocalsOK
  <2>2. \A j \in Inode : o[j] = Is(cwd[p], j) + Is(i, j) /\ (j \in H \cup {i} <=> j = i)
    BY <1>1, <2>1, IsFacts
  <2>3. Goto(p, s, Opening(i))
    BY <1>6, Zenon DEF Opening
  <2> QED
    BY <1>1, <1>3, <1>6, <2>1, <2>2, <2>3, OpenOK
<1> QED
  BY <1>2, <1>4, <1>5, <1>6, Zenon DEF opened

\* filealloc() and fdalloc() in sys_open().
LEMMA FileallocStep ==
  ASSUME NEW p \in Proc, Safe(p), filealloc(p)
  PROVE  Turn(p)
<1> DEFINE i == pr[p].ip
           o == Owns(p)
           H == Held(p)
<1>1. /\ pr[p].pc = "filealloc" /\ pr[p].cur = 0 /\ i # 0 /\ pr[p].dp = 0 /\ file[p] = 0
      /\ fs.trans # p /\ \A j : Holds(pr[p], j) <=> j = i
  BY Here, Zenon DEF filealloc, At, LocalsOK, InTrans, Holds
<1>2. /\ i \in Inode /\ o[i] > 0 /\ i \in H
      /\ \A j \in Inode : j \notin H \ {i} /\ o[j] = Is(cwd[p], j) + Is(i, j)
  <2>1. i \in Inode /\ o[i] > 0
    BY <1>1, HasFacts, Zenon DEF Has
  <2> QED
    BY <1>1, <2>1, IsFacts DEF Held, Owns, OwnOf, Own
<1>3. CASE /\ Step(p, iunlock(fs, i), Idle) /\ file' = [file EXCEPT ![p] = i]
           /\ UNCHANGED <<home, cwd>>
  <2>1. Mid(p, iunlock(fs, i), o, H \ {i}, fs.trans)
    BY <1>2, MidSelf, MidUnlock, Zenon
  <2>2. Fits(o, H \ {i}, Idle, cwd[p], i)
    BY <1>2, IsFacts, IdleFacts DEF Fits, Own
  <2>3. /\ cwd[p] \in Inode /\ cwd' = [cwd EXCEPT ![p] = cwd[p]] /\ i \in 0..NInodes
        /\ file' = [file EXCEPT ![p] = i] /\ Step(p, iunlock(fs, i), Idle) /\ home' = home
        /\ fs.trans # p
    BY <1>1, <1>3, Here, Zenon DEF Safe, TypeOK
  <2> QED
    BY <2>1, <2>2, <2>3, IdleFacts, StayOK, Zenon
<1>4. CASE Return(p, iunlockput(fs, i))
  <2>1. Mid(p, iunlockput(fs, i), Swap(o, 0, i), H \ {i}, fs.trans)
    BY <1>2, MidSelf, MidUnlockPut, Zenon
  <2>2. Clear(p, Swap(o, 0, i), H \ {i})
    BY <1>1, <1>2, IsFacts DEF Clear, Swap
  <2> QED
    BY <1>1, <1>4, <2>1, <2>2, ReturnOK, Zenon
<1> QED
  BY <1>3, <1>4, Zenon DEF filealloc

\* The last fileclose() of a file puts its inode, in a transaction of its own.
LEMMA FilecloseStep ==
  ASSUME NEW p \in Proc, Safe(p), fileclose(p)
  PROVE  Turn(p)
<1> DEFINE i == file[p]
           o == Owns(p)
           H == Held(p)
<1>1. /\ pr[p].pc = "fileclose" /\ pr[p].cur = 0 /\ pr[p].ip = 0 /\ pr[p].dp = 0 /\ i # 0
      /\ begin_trans(p) /\ \A j : ~Holds(pr[p], j)
  BY Here, Zenon DEF fileclose, At, LocalsOK, Holds
<1>2. /\ i \in Inode /\ o[i] > 0 /\ cwd[p] \in Inode /\ pr[p] \in LocalType
      /\ \A j \in Inode : j \notin H /\ o[j] = Is(cwd[p], j) + Is(i, j)
  <2>1. i \in Inode /\ o[i] > 0 /\ cwd[p] \in Inode /\ pr[p] \in LocalType
    BY <1>1, HasFacts, Here, Zenon DEF Has
  <2> QED
    BY <1>1, <2>1, IsFacts DEF Held, Owns, OwnOf, Own
<1> DEFINE t == iput(Begun(p), i)
<1> HIDE DEF t
<1>4. Mid(p, t, Swap(o, 0, i), H, p)
  BY <1>1, <1>2, MidBegun, MidPut, Zenon DEF t
<1> DEFINE m == IF pr[p].op = "exit" THEN [pr[p] EXCEPT !.pc = "exit"] ELSE Idle
<1> HIDE DEF m
<1>6. /\ m \in LocalType /\ m.cur = 0 /\ m.ip = 0 /\ m.dp = 0
      /\ ~InTrans(m) /\ (\A j : ~Holds(m, j)) /\ TypesOK(m, fs.di) /\ LocalsOK(m, 0)
  <2>1. CASE pr[p].op = "exit"
    <3>1. "exit" \in Pcs
      BY Zenon DEF Pcs
    <3>2. m \in LocalType /\ m.cur = 0 /\ m.ip = 0 /\ m.dp = 0 /\ m.pc = "exit" /\ m.op = "exit"
      BY <1>1, <1>2, <2>1, <3>1, Zenon DEF LocalType, m
    <3> QED
      BY <3>2, Zenon DEF InTrans, Holds, TypesOK, LocalsOK
  <2>2. CASE pr[p].op # "exit"
    BY <2>2, IdleFacts, ZenonT(30) DEF m
  <2> QED
    BY <2>1, <2>2, Zenon
<1>7. Fits(Swap(o, 0, i), H, m, cwd[p], 0)
  BY <1>2, <1>6, IsFacts DEF Fits, Own, Swap
<1>8. /\ Step(p, commit_trans(t), m) /\ file' = [file EXCEPT ![p] = 0]
      /\ cwd' = [cwd EXCEPT ![p] = cwd[p]] /\ home' = (IF t.panic THEN home ELSE t.di)
      /\ 0 \in 0..NInodes
  BY NInodesAssumption DEF fileclose, Safe, TypeOK, t, m
<1> QED
  BY <1>2, <1>4, <1>6, <1>7, <1>8, TurnEnd, Zenon

\* exit() puts its cwd, and the next process starts in the root.
LEMMA ExitStep ==
  ASSUME NEW p \in Proc, Safe(p), exit(p)
  PROVE  Turn(p)
<1> DEFINE i == cwd[p]
           o == Owns(p)
           H == Held(p)
<1>1. /\ pr[p].pc = "exit" /\ pr[p].cur = 0 /\ pr[p].ip = 0 /\ pr[p].dp = 0
      /\ fs.trans # p /\ \A j : ~Holds(pr[p], j)
  BY Here, Zenon DEF exit, At, LocalsOK, InTrans, Holds
<1>2. i \in Inode /\ o[i] > 0 /\ file[p] \in 0..NInodes /\ ROOTINO \in Inode
  BY Here, HasFacts, IsFacts, NInodesAssumption DEF Has, ROOTINO, Inode
<1>3. \A j \in Inode : j \notin H /\ o[j] = Is(i, j) + Is(file[p], j)
  BY <1>1, IsFacts DEF Held, Owns, OwnOf, Own
<1>4. Mid(p, iput(fs, i), Swap(o, 0, i), H, fs.trans)
  BY <1>2, <1>3, MidSelf, MidPut, Zenon
<1>5. Swap(o, 0, i)[ROOTINO] >= 0
  BY <1>2, <1>3, IsFacts DEF Swap
<1>6. Mid(p, idup(iput(fs, i), ROOTINO), Swap(Swap(o, 0, i), ROOTINO, 0), H, fs.trans)
  BY <1>2, <1>4, <1>5, MidGet, Zenon
<1>7. Fits(Swap(Swap(o, 0, i), ROOTINO, 0), H, Idle, ROOTINO, file[p])
  BY <1>3, IdleFacts, IsFacts DEF Fits, Own, Swap
<1>8. /\ Step(p, idup(iput(fs, i), ROOTINO), Idle) /\ cwd' = [cwd EXCEPT ![p] = ROOTINO]
      /\ home' = home /\ file' = [file EXCEPT ![p] = file[p]] /\ fs.trans # p
  BY <1>1, Zenon DEF exit, Safe, TypeOK
<1> QED
  BY <1>2, <1>6, <1>7, <1>8, IdleFacts, StayOK, Zenon

\* A round of the loop of namex(), which goes on or ends.
Walks(p, m) ==
  /\ m.ret = pr[p].ret /\ m.par = pr[p].par /\ m.ip = pr[p].ip /\ m.dp = pr[p].dp /\ m.op = pr[p].op
  /\ m.orig = pr[p].orig
  /\ m.pc \in {"walk", pr[p].ret} /\ (m.pc = "walk" => m.cur # 0)

\* In the parent directory, the last of the walk.
Last(p, m) == m.pc # "walk" /\ pr[p].par /\ m.cur # 0 => fs.di[m.cur].type = "T_DIR"

\* A round of namex() moves the reference from one inode to the next, or gives it up.
LEMMA WalkOK ==
  ASSUME NEW p \in Proc, Safe(p), pr[p].pc = "walk", NEW m \in LocalType, Walks(p, m),
         NEW t, NEW o, NEW H, Mid(p, t, o, H, fs.trans), Goto(p, t, m), ~t.panic => Last(p, m),
         \A j \in Inode : j \notin H /\ o[j] = OwnOf(p, j) + Is(m.cur, j) - Is(pr[p].cur, j)
  PROVE  Turn(p)
<1>1. /\ LocalsOK(pr[p], file[p]) /\ TypesOK(pr[p], fs.di) /\ (fs.trans = p <=> InTrans(pr[p]))
      /\ pr[p].cur # 0 /\ pr[p].dp = 0 /\ (pr[p].ip # 0 <=> pr[p].ret = "link_add")
      /\ IF pr[p].par THEN pr[p].ret \in {"unlink_begin", "link_add", "create_dp"}
         ELSE pr[p].ret \in {"readlink", "link_begin", "opened"}
  BY Here, Zenon DEF LocalsOK
<1>2. /\ LocalsOK(m, file[p]) /\ (InTrans(m) <=> InTrans(pr[p])) /\ (\A j : ~Holds(m, j))
      /\ Last(p, m) => TypesOK(m, fs.di)
  <2>1. CASE m.pc = "walk"
    BY <1>1, <2>1, ZenonT(30) DEF LocalsOK, TypesOK, InTrans, Holds, Walks
  <2>2. CASE m.pc = pr[p].ret
    <3>1. LocalsOK(m, file[p])
      BY <1>1, <2>2, Zenon DEF LocalsOK, Walks
    <3>2. Last(p, m) => TypesOK(m, fs.di)
      BY <1>1, <2>2, Zenon DEF TypesOK, Walks, Last
    <3>3. (InTrans(m) <=> InTrans(pr[p])) /\ \A j : ~Holds(m, j)
      BY <1>1, <2>2, ZenonT(30) DEF InTrans, Holds, Walks
    <3> QED
      BY <3>1, <3>2, <3>3, Zenon
  <2> QED
    BY <2>1, <2>2, ZenonT(30) DEF Walks
<1>3. Fits(o, H, m, cwd[p], file[p])
  BY <1>2, IsFacts, SMTT(30) DEF Fits, Own, OwnOf, Walks
<1> QED
  BY <1>1, <1>2, <1>3, GotoOK, Zenon

\* namex(): the next inode is referenced before the directory is unlocked and put.
LEMMA WalkStep ==
  ASSUME NEW p \in Proc, Safe(p), walk(p)
  PROVE  Turn(p)
<1> DEFINE l == pr[p]
           d == pr[p].cur
           s == ilock(fs, p, d)
           n == Head(pr[p].rest)
           next == dirlookup(s, d, n)
           o == Owns(p)
           H == Held(p)
<1>1. l.pc = "walk" /\ d # 0 /\ l \in LocalType /\ (\A j : ~Holds(l, j)) /\ l.ret # "walk"
  BY Here, Zenon DEF walk, At, LocalsOK, Holds
<1>2. l.rest \in Path /\ l.ret \in Pcs /\ 0 \in 0..NInodes /\ <<>> \in Path /\ "walk" \in Pcs
  BY <1>1, PathFacts, NInodesAssumption DEF LocalType, Pcs
<1>3. /\ d \in Inode /\ o[d] > 0 /\ d \in 0..NInodes
      /\ \A j \in Inode : Is(d, j) \in {0, 1} /\ Is(0, j) = 0
      /\ \A j \in Inode : j \notin H /\ o[j] = OwnOf(p, j) /\ OwnOf(p, j) \in Nat
  BY <1>1, Here, HasFacts, IsFacts, OwnNat, ZenonT(30) DEF Has, Owns, OwnOf, Held
<1>4. CASE l.rest = <<>> /\ Goto(p, iput(fs, d), [l EXCEPT !.pc = l.ret, !.cur = 0])
  <2> DEFINE m == [l EXCEPT !.pc = l.ret, !.cur = 0]
  <2> HIDE DEF m
  <2>2. /\ m \in LocalType /\ m.pc = l.ret /\ m.cur = 0
        /\ m.ret = l.ret /\ m.par = l.par /\ m.ip = l.ip /\ m.dp = l.dp /\ m.op = l.op
        /\ m.orig = l.orig
    BY <1>1, <1>2, Zenon DEF LocalType, m
  <2>3. Mid(p, iput(fs, d), Swap(o, 0, d), H, fs.trans)
    BY <1>3, MidSelf, MidPut, Zenon
  <2>4. \A j \in Inode : j \notin H /\ Swap(o, 0, d)[j] = OwnOf(p, j) + Is(m.cur, j) - Is(d, j)
    BY <1>3, <2>2, Zenon DEF Swap
  <2>5. Walks(p, m) /\ Last(p, m)
    BY <1>1, <2>2, Zenon DEF Walks, Last
  <2>6. Goto(p, iput(fs, d), m)
    BY <1>4, Zenon DEF m
  <2> QED
    BY <1>1, <2>2, <2>3, <2>4, <2>5, <2>6, WalkOK, ZenonT(30)
<1>5. ASSUME CanLock(d)
      PROVE  /\ Mid(p, s, o, H \cup {d}, fs.trans) /\ Intact(s)
             /\ ~s.panic => s.ic[d].type = fs.di[d].type
  <2>1. Has(p, d)
    BY <1>1, Zenon DEF Has
  <2> QED
    BY <1>5, <2>1, LockFirst, Zenon
<1>6. ASSUME l.rest # <<>>, CanLock(d), NEW t, NEW i,
             Goto(p, t, [l EXCEPT !.pc = l.ret, !.rest = <<>>, !.cur = i, !.name = n]),
             \/ i = 0 /\ t = iunlockput(s, d)
             \/ i = d /\ t = iunlock(s, d) /\ s.ic[d].type = "T_DIR"
      PROVE  Turn(p)
  <2> DEFINE m == [l EXCEPT !.pc = l.ret, !.rest = <<>>, !.cur = i, !.name = n]
  <2> HIDE DEF m
  <2>2. n \in Elem /\ i \in 0..NInodes
    BY <1>2, <1>3, <1>6, PathFacts, Zenon
  <2>3. /\ m \in LocalType /\ m.pc = l.ret /\ m.cur = i
        /\ m.ret = l.ret /\ m.par = l.par /\ m.ip = l.ip /\ m.dp = l.dp /\ m.op = l.op
        /\ m.orig = l.orig
    BY <1>1, <1>2, <2>2, Zenon DEF LocalType, m
  <2>4. Walks(p, m) /\ Goto(p, t, m)
    BY <1>1, <1>6, <2>3, ZenonT(30) DEF Walks, m
  <2>5. CASE i = 0 /\ t = iunlockput(s, d)
    <3>1. Mid(p, t, Swap(o, 0, d), (H \cup {d}) \ {d}, fs.trans)
      BY <1>3, <1>5, <1>6, <2>5, MidUnlockPut, Zenon
    <3>2. \A j \in Inode : /\ j \notin (H \cup {d}) \ {d}
                           /\ Swap(o, 0, d)[j] = OwnOf(p, j) + Is(m.cur, j) - Is(d, j)
      BY <1>3, <2>3, <2>5, Zenon DEF Swap
    <3>3. Last(p, m)
      BY <2>3, <2>5, ZenonT(30) DEF Last
    <3> QED
      BY <1>1, <2>3, <2>4, <3>1, <3>2, <3>3, WalkOK
  <2>6. CASE i = d /\ t = iunlock(s, d) /\ s.ic[d].type = "T_DIR"
    <3>0. Mid(p, s, o, H \cup {d}, fs.trans) /\ t = iunlock(s, d)
      BY <1>5, <1>6, <2>6, ZenonT(30)
    <3>1. Mid(p, t, o, (H \cup {d}) \ {d}, fs.trans) /\ (~t.panic => ~s.panic)
      BY <1>3, <3>0, MidUnlock, SMTT(30)
    <3>2. \A j \in Inode : /\ j \notin (H \cup {d}) \ {d}
                           /\ o[j] = OwnOf(p, j) + Is(m.cur, j) - Is(d, j)
      BY <1>3, <2>3, <2>6
    <3>3. ~t.panic => Last(p, m)
      BY <1>5, <1>6, <2>3, <2>6, <3>1, ZenonT(30) DEF Last
    <3> QED
      BY <1>1, <2>3, <2>4, <3>1, <3>2, <3>3, WalkOK
  <2> QED
    BY <1>6, <2>5, <2>6, Zenon
<1>7. ASSUME l.rest # <<>>, CanLock(d), next # 0, ~(l.par /\ Len(l.rest) = 1),
             Goto(p, iunlockput(iget(s, next), d),
                  [l EXCEPT !.cur = next, !.rest = Tail(@),
                            !.pc = IF ~l.par /\ Len(l.rest) = 1 THEN l.ret ELSE "walk"])
      PROVE  Turn(p)
  <2> DEFINE m == [l EXCEPT !.cur = next, !.rest = Tail(@),
                            !.pc = IF ~l.par /\ Len(l.rest) = 1 THEN l.ret ELSE "walk"]
  <2> HIDE DEF m
  <2>2. next \in 0..NInodes /\ next \in Inode /\ Tail(l.rest) \in Path
    <3>1. next \in 0..NInodes
      BY <1>3, <1>5, <1>7, LookupType, Zenon DEF Mid
    <3>2. next \in Inode
      BY <1>7, <3>1, NInodesAssumption DEF Inode
    <3> QED
      BY <1>2, <1>7, <3>1, <3>2, PathFacts, Zenon
  <2>3. /\ m \in LocalType /\ m.cur = next
        /\ m.ret = l.ret /\ m.par = l.par /\ m.ip = l.ip /\ m.dp = l.dp /\ m.op = l.op
        /\ m.orig = l.orig
        /\ m.pc = IF ~l.par /\ Len(l.rest) = 1 THEN l.ret ELSE "walk"
    BY <1>1, <1>2, <2>2, Zenon DEF LocalType, m
  <2>4. Mid(p, iget(s, next), Swap(o, next, 0), H \cup {d}, fs.trans)
    BY <1>5, <1>7, <2>2, MidGet, ZenonT(30)
  <2>5. Swap(o, next, 0)[d] > 0
    BY <1>3, IsFacts DEF Swap
  <2> DEFINE t == iunlockput(iget(s, next), d)
             left == Swap(Swap(o, next, 0), 0, d)
             K == (H \cup {d}) \ {d}
  <2> HIDE DEF t, left, K
  <2>6. Mid(p, t, left, K, fs.trans)
    BY <1>3, <2>4, <2>5, MidUnlockPut, ZenonT(30) DEF t, left, K
  <2>7. \A j \in Inode : j \notin K /\ left[j] = OwnOf(p, j) + Is(m.cur, j) - Is(pr[p].cur, j)
    BY <1>3, <2>3, IsFacts DEF Swap, left, K
  <2>8. Walks(p, m) /\ Last(p, m)
    BY <1>7, <2>3, Zenon DEF Walks, Last
  <2>9. Goto(p, t, m)
    BY <1>7, Zenon DEF m, t
  <2>10. Safe(p) /\ pr[p].pc = "walk" /\ m \in LocalType
    BY <1>1, <2>3, Zenon
  <2> QED
    BY <2>6, <2>7, <2>8, <2>9, <2>10, WalkOK, SMTT(30)
<1>8. CASE l.rest # <<>> /\ CanLock(d) /\ s.ic[d].type # "T_DIR"
           /\ Goto(p, iunlockput(s, d), [l EXCEPT !.pc = l.ret, !.rest = <<>>, !.cur = 0, !.name = n])
  BY <1>6, <1>8, Zenon
<1>9. CASE l.rest # <<>> /\ CanLock(d) /\ s.ic[d].type = "T_DIR"
           /\ Goto(p, iunlock(s, d), [l EXCEPT !.pc = l.ret, !.rest = <<>>, !.cur = d, !.name = n])
  BY <1>6, <1>9, Zenon
<1>10. CASE l.rest # <<>> /\ CanLock(d) /\ next = 0
            /\ Goto(p, iunlockput(s, d), [l EXCEPT !.pc = l.ret, !.rest = <<>>, !.cur = 0, !.name = n])
  BY <1>6, <1>10, Zenon
<1> QED
  BY <1>4, <1>7, <1>8, <1>9, <1>10, Zenon DEF walk

\* In state s, p may start a walk with locals l.
Base(p, s, l, o, H, x) ==
  /\ Mid(p, s, o, H, x) /\ Intact(s) /\ l \in LocalType /\ l.cur = 0 /\ l.dp = 0
  /\ \A j \in Inode : j \notin H /\ o[j] = Own(l, cwd[p], file[p], j)
  /\ l.op \in {"creat", "openrd", "openwr", "openi"} => file[p] = 0

\* The ways to call namex(): what it goes on with, and what is known of the inode
\* that sys_link() has.
Calling(p, s, l, par, ret, x) ==
  /\ IF par THEN ret \in {"unlink_begin", "link_add", "create_dp"}
     ELSE ret \in {"readlink", "link_begin", "opened"}
  /\ l.ip # 0 <=> ret = "link_add"
  /\ x = p <=> ret \in {"link_add", "create_dp"}
  /\ ret = "readlink" => l.orig # <<>>
  /\ ret = "create_dp" => l.op \in {"creat", "mkdir", "mknod", "symlink"}
  /\ ~s.panic /\ ret = "link_add" => fs.di[l.ip].type \notin {"none", "T_DIR"}

\* A call of namex() takes a reference to the root or to cwd.
LEMMA NamexOK ==
  ASSUME NEW p \in Proc, Safe(p), NEW s, NEW l, NEW o, NEW H, NEW x, Base(p, s, l, o, H, x),
         NEW path \in Path, NEW par \in BOOLEAN, NEW ret, Calling(p, s, l, par, ret, x),
         namex(p, s, l, path, par, ret)
  PROVE  Turn(p)
<1> DEFINE start == IF Absolute(path) THEN ROOTINO ELSE cwd[p]
<1> HIDE DEF start
<1> DEFINE t == IF Absolute(path) THEN iget(s, start) ELSE idup(s, start)
<1> HIDE DEF t
<1>3. start \in Inode /\ start \in 0..NInodes /\ start # 0
  BY Here, NInodesAssumption DEF ROOTINO, Inode, start
<1> DEFINE m == [l EXCEPT !.cur = start, !.rest = Elems(path), !.par = par, !.ret = ret,
                          !.pc = IF Elems(path) = <<>> /\ ~par THEN ret ELSE "walk"]
<1> HIDE DEF m
<1>5. Goto(p, t, m)
  BY Zenon DEF namex, start, t, m
<1>6. Elems(path) \in Path /\ ret \in Pcs /\ "walk" \in Pcs
  BY PathFacts, Zenon DEF Pcs, Calling
<1>7. /\ m \in LocalType /\ m.cur = start /\ m.par = par /\ m.ret = ret
      /\ m.pc = IF Elems(path) = <<>> /\ ~par THEN ret ELSE "walk"
      /\ m.ip = l.ip /\ m.dp = 0 /\ m.op = l.op /\ m.orig = l.orig
      /\ l.cur = 0 /\ l.dp = 0
  BY <1>3, <1>6, Zenon DEF Base, LocalType, m
<1>8. /\ LocalsOK(m, file[p]) /\ (\A j : ~Holds(m, j))
      /\ InTrans(m) <=> ret \in {"link_add", "create_dp"}
  <2>1. m.pc = "walk" \/ (m.pc = ret /\ ~par)
    BY <1>7, Zenon
  <2>2. CASE m.pc = "walk"
    BY <1>3, <1>7, <2>2, Zenon DEF LocalsOK, Holds, InTrans, Base, Calling
  <2>3. CASE m.pc = ret /\ ~par
    BY <1>3, <1>7, <2>3, Zenon DEF LocalsOK, Holds, InTrans, Base, Calling
  <2> QED
    BY <2>1, <2>2, <2>3, Zenon
<1>9. Mid(p, t, Swap(o, start, 0), H, x)
  BY <1>3, MidGet, ZenonT(30) DEF Base, t
<1>10. Fits(Swap(o, start, 0), H, m, cwd[p], file[p])
  BY <1>7, <1>8, IsFacts DEF Fits, Swap, Own, Base
<1>11. ~t.panic => TypesOK(m, fs.di)
  <2>1. ~t.panic => ~s.panic
    BY <1>3, GetStep, Zenon DEF Base, Mid, Mono, t
  <2> QED
    BY <1>7, <2>1, Zenon DEF TypesOK, Calling
<1>12. x = p <=> InTrans(m)
  BY <1>8, Zenon DEF Calling
<1> QED
  BY <1>5, <1>7, <1>8, <1>9, <1>10, <1>11, <1>12, GotoOK, Zenon

\* In state s, p goes on with resolving symbolic links, outside a transaction and
\* with no pointer of its own.
Rests(p, s, l, o, H) == Base(p, s, l, o, H, fs.trans) /\ l.ip = 0 /\ fs.trans # p

\* Only pointers, and the call, matter.
LEMMA RestsAs ==
  ASSUME NEW p, NEW s, NEW l, NEW o, NEW H, Rests(p, s, l, o, H), NEW m \in LocalType,
         m.cur = l.cur, m.ip = l.ip, m.dp = l.dp, m.op = l.op
  PROVE  Rests(p, s, m, o, H)
  BY Zenon DEF Rests, Base, Own

\* It returns with an error ...
LEMMA RestsReturn ==
  ASSUME NEW p \in Proc, Safe(p), NEW s, NEW l, NEW o, NEW H, Rests(p, s, l, o, H), Return(p, s)
  PROVE  Turn(p)
<1>1. Clear(p, o, H)
  BY IsFacts DEF Clear, Rests, Base, Own
<1> QED
  BY <1>1, ReturnOK, ZenonT(30) DEF Rests, Base

\* ... or has resolved the path, and its caller goes on ...
LEMMA ResolvedOK ==
  ASSUME NEW p \in Proc, Safe(p), NEW s, NEW l, NEW o, NEW H, Rests(p, s, l, o, H),
         NEW path \in Path, Resolved(p, s, l, path)
  PROVE  Turn(p)
<1> DEFINE m == [l EXCEPT !.path = path, !.orig = <<>>, !.res = <<>>, !.loops = 0]
<1> HIDE DEF m
<1>2. <<>> \in Path /\ 0 \in Int /\ 0 \in 0..NInodes /\ "create_begin" \in Pcs
  BY PathFacts, NInodesAssumption DEF Pcs
<1>3. m \in LocalType /\ m.cur = l.cur /\ m.ip = l.ip /\ m.dp = l.dp /\ m.op = l.op
  BY <1>2, Zenon DEF Rests, Base, LocalType, m
<1>4. Rests(p, s, m, o, H)
  BY <1>3, RestsAs, Zenon
<1>5. CASE l.op \in {"creat", "symlink"}
  <2> DEFINE k == [m EXCEPT !.pc = "create_begin", !.cur = 0]
  <2> HIDE DEF k
  <2>2. Goto(p, s, k)
    BY <1>5, Zenon DEF Resolved, m, k
  <2>3. /\ k \in LocalType /\ k.pc = "create_begin" /\ k.cur = 0 /\ k.ip = 0 /\ k.dp = 0
        /\ k.op = l.op
    BY <1>2, <1>3, Zenon DEF Rests, Base, LocalType, k
  <2>4. LocalsOK(k, file[p]) /\ TypesOK(k, fs.di) /\ ~InTrans(k) /\ \A j : ~Holds(k, j)
    BY <1>5, <2>3, Zenon DEF LocalsOK, TypesOK, InTrans, Holds, Rests, Base
  <2>5. Fits(o, H, k, cwd[p], file[p])
    BY <2>3, <2>4, Zenon DEF Fits, Rests, Base, Own
  <2> QED
    BY <2>2, <2>3, <2>4, <2>5, GotoOK, Zenon DEF Rests, Base
<1>6. CASE l.op = "readlink"
  <2>1. Return(p, s)
    BY <1>6, Zenon DEF Resolved
  <2> QED
    BY <2>1, RestsReturn, Zenon
<1>7. CASE l.op \notin {"creat", "symlink", "readlink"}
  <2>1. namex(p, s, m, path, FALSE, "opened")
    BY <1>7, Zenon DEF Resolved, m
  <2>2. Base(p, s, m, o, H, fs.trans) /\ Calling(p, s, m, FALSE, "opened", fs.trans)
    BY <1>4, Zenon DEF Rests, Calling
  <2> QED
    BY <2>1, <2>2, NamexOK, Zenon
<1> QED
  BY <1>5, <1>6, <1>7, Zenon

\* ... or looks up the next element of the path ...
LEMMA ElemOK ==
  ASSUME NEW p \in Proc, Safe(p), NEW s, NEW l, NEW o, NEW H, Rests(p, s, l, o, H),
         NEW orig \in Path, NEW res \in Path, NEW loops \in Int, rl_elem(p, s, l, orig, res, loops)
  PROVE  Turn(p)
<1>1. orig # <<>> => Append(res, Head(orig)) \in Path
  BY PathFacts, Zenon
<1>2. CASE orig = <<>> /\ Return(p, s)
  BY <1>2, RestsReturn, Zenon
<1>3. CASE orig # <<>> /\ Resolved(p, s, l, Append(res, Head(orig)))
  BY <1>1, <1>3, ResolvedOK, Zenon
<1>4. CASE /\ orig # <<>>
           /\ namex(p, s, [l EXCEPT !.orig = orig, !.res = res, !.loops = loops],
                    Append(res, Head(orig)), FALSE, "readlink")
  <2> DEFINE m == [l EXCEPT !.orig = orig, !.res = res, !.loops = loops]
  <2> HIDE DEF m
  <2>2. /\ m \in LocalType /\ m.cur = l.cur /\ m.ip = l.ip /\ m.dp = l.dp /\ m.op = l.op
        /\ m.orig = orig
    BY Zenon DEF Rests, Base, LocalType, m
  <2>3. Rests(p, s, m, o, H)
    BY <2>2, RestsAs, Zenon
  <2>4. Base(p, s, m, o, H, fs.trans) /\ Calling(p, s, m, FALSE, "readlink", fs.trans)
    BY <1>4, <2>2, <2>3, Zenon DEF Rests, Calling
  <2> QED
    BY <1>1, <1>4, <2>4, NamexOK, Zenon DEF m
<1> QED
  BY <1>2, <1>3, <1>4, Zenon DEF rl_elem

\* ... or starts again, with the text of a link in its place.
LEMMA RestartOK ==
  ASSUME NEW p \in Proc, Safe(p), NEW s, NEW l, NEW o, NEW H, Rests(p, s, l, o, H),
         NEW path \in Path, NEW loops \in Int, restart(p, s, l, path, loops)
  PROVE  Turn(p)
<1> DEFINE res == IF Absolute(path) THEN <<"/">> ELSE <<>>
<1> HIDE DEF res
<1>2. res \in Path /\ Elems(path) \in Path
  BY PathFacts, Zenon DEF res
<1> QED
  BY <1>2, ElemOK, Zenon DEF restart, res

\* filereadlink() looks at the inode that namei() has found.
LEMMA ReadlinkStep ==
  ASSUME NEW p \in Proc, Safe(p), readlink(p)
  PROVE  Turn(p)
<1> DEFINE l == pr[p]
           i == pr[p].cur
           s == ilock(fs, p, i)
           o == Owns(p)
           K == Held(p) \cup {i}
<1>1. /\ l.pc = "readlink" /\ l.ip = 0 /\ l.dp = 0 /\ l \in LocalType /\ fs.trans # p
      /\ (l.op \in {"creat", "openrd", "openwr", "openi"} => file[p] = 0)
      /\ \A j : ~Holds(l, j)
  BY Here, Zenon DEF readlink, At, LocalsOK, InTrans, Holds
<1>2. l.orig \in Path /\ l.orig # <<>> /\ l.res \in Path /\ l.loops \in Int
  BY <1>1, Here, Zenon DEF LocalType, LocalsOK
<1>3. CASE i = 0 /\ Return(p, fs)
  <2>1. Clear(p, o, Held(p))
    BY <1>1, <1>3, IsFacts DEF Clear, Owns, OwnOf, Own, Held
  <2> QED
    BY <1>1, <1>3, <2>1, MidSelf, ReturnOK, ZenonT(30)
<1>4. ASSUME i # 0, CanLock(i)
      PROVE  Mid(p, s, o, K, fs.trans) /\ Intact(s) /\ i \in Inode /\ o[i] > 0
  BY <1>4, HasFacts, LockFirst, Zenon DEF Has
<1> DEFINE t == leak(iunlock(s, i), i)
<1> HIDE DEF t
<1> DEFINE m == [l EXCEPT !.cur = 0]
<1> HIDE DEF m
<1>7. \A j \in Inode : Swap(o, 0, i)[j] = Is(cwd[p], j) + Is(file[p], j) /\ j \notin K \ {i}
  BY <1>1, IsFacts DEF Swap, Owns, OwnOf, Own, Held
<1>8. ASSUME i # 0, CanLock(i)
      PROVE  Rests(p, t, m, Swap(o, 0, i), K \ {i})
  <2>1. m \in LocalType /\ m.cur = 0 /\ m.ip = 0 /\ m.dp = 0 /\ m.op = l.op
    BY <1>1, NInodesAssumption, ZenonT(30) DEF LocalType, m
  <2>2. Mid(p, t, Swap(o, 0, i), K \ {i}, fs.trans) /\ Intact(t)
    BY <1>4, <1>8, MidUnlockLeak DEF t
  <2>3. \A j \in Inode : j \notin K \ {i} /\ Swap(o, 0, i)[j] = Own(m, cwd[p], file[p], j)
    BY <1>7, <2>1, IsFacts DEF Own
  <2> QED
    BY <1>1, <2>1, <2>2, <2>3, Zenon DEF Rests, Base
<1>9. Append(l.res, Head(l.orig)) \in Path /\ Tail(l.orig) \in Path
  BY <1>2, PathFacts, Zenon
<1>10. CASE /\ i # 0 /\ CanLock(i)
            /\ Resolved(p, leak(iunlock(s, i), i), [l EXCEPT !.cur = 0], Append(l.res, Head(l.orig)))
  BY <1>8, <1>9, <1>10, ResolvedOK, Zenon DEF t, m
<1>11. CASE /\ i # 0 /\ CanLock(i)
            /\ Return(p, [leak(s, i) EXCEPT !.ic[i].busy = Left])
  <2> DEFINE u == [leak(s, i) EXCEPT !.ic[i].busy = Left]
  <2> HIDE DEF u
  <2>2. Mid(p, u, Swap(o, 0, i), K \ {i}, fs.trans)
    BY <1>4, <1>11, MidLeft, Zenon DEF u
  <2>3. Clear(p, Swap(o, 0, i), K \ {i})
    BY <1>7, Zenon DEF Clear
  <2> QED
    BY <1>1, <1>11, <2>2, <2>3, ReturnOK, Zenon DEF u
<1>12. CASE i # 0 /\ CanLock(i) /\ Return(p, leak(iunlock(s, i), i))
  BY <1>8, <1>12, RestsReturn, Zenon DEF t
<1>13. CASE /\ i # 0 /\ CanLock(i)
            /\ rl_elem(p, leak(iunlock(s, i), i), [l EXCEPT !.cur = 0], Tail(l.orig),
                       Append(l.res, Head(l.orig)), l.loops)
  BY <1>2, <1>8, <1>9, <1>13, ElemOK, Zenon DEF t, m
<1>14. CASE /\ i # 0 /\ CanLock(i)
            /\ restart(p, leak(iunlock(s, i), i), [l EXCEPT !.cur = 0],
                       Spliced(l.res, s.di[i].text, Tail(l.orig)), l.loops - 1)
  <2>1. s \in FsType /\ i \in Inode
    BY <1>4, <1>14, Zenon DEF Mid
  <2>2. s.di[i].text \in Path
    BY <2>1, Fields, DinodeFields, ZenonT(30)
  <2>3. Spliced(l.res, s.di[i].text, Tail(l.orig)) \in Path /\ l.loops - 1 \in Int
    BY <1>2, <1>9, <2>2, PathFacts DEF Spliced
  <2> QED
    BY <1>8, <1>14, <2>3, RestartOK, Zenon DEF t, m
<1> QED
  BY <1>3, <1>10, <1>11, <1>12, <1>13, <1>14, Zenon DEF readlink
=============================================================================
