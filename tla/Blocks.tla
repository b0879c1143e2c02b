------------------------------- MODULE Blocks --------------------------------
(***************************************************************************)
(* Disk blocks: the file system that mkfs makes (mkfs.c), the bitmap, the  *)
(* block map of a file with its two levels of indirection, reading,        *)
(* writing and truncation (fs.c), and the transactions that filewrite()    *)
(* cuts a write into (file.c).                                             *)
(*                                                                         *)
(* A block has BSIZE words; a block number takes one word, as does a byte  *)
(* of data and a directory entry.  What the words of the inode and bitmap  *)
(* blocks encode is in `di' and `used'.  A transaction is one step: Log    *)
(* says why that is sound.  Devices are left out of readi() and writei().  *)
(***************************************************************************)
EXTENDS Integers, FiniteSets, Sequences, SequencesExt, TLC

CONSTANTS Proc,       \* processes with one open file each
          File,       \* inode numbers of the files, ROOTINO excepted
          Images,     \* the lists of file sizes that mkfs may be given
          WriteSizes, \* the n of write() and read()
          MaxCalls,   \* bound on the number of calls
          NDIRECT, BSIZE, LOGSIZE,
          IPB, BPB,   \* inodes, and bits of the bitmap, in a block
          ninodes, size

NINDIRECT == BSIZE
MAXFILE == NDIRECT + NINDIRECT + NINDIRECT * NINDIRECT
ROOTINO == 1
Inode == File \cup {ROOTINO}

ASSUME ConstantsAssumption ==
  /\ {NDIRECT, BSIZE, IPB, BPB} \subseteq Nat \ {0}
  /\ File \subseteq 2 .. (ninodes - 1)
  /\ \A i \in Images : Len(i) <= Cardinality(File)

\* fs.h.
IBLOCK(i) == i \div IPB + 2
BBLOCK(b) == b \div BPB + ninodes \div IPB + 3

\* The last blocks are the log (initlog).
LogStart == size - LOGSIZE

VARIABLES
  s,     \* disk: the words of the blocks; used: the bitmap; di, ic: the inodes on
         \* the disk and in memory; busy, log: whether there is a transaction and
         \* the blocks it has logged; stop: why the kernel has stopped
  pr,    \* per process: the inode of its file (0: none), the offset, the bytes of
         \* a write() that are still to be written
  calls

vars == <<s, pr, calls>>

Zero == [w \in 0 .. BSIZE - 1 |-> 0]
\* addrs[NDIRECT + 1] is indirect2.
NoBlocks == [size |-> 0, addrs |-> [k \in 0 .. NDIRECT + 1 |-> 0]]

\* The data that is written to offset o of file f.
Datum(f, o) == 1000 * f + o

\* The parts that the loops of readi(), writei() and iappend() cut n bytes at
\* offset off into, one for each block.
Pieces(off, n) ==
  IF n = 0 THEN <<>>
  ELSE [k \in 1 .. (off + n - 1) \div BSIZE - off \div BSIZE + 1 |->
         LET bn == off \div BSIZE + k - 1
             first == IF k = 1 THEN off % BSIZE ELSE 0
             last == IF (bn + 1) * BSIZE > off + n THEN (off + n - 1) % BSIZE ELSE BSIZE - 1
         IN [bn |-> bn, words |-> [j \in 1 .. last - first + 1 |-> first + j - 1]]]

\* memmove() of the data of a part to block b.
Filled(disk, b, f, piece) ==
  [disk EXCEPT ![b] = [w \in 0 .. BSIZE - 1 |->
     IF w \in ToSet(piece.words) THEN Datum(f, piece.bn * BSIZE + w) ELSE @[w]]]
-----------------------------------------------------------------------------
(***************************************************************************)
(* mkfs.  m.free is freeblock.                                             *)
(***************************************************************************)
bitblocks == size \div BPB + 1
usedblocks == ninodes \div IPB + 3 + bitblocks

\* Block fbn of inode f, with its indirect block if it needs one.
iappend_block(m, f, fbn) ==
  LET a == m.ic[f].addrs
      n == IF a[NDIRECT] = 0 THEN [m EXCEPT !.ic[f].addrs[NDIRECT] = m.free, !.free = @ + 1]
           ELSE m
      b == n.ic[f].addrs[NDIRECT]
  IN IF fbn < NDIRECT
     THEN IF a[fbn] # 0 THEN m ELSE [m EXCEPT !.ic[f].addrs[fbn] = m.free, !.free = @ + 1]
     ELSE IF n.disk[b][fbn - NDIRECT] # 0 THEN n
          ELSE [n EXCEPT !.disk[b][fbn - NDIRECT] = n.free, !.free = @ + 1]

iappend(m, f, n) ==
  LET off == m.ic[f].size
      append(t, piece) ==
        LET u == iappend_block(t, f, piece.bn)
            a == u.ic[f].addrs
            x == IF piece.bn < NDIRECT THEN a[piece.bn] ELSE u.disk[a[NDIRECT]][piece.bn - NDIRECT]
        IN [u EXCEPT !.disk = Filled(@, x, f, piece)]
  IN [FoldLeft(append, m, Pieces(off, n)) EXCEPT !.ic[f].size = off + n]

\* Each file has an entry in the root directory, whose size is then rounded up: by
\* a whole block if its last block is full.
mkfs(image) ==
  LET empty == [disk |-> [b \in 0 .. size - 1 |-> Zero], free |-> usedblocks,
                ic |-> [i \in Inode |-> NoBlocks]]
      add(m, k) == iappend(iappend(m, ROOTINO, 1), k + 1, image[k])
      made == FoldLeft(add, iappend(empty, ROOTINO, 2), [k \in 1 .. Len(image) |-> k])
      inodes == [made.ic EXCEPT ![ROOTINO].size = (@ \div BSIZE + 1) * BSIZE]
  IN [disk |-> made.disk, used |-> 0 .. made.free - 1, di |-> inodes, ic |-> inodes,
      busy |-> FALSE, log |-> {}, stop |-> ""]
-----------------------------------------------------------------------------
(***************************************************************************)
(* The bitmap and the block map (fs.c).  t is a value of s.                *)
(***************************************************************************)
Stop(t, why) == IF t.stop = "" THEN [t EXCEPT !.stop = why] ELSE t

\* log_write() refuses a full log, be the block in it or not.
log_write(t, b) ==
  IF t.stop # "" THEN t
  ELSE IF Cardinality(t.log) >= LOGSIZE - 1
  THEN [t EXCEPT !.stop = "too big a transaction", !.log = @ \cup {b}]
  ELSE IF ~t.busy THEN Stop(t, "write outside of trans")
  ELSE [t EXCEPT !.log = @ \cup {b}]

begin_trans(t) == [t EXCEPT !.busy = TRUE]

commit_trans(t) == IF t.stop = "" THEN [t EXCEPT !.busy = FALSE, !.log = {}] ELSE t

iupdate(t, f) == log_write([t EXCEPT !.di[f] = t.ic[f]], IBLOCK(f))

bzero(t, b) == log_write([t EXCEPT !.disk[b] = Zero], b)

\* The first free block of the whole disk; the log is not marked as used.  What
\* becomes of a log that files are written to is not followed.
balloc(t) ==
  LET free == (0 .. size - 1) \ t.used
      b == CHOOSE x \in free : \A y \in free : x <= y
  IN CASE free = {} -> [s |-> Stop(t, "out of blocks"), addr |-> 0]
       [] free # {} /\ b >= LogStart -> [s |-> Stop(t, "file in the log"), addr |-> 0]
       [] OTHER -> [s |-> bzero(log_write([t EXCEPT !.used = @ \cup {b}], BBLOCK(b)), b),
                    addr |-> b]

bfree(t, b) ==
  IF b \notin t.used THEN Stop(t, "freeing free block")
  ELSE log_write([t EXCEPT !.used = @ \ {b}], BBLOCK(b))

\* ip->addrs[k] or ip->indirect2, allocated if necessary.
slot(t, f, k) ==
  LET r == balloc(t) IN
  IF t.ic[f].addrs[k] # 0 THEN [s |-> t, addr |-> t.ic[f].addrs[k]]
  ELSE [s |-> [r.s EXCEPT !.ic[f].addrs[k] = r.addr], addr |-> r.addr]

\* a[w] of an index block, allocated if necessary.
entry(r, w) ==
  LET t == r.s
      q == balloc(t)
  IN IF t.disk[r.addr][w] # 0 THEN [s |-> t, addr |-> t.disk[r.addr][w]]
     ELSE [s |-> log_write([q.s EXCEPT !.disk[r.addr][w] = q.addr], r.addr), addr |-> q.addr]

\* Mutation: the remainder in both levels.
bmap_remainder(t, f, bn) ==
  LET bn1 == bn - NDIRECT
      bn2 == bn1 - NINDIRECT
  IN CASE bn < NDIRECT -> slot(t, f, bn)
       [] bn >= NDIRECT /\ bn1 < NINDIRECT -> entry(slot(t, f, NDIRECT), bn1)
       [] bn1 >= NINDIRECT /\ bn2 < NINDIRECT * NINDIRECT ->
            entry(entry(slot(t, f, NDIRECT + 1), bn2 % NINDIRECT), bn2 % NINDIRECT)
       [] OTHER -> [s |-> Stop(t, "bmap: out of range"), addr |-> 0]

bmap(t, f, bn) ==
  LET bn1 == bn - NDIRECT
      bn2 == bn1 - NINDIRECT
  IN CASE bn < NDIRECT -> slot(t, f, bn)
       [] bn >= NDIRECT /\ bn1 < NINDIRECT -> entry(slot(t, f, NDIRECT), bn1)
       [] bn1 >= NINDIRECT /\ bn2 < NINDIRECT * NINDIRECT ->
            entry(entry(slot(t, f, NDIRECT + 1), bn2 \div NINDIRECT), bn2 % NINDIRECT)
       [] OTHER -> [s |-> Stop(t, "bmap: out of range"), addr |-> 0]

Words(t, b) == SelectSeq([w \in 1 .. BSIZE |-> t.disk[b][w - 1]], LAMBDA x : x # 0)

\* The blocks that itrunc() frees, in its order.
\* Mutation: the index blocks of the second level are forgotten.
Truncated_leaky(t, f) ==
  LET a == t.ic[f].addrs
      one(b) == Words(t, b) \o <<b>>
      two(b) == FlattenSeq([k \in 1 .. Len(Words(t, b)) |-> Words(t, Words(t, b)[k])]) \o <<b>>
  IN SelectSeq([k \in 1 .. NDIRECT |-> a[k - 1]], LAMBDA x : x # 0)
     \o (IF a[NDIRECT] # 0 THEN one(a[NDIRECT]) ELSE <<>>)
     \o (IF a[NDIRECT + 1] # 0 THEN two(a[NDIRECT + 1]) ELSE <<>>)

Truncated(t, f) ==
  LET a == t.ic[f].addrs
      one(b) == Words(t, b) \o <<b>>
      two(b) == FlattenSeq([k \in 1 .. Len(Words(t, b)) |-> one(Words(t, b)[k])]) \o <<b>>
  IN SelectSeq([k \in 1 .. NDIRECT |-> a[k - 1]], LAMBDA x : x # 0)
     \o (IF a[NDIRECT] # 0 THEN one(a[NDIRECT]) ELSE <<>>)
     \o (IF a[NDIRECT + 1] # 0 THEN two(a[NDIRECT + 1]) ELSE <<>>)

RECURSIVE free_blocks(_, _)
free_blocks(t, blocks) ==
  IF t.stop # "" \/ blocks = <<>> THEN t ELSE free_blocks(bfree(t, Head(blocks)), Tail(blocks))

itrunc(t, f) == iupdate([free_blocks(t, Truncated(t, f)) EXCEPT !.ic[f] = NoBlocks], f)
-----------------------------------------------------------------------------
(***************************************************************************)
(* readi() and writei(): r is the result, -1 for an error.                 *)
(***************************************************************************)
RECURSIVE read_pieces(_, _, _, _)
read_pieces(t, f, data, pieces) ==
  IF t.stop # "" \/ pieces = <<>> THEN [s |-> t, data |-> data]
  ELSE LET piece == Head(pieces)
           q == bmap(t, f, piece.bn)
       IN read_pieces(q.s, f,
            data \o [k \in 1 .. Len(piece.words) |-> q.s.disk[q.addr][piece.words[k]]],
            Tail(pieces))

readi(t, f, off, n) ==
  LET m == IF off + n > t.ic[f].size THEN t.ic[f].size - off ELSE n
  IN IF off > t.ic[f].size THEN [s |-> t, data |-> <<>>, r |-> -1]
     ELSE read_pieces(t, f, <<>>, Pieces(off, m)) @@ [r |-> m]

\* The end of writei().
Grown(t, f, end) ==
  IF end <= t.ic[f].size THEN t ELSE iupdate([t EXCEPT !.ic[f].size = end], f)

RECURSIVE write_pieces(_, _, _)
write_pieces(t, f, pieces) ==
  IF t.stop # "" \/ pieces = <<>> THEN t
  ELSE LET q == bmap(t, f, Head(pieces).bn)
           copied == [q.s EXCEPT !.disk = Filled(@, q.addr, f, Head(pieces))]
       IN write_pieces(log_write(copied, q.addr), f, Tail(pieces))

writei(t, f, off, n) ==
  IF off > t.ic[f].size \/ off + n > MAXFILE * BSIZE THEN [s |-> t, r |-> -1]
  ELSE [s |-> Grown(write_pieces(t, f, Pieces(off, n)), f, off + n), r |-> n]
-----------------------------------------------------------------------------
(***************************************************************************)
(* The calls.                                                              *)
(***************************************************************************)
Closed == [f |-> 0, off |-> 0, todo |-> 0]

Call == s.stop = "" /\ calls < MaxCalls /\ calls' = calls + 1
Ready(p) == pr[p].f # 0 /\ pr[p].todo = 0

open(p, f) ==
  /\ Call /\ pr[p].f = 0
  /\ pr' = [pr EXCEPT ![p] = [Closed EXCEPT !.f = f]]
  /\ UNCHANGED s

close(p) ==
  /\ s.stop = "" /\ Ready(p)
  /\ pr' = [pr EXCEPT ![p] = Closed]
  /\ UNCHANGED <<s, calls>>

fileread(p, n) ==
  /\ Call /\ Ready(p)
  /\ LET r == readi(s, pr[p].f, pr[p].off, n) IN
       /\ s' = r.s
       /\ pr' = [pr EXCEPT ![p].off = IF r.r > 0 THEN @ + r.r ELSE @]

\* Directories cannot be opened for writing.
filewrite(p, n) ==
  /\ Call /\ Ready(p) /\ pr[p].f # ROOTINO
  /\ pr' = [pr EXCEPT ![p].todo = n]
  /\ UNCHANGED s

\* Mutation: room for the data blocks only.
max_data == (LOGSIZE - 1 - 1 - 2) * BSIZE

max == ((LOGSIZE - 1 - 1 - 2) \div 2) * BSIZE

\* A transaction of filewrite(), which gives up after an error.
chunk(p) ==
  LET n1 == IF pr[p].todo > max THEN max ELSE pr[p].todo
      r == writei(begin_trans(s), pr[p].f, pr[p].off, n1)
  IN /\ s.stop = "" /\ pr[p].todo > 0
     /\ s' = commit_trans(r.s)
     /\ pr' = [pr EXCEPT ![p].off = IF r.r > 0 THEN @ + r.r ELSE @,
                         ![p].todo = IF r.r < 0 THEN 0 ELSE @ - r.r]
     /\ UNCHANGED calls

\* sys_unlink() of the only name of a file that nobody has open, down to itrunc()
\* in iput().  (The inode is then as good as that of a new file.)
unlink(f) ==
  LET erased == log_write(begin_trans(s), s.ic[ROOTINO].addrs[0])
      t == iupdate(itrunc(iupdate(erased, f), f), f)
  IN /\ Call /\ \A p \in Proc : pr[p].f # f
     /\ s.ic[f] # NoBlocks
     /\ s' = commit_trans(t)
     /\ UNCHANGED pr

Init ==
  /\ \E image \in Images : s = mkfs(image)
  /\ pr = [p \in Proc |-> Closed]
  /\ calls = 0

Next ==
  \/ \E p \in Proc :
       \/ \E f \in Inode : open(p, f)
       \/ close(p)
       \/ \E n \in WriteSizes : fileread(p, n) \/ filewrite(p, n)
       \/ chunk(p)
  \/ \E f \in File : unlink(f)

Spec == Init /\ [][Next]_vars
-----------------------------------------------------------------------------
TypeOK ==
  /\ s.disk \in [0 .. size - 1 -> [0 .. BSIZE - 1 -> Nat]]
  /\ s.used \subseteq 0 .. size - 1
  /\ \A f \in Inode : \A i \in {s.di[f], s.ic[f]} :
       i.size \in 0 .. MAXFILE * BSIZE /\ i.addrs \in [0 .. NDIRECT + 1 -> 0 .. size - 1]
  /\ s.log \subseteq 0 .. size - 1 /\ (s.stop = "" => ~s.busy /\ s.log = {})
  /\ \A p \in Proc : pr[p].f \in Inode \cup {0} /\ pr[p].off \in 0 .. MAXFILE * BSIZE

\* The places that hold the number of a block: <<f, 0, k>> in inode f, <<f, b, w>>
\* in its index block b.
Holds(place) == IF place[2] = 0 THEN s.ic[place[1]].addrs[place[3]] ELSE s.disk[place[2]][place[3]]
Places(f) ==
  LET a == s.ic[f].addrs
      second == { s.disk[a[NDIRECT + 1]][w] : w \in 0 .. BSIZE - 1 }
      index == ({a[NDIRECT], a[NDIRECT + 1]} \cup (IF a[NDIRECT + 1] = 0 THEN {} ELSE second)) \ {0}
  IN { p \in ({f} \X {0} \X (0 .. NDIRECT + 1)) \cup ({f} \X index \X (0 .. BSIZE - 1)) : Holds(p) # 0 }

\* Every block is metadata, free or in exactly one place of one file, and the bitmap
\* says so: balloc(), the three levels of bmap() and itrunc() neither lose a block
\* nor use one twice.
BlocksPartition ==
  LET places == UNION { Places(f) : f \in Inode } IN
  /\ TypeOK
  /\ s.stop = "" =>
    /\ s.used = (0 .. usedblocks - 1) \cup { Holds(p) : p \in places }
    /\ Cardinality(s.used) = usedblocks + Cardinality(places)

\* What was written at an offset is what readi() finds there, in all the files, through
\* all levels of indirection, with the inode that is in memory and with the one that is
\* on the disk: writei() has updated it although it does so only when the file grows.
ReadBack ==
  s.stop = "" => \A f \in File : \A inodes \in {s.ic, s.di} :
    readi([s EXCEPT !.ic = inodes], f, 0, MAXFILE * BSIZE).data
      = [o \in 1 .. s.ic[f].size |-> Datum(f, o - 1)]

\* The kernel stops only for want of blocks, in a transaction with two blocks of the
\* bitmap, or in reading the hole of the root directory: the bounds of filewrite()
\* on a transaction, and readi()'s use of bmap() outside one, are right otherwise.
StopsExplained ==
  CASE s.stop = "" -> TRUE
    [] s.stop = "file in the log" -> 0 .. LogStart - 1 \subseteq s.used
    [] s.stop = "too big a transaction" ->
         \E b, c \in 0 .. size - 1 : BBLOCK(b) # BBLOCK(c) /\ {BBLOCK(b), BBLOCK(c)} \subseteq s.log
    [] s.stop = "write outside of trans" ->
         s.di[ROOTINO].addrs[(s.di[ROOTINO].size - 1) \div BSIZE] = 0
    [] OTHER -> FALSE
=============================================================================
