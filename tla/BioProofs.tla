------------------------------ MODULE BioProofs ------------------------------
(***************************************************************************)
(* Proofs about the buffer cache and the IDE driver, for any processes,    *)
(* sectors, values and number of buffers.  One lemma per action    *)
(* shows that it keeps BioInv; the lemmas on Contents then show that only  *)
(* the holder of a sector changes what bread() returns.                    *)
(***************************************************************************)
EXTENDS Bio, TLAPS

\* brelse() moves the buffer to the front of the list; nothing falls off.
LEMMA MoveToHeadFacts ==
  ASSUME TypeOK, NEW x \in Buf, NEW l, l = MoveToHead(x)
  PROVE  l \in Seq(Buf) /\ HasEachOnce(l)
<1>0. /\ lru \in Seq(Buf) /\ Len(lru) \in Nat /\ DOMAIN lru = 1 .. Len(lru)
      /\ \A y \in Buf : \E i \in 1 .. Len(lru) : lru[i] = y
      /\ \A i \in 1 .. Len(lru) : lru[i] \in Buf
      /\ \A i, j \in 1 .. Len(lru) : lru[i] = lru[j] => i = j
  <2>1. lru \in Seq(Buf) /\ HasEachOnce(lru)
    BY DEF TypeOK
  <2>2. Len(lru) \in Nat /\ DOMAIN lru = 1 .. Len(lru) /\ \A i \in 1 .. Len(lru) : lru[i] \in Buf
    BY <2>1
  <2> QED
    BY <2>1, <2>2 DEF HasEachOnce
<1> DEFINE k == CHOOSE i \in DOMAIN lru : lru[i] = x
           n == Len(lru)
<1>1. k \in 1 .. n /\ lru[k] = x
  BY <1>0
<1>2. l = [i \in 1 .. n |-> IF i = 1 THEN x ELSE IF i <= k THEN lru[i - 1] ELSE lru[i]]
  BY <1>0 DEF MoveToHead
<1>a. n \in Nat
  BY <1>0
<1> HIDE DEF k, n
<1>b. \A i \in 1 .. n : l[i] \in Buf
  BY <1>0, <1>1, <1>2, <1>a DEF n
<1>3. /\ l \in Seq(Buf) /\ DOMAIN l = 1 .. n
      /\ \A i \in 1 .. n : l[i] = IF i = 1 THEN x ELSE IF i <= k THEN lru[i - 1] ELSE lru[i]
  <2>1. l \in [1 .. n -> Buf]
    BY <1>2, <1>b
  <2> QED
    BY <1>2, <1>a, <2>1
<1> USE DEF n
<1>4. \A y \in Buf : \E i \in 1 .. n : l[i] = y
  <2> SUFFICES ASSUME NEW y \in Buf PROVE \E i \in 1 .. n : l[i] = y
    OBVIOUS
  <2>1. PICK j \in 1 .. n : lru[j] = y
    BY <1>0
  <2>2. CASE j = k
    BY <1>0, <1>1, <1>3, <2>1, <2>2
  <2>3. CASE j < k
    <3>1. j + 1 \in 1 .. n /\ l[j + 1] = y
      BY <1>0, <1>1, <1>3, <2>1, <2>3
    <3> QED
      BY <3>1
  <2>4. CASE j > k
    BY <1>0, <1>1, <1>3, <2>1, <2>4
  <2> QED
    BY <1>0, <1>1, <2>2, <2>3, <2>4
<1>5. \A i, j \in 1 .. n : l[i] = l[j] => i = j
  <2> DEFINE from(i) == IF i = 1 THEN k ELSE IF i <= k THEN i - 1 ELSE i
  <2>1. \A i \in 1 .. n : from(i) \in 1 .. n /\ l[i] = lru[from(i)]
    BY <1>0, <1>1, <1>3
  <2>2. \A i, j \in 1 .. n : from(i) = from(j) => i = j
    BY <1>0, <1>1
  <2>3. \A i, j \in 1 .. n : lru[i] = lru[j] => i = j
    BY <1>0
  <2> HIDE DEF from, n
  <2> SUFFICES ASSUME NEW i \in 1 .. n, NEW j \in 1 .. n, l[i] = l[j] PROVE i = j
    OBVIOUS
  <2>4. lru[from(i)] = lru[from(j)]
    BY <2>1, Zenon
  <2>5. from(i) = from(j)
    BY <2>1, <2>3, <2>4, Zenon
  <2> QED
    BY <2>2, <2>5, Zenon
<1> QED
  BY <1>3, <1>4, <1>5, Zenon DEF HasEachOnce

\* ide.c:22: while the disk is not idle, the head of the queue is the buffer it works
\* on, and one process sleeps for it.
LEMMA QueueHead ==
  ASSUME BioInv, dev # "idle"
  PROVE  /\ Len(idequeue) \in Nat \ {0}
         /\ Head(idequeue) = idequeue[1] /\ Head(idequeue) \in Buf
         /\ sector[Head(idequeue)] \in Sector
         /\ \E p \in Proc : pc[p] = "disk" /\ b[p] = Head(idequeue)
         /\ B_VALID \in flags[Head(idequeue)] => B_DIRTY \in flags[Head(idequeue)]
<1> USE DEF BioInv
<1>1. idequeue \in Seq(Buf) /\ idequeue # <<>>
  BY DEF OneBufferPerSector, TypeOK, QueueSound
<1>2. /\ Len(idequeue) \in Nat \ {0}
      /\ Head(idequeue) = idequeue[1] /\ Head(idequeue) \in Buf
      /\ 1 \in DOMAIN idequeue
  BY <1>1
<1>3. PICK p \in Proc : pc[p] = "disk" /\ b[p] = idequeue[1]
  BY <1>2 DEF QueueSound
<1>4. sector[b[p]] = want[p] /\ want[p] \in Sector
  BY <1>3 DEF OneBufferPerSector, Holds, CallInv
<1>5. B_VALID \in flags[b[p]] => B_DIRTY \in flags[b[p]]
  BY <1>3 DEF QueueSound
<1> QED
  BY <1>2, <1>3, <1>4, <1>5

\* bread() only notes what it wants.
LEMMA BreadStep ==
  ASSUME BioInv, NEW p \in Proc, NEW s \in Sector, bread(p, s)
  PROVE  BioInv'
<1> USE DEF BioInv
<1>1. TypeOK'
  BY DEF bread, Go, bufs, OneBufferPerSector, TypeOK
<1>2. OneBufferPerSector'
  BY <1>1 DEF bread, Go, bufs, OneBufferPerSector, Holds, CallInv
<1>3. QueueSound'
  BY DEF bread, Go, bufs, QueueSound
<1>4. CallInv'
  BY DEF bread, Go, bufs, OneBufferPerSector, TypeOK, CallInv
<1>5. CleanInv'
  BY DEF bread, bufs, CleanInv
<1>6. WrittenInv'
  BY DEF bread, bufs, WrittenInv
<1> QED
  BY <1>1, <1>2, <1>3, <1>4, <1>5, <1>6

\* bget() takes a buffer that nobody has.
LEMMA HitStep ==
  ASSUME BioInv, NEW p \in Proc, NEW x \in Buf, bget_hit(p, x)
  PROVE  BioInv'
<1> USE DEF BioInv
<1>1. TypeOK'
  BY DEF bget_hit, Go, OneBufferPerSector, TypeOK
<1>2. OneBufferPerSector'
  BY NoSectorAssumption DEF bget_hit, Go, OneBufferPerSector, TypeOK, Holds, CallInv
<1>3. QueueSound'
  BY DEF bget_hit, Go, B_BUSY, B_VALID, OneBufferPerSector, TypeOK, QueueSound
<1>4. CallInv'
  BY DEF bget_hit, Go, OneBufferPerSector, TypeOK, CallInv
<1>5. CleanInv'
  BY DEF bget_hit, B_BUSY, B_VALID, B_DIRTY, CleanInv
<1>6. WrittenInv'
  BY DEF bget_hit, B_BUSY, B_DIRTY, WrittenInv
<1> QED
  BY <1>1, <1>2, <1>3, <1>4, <1>5, <1>6

\* bget() sleeps for a buffer that somebody has.
LEMMA BgetSleepStep ==
  ASSUME BioInv, NEW p \in Proc, NEW x \in Buf, bget_sleep(p, x)
  PROVE  BioInv'
<1> USE DEF BioInv
<1>1. TypeOK'
  BY DEF bget_sleep, Go, bufs, OneBufferPerSector, TypeOK
<1>2. OneBufferPerSector'
  BY DEF bget_sleep, Go, bufs, B_BUSY, OneBufferPerSector, TypeOK, Holds
<1>3. QueueSound'
  BY DEF bget_sleep, Go, bufs, QueueSound
<1>4. CallInv'
  BY DEF bget_sleep, Go, bufs, OneBufferPerSector, TypeOK, CallInv
<1>5. CleanInv'
  BY DEF bget_sleep, bufs, CleanInv
<1>6. WrittenInv'
  BY DEF bget_sleep, bufs, WrittenInv
<1> QED
  BY <1>1, <1>2, <1>3, <1>4, <1>5, <1>6

\* bget() gives a buffer that nobody has another sector, one that is in no buffer.
LEMMA RecycleStep ==
  ASSUME BioInv, NEW p \in Proc, NEW i \in DOMAIN lru, bget_recycle(p, i)
  PROVE  BioInv'
<1> USE DEF BioInv
<1>1. TypeOK'
  BY DEF bget_recycle, Go, OneBufferPerSector, TypeOK
<1>2. OneBufferPerSector'
  BY DEF bget_recycle, Go, NotCached, Recyclable, OneBufferPerSector, TypeOK, Holds
<1>3. QueueSound'
  BY DEF bget_recycle, Go, B_BUSY, B_VALID, OneBufferPerSector, TypeOK, QueueSound
<1>4. CallInv'
  BY DEF bget_recycle, Go, Recyclable, OneBufferPerSector, TypeOK, CallInv, Holds
<1>5. CleanInv'
  BY DEF bget_recycle, B_BUSY, B_VALID, B_DIRTY, OneBufferPerSector, TypeOK, CleanInv
<1>6. WrittenInv'
  BY DEF bget_recycle, Recyclable, B_BUSY, B_DIRTY, WrittenInv
<1> QED
  BY <1>1, <1>2, <1>3, <1>4, <1>5, <1>6

\* After panic("bget: no buffers") the state is as before.
LEMMA PanicStep ==
  ASSUME BioInv, NEW p \in Proc, bget_panic(p)
  PROVE  BioInv'
<1> USE DEF BioInv
<1>1. TypeOK'
  BY DEF bget_panic, bufs, OneBufferPerSector, TypeOK
<1>2. OneBufferPerSector'
  BY DEF bget_panic, bufs, OneBufferPerSector, TypeOK, Holds
<1>3. QueueSound'
  BY DEF bget_panic, bufs, QueueSound
<1>4. CallInv'
  BY DEF bget_panic, bufs, CallInv
<1>5. CleanInv'
  BY DEF bget_panic, bufs, CleanInv
<1>6. WrittenInv'
  BY DEF bget_panic, bufs, WrittenInv
<1> QED
  BY <1>1, <1>2, <1>3, <1>4, <1>5, <1>6

\* log_write() pins the buffer of its holder.
LEMMA LogWriteStep ==
  ASSUME BioInv, NEW p \in Proc, NEW v \in Val, log_write(p, v)
  PROVE  BioInv'
<1> USE DEF BioInv
<1>1. TypeOK'
  BY NoSectorAssumption DEF log_write, OneBufferPerSector, TypeOK
<1>2. OneBufferPerSector'
  BY DEF log_write, OneBufferPerSector, TypeOK, Holds, CallInv
<1>3. QueueSound'
  BY DEF log_write, QueueSound
<1>4. CallInv'
  BY DEF log_write, CallInv
<1>5. CleanInv'
  BY DEF log_write, OneBufferPerSector, TypeOK, CallInv, CleanInv
<1>6. WrittenInv'
  BY DEF log_write, OneBufferPerSector, TypeOK, WrittenInv, QueueSound, Holds
<1> QED
  BY <1>1, <1>2, <1>3, <1>4, <1>5, <1>6

\* bwrite() hands the buffer to iderw(), dirty, so that iderw() has something to do.
LEMMA BwriteStep ==
  ASSUME BioInv, NEW p \in Proc, NEW v \in Val, bwrite(p, v)
  PROVE  BioInv'
<1> USE DEF BioInv
<1>1. TypeOK'
  BY DEF bwrite, Go, OneBufferPerSector, TypeOK
<1>2. OneBufferPerSector'
  BY DEF bwrite, Go, OneBufferPerSector, TypeOK, Holds, CallInv
<1>3. QueueSound'
  BY DEF bwrite, Go, OneBufferPerSector, TypeOK, QueueSound, CallInv
<1>4. CallInv'
  BY DEF bwrite, Go, CallInv
<1>5. CleanInv'
  BY DEF bwrite, OneBufferPerSector, TypeOK, CallInv, CleanInv
<1>6. WrittenInv'
  BY DEF bwrite, OneBufferPerSector, TypeOK, WrittenInv, QueueSound, Holds
<1> QED
  BY <1>1, <1>2, <1>3, <1>4, <1>5, <1>6

\* brelse(): the buffer is free, and those who slept for it scan again.
LEMMA BrelseStep ==
  ASSUME BioInv, NEW p \in Proc, brelse(p)
  PROVE  BioInv'
<1> USE NoSectorAssumption, NoBufAssumption, NoDataAssumption
<1> USE DEF BioInv, B_BUSY, B_VALID, B_DIRTY
<1>1. /\ TypeOK /\ pc[p] = "use" /\ b[p] \in Buf /\ B_VALID \in flags[b[p]]
      /\ flags' = [flags EXCEPT ![b[p]] = @ \ {B_BUSY}]
      /\ want' = [want EXCEPT ![p] = NoSector]
      /\ b' = [b EXCEPT ![p] = NoBuf]
      /\ lru' = MoveToHead(b[p])
      /\ UNCHANGED <<disk, dev, sector, data, idequeue, panicked>>
  BY DEF brelse, OneBufferPerSector, CallInv
<1>2. /\ pc' \in [Proc -> {"idle", "bget", "asleep", "iderw", "disk", "use"}]
      /\ \A q \in Proc : pc'[q] = IF q = p THEN "idle"
                                  ELSE IF pc[q] = "asleep" /\ b[q] = b[p] THEN "bget"
                                  ELSE pc[q]
  BY <1>1 DEF brelse, wakeup, OneBufferPerSector, TypeOK, Holds
<1>3. TypeOK'
  <2>1. lru' \in Seq(Buf) /\ HasEachOnce(lru')
    BY <1>1, MoveToHeadFacts
  <2> QED
    BY <1>1, <1>2, <2>1 DEF TypeOK
<1>4. \A q \in Proc : Holds(q)' <=> Holds(q) /\ q # p
  BY <1>1, <1>2 DEF Holds
<1>5. /\ \A q \in Proc : q # p => b'[q] = b[q] /\ want'[q] = want[q]
      /\ \A q \in Proc : Holds(q) /\ q # p => b[q] # b[p]
      /\ \A y \in Buf : y # b[p] => flags'[y] = flags[y]
      /\ B_BUSY \notin flags'[b[p]]
  BY <1>1 DEF TypeOK, OneBufferPerSector, Holds
<1>6. OneBufferPerSector'
  <2>1. \A x, y \in Buf : sector'[x] = sector'[y] /\ sector'[x] # NoSector => x = y
    BY <1>1 DEF OneBufferPerSector
  <2>2. \A q \in Proc : Holds(q)' => sector'[b'[q]] = want'[q]
    BY <1>1, <1>4, <1>5 DEF OneBufferPerSector
  <2>3. \A q, o \in Proc : Holds(q)' /\ Holds(o)' /\ b'[q] = b'[o] => q = o
    BY <1>4, <1>5 DEF OneBufferPerSector
  <2>4. ASSUME NEW x \in Buf
        PROVE  B_BUSY \in flags'[x] <=> \E q \in Proc : Holds(q)' /\ b'[q] = x
    <3>1. CASE x = b[p]
      BY <1>4, <1>5, <3>1
    <3>2. CASE x # b[p]
      BY <1>4, <1>5, <3>2 DEF OneBufferPerSector
    <3> QED
      BY <3>1, <3>2
  <2> QED
    BY <1>3, <2>1, <2>2, <2>3, <2>4 DEF OneBufferPerSector
<1>7. QueueSound'
  <2>1. \A q \in Proc : pc'[q] \in {"iderw", "disk"} <=> pc[q] \in {"iderw", "disk"}
    BY <1>1, <1>2
  <2>2. \A q \in Proc : pc[q] \in {"iderw", "disk"} =>
          pc'[q] = pc[q] /\ b'[q] = b[q] /\ flags'[b[q]] = flags[b[q]]
    BY <1>1, <1>2, <1>5 DEF Holds, CallInv
  <2> QED
    BY <1>1, <2>1, <2>2 DEF QueueSound
<1>8. CallInv'
  BY <1>1, <1>2 DEF CallInv, TypeOK
<1>9. CleanInv'
  BY <1>1 DEF CleanInv, TypeOK
<1>10. WrittenInv'
  BY <1>1, QueueHead DEF WrittenInv, TypeOK
<1> QED
  BY <1>6, <1>7, <1>8, <1>9, <1>10

\* iderw(): the buffer is not in the queue yet, since its holder has only now come.
LEMMA IderwStep ==
  ASSUME BioInv, NEW p \in Proc, iderw(p)
  PROVE  BioInv'
<1> USE DEF BioInv, iderw, Go, bufs
<1>1. /\ TypeOK /\ pc[p] = "iderw" /\ b[p] \in Buf
      /\ idequeue \in Seq(Buf) /\ Len(idequeue) \in Nat
  BY DEF OneBufferPerSector, TypeOK, CallInv
<1>2. /\ idequeue' \in Seq(Buf) /\ idequeue' # <<>> /\ Len(idequeue') = Len(idequeue) + 1
      /\ \A i \in 1 .. Len(idequeue) : idequeue'[i] = idequeue[i]
      /\ idequeue'[Len(idequeue) + 1] = b[p]
  BY <1>1
<1>3. dev' \in {"busy", "done"} /\ (dev' = "done" => dev = "done")
  BY <1>1 DEF Start, QueueSound, TypeOK
<1>4. TypeOK'
  BY <1>1, <1>2, <1>3 DEF TypeOK
<1>5. OneBufferPerSector'
  BY <1>1, <1>4 DEF OneBufferPerSector, TypeOK, Holds
<1>6. QueueSound'
  <2>1. /\ DOMAIN idequeue = 1 .. Len(idequeue)
        /\ DOMAIN idequeue' = 1 .. Len(idequeue) + 1
    <3> HIDE DEF BioInv, iderw
    <3> QED
      BY <1>1, <1>2
  <2>2. \A i \in 1 .. Len(idequeue) : idequeue[i] # b[p]
    <3> SUFFICES ASSUME NEW i \in DOMAIN idequeue, idequeue[i] = b[p] PROVE FALSE
      BY <2>1
    <3>1. PICK q \in Proc : pc[q] = "disk" /\ b[q] = b[p]
      BY DEF QueueSound
    <3> QED
      BY <1>1, <3>1 DEF OneBufferPerSector, Holds
  <2>3. \A i, j \in DOMAIN idequeue' : idequeue'[i] = idequeue'[j] => i = j
    BY <1>1, <1>2, <2>1, <2>2 DEF QueueSound
  <2>4. \A i \in DOMAIN idequeue' : \E q \in Proc : pc'[q] = "disk" /\ b'[q] = idequeue'[i]
    BY <1>1, <1>2, <2>1 DEF QueueSound, TypeOK
  <2>5. \A q \in Proc : pc'[q] = "disk" => \E i \in DOMAIN idequeue' : idequeue'[i] = b'[q]
    BY <1>1, <1>2, <2>1 DEF QueueSound, TypeOK
  <2>6. \A q \in Proc : pc'[q] \in {"iderw", "disk"} =>
          ~(B_VALID \in flags'[b'[q]] /\ B_DIRTY \notin flags'[b'[q]])
    BY <1>1 DEF QueueSound, TypeOK
  <2> QED
    BY <1>2, <1>3, <2>3, <2>4, <2>5, <2>6 DEF QueueSound
<1>7. CallInv'
  BY <1>1 DEF CallInv, TypeOK
<1>8. CleanInv'
  BY DEF CleanInv
<1>9. WrittenInv'
  <2> SUFFICES ASSUME dev' = "done" PROVE Head(idequeue') = Head(idequeue)
    BY <1>3 DEF WrittenInv
  <2> QED
    BY <1>1, <1>2, <1>3, QueueHead
<1> QED
  BY <1>5, <1>6, <1>7, <1>8, <1>9

\* The disk executes the command for the head of the queue.
LEMMA DiskDoneStep ==
  ASSUME BioInv, disk_done
  PROVE  BioInv'
<1> DEFINE x == Head(idequeue)
<1> USE DEF BioInv, disk_done, bufs
<1>1. TypeOK /\ x \in Buf /\ sector[x] \in Sector /\ idequeue # <<>>
  BY QueueHead DEF OneBufferPerSector, QueueSound
<1> HIDE DEF x
<1>2. disk' = IF B_DIRTY \in flags[x] THEN [disk EXCEPT ![sector[x]] = data[x]] ELSE disk
  BY DEF x
<1>3. TypeOK'
  <2>1. disk' \in [Sector -> Val]
    BY <1>1, <1>2 DEF TypeOK, CleanInv
  <2> QED
    BY <1>1, <2>1 DEF TypeOK
<1>4. OneBufferPerSector'
  BY <1>3 DEF OneBufferPerSector, Holds
<1>5. QueueSound'
  BY <1>1 DEF QueueSound
<1>6. CallInv'
  BY DEF CallInv
<1>7. CleanInv'
  BY <1>1, <1>2, NoSectorAssumption DEF CleanInv, TypeOK, OneBufferPerSector
<1>8. WrittenInv'
  BY <1>1, <1>2 DEF WrittenInv, TypeOK, x
<1> QED
  BY <1>4, <1>5, <1>6, <1>7, <1>8

\* ideintr(): the process that sleeps for the head of the queue goes on with its buffer,
\* and the queue is shorter by one.
LEMMA IdeintrStep ==
  ASSUME BioInv, ideintr
  PROVE  BioInv'
<1> DEFINE x == Head(idequeue)
<1> USE DEF BioInv, B_BUSY, B_VALID, B_DIRTY
<1>1. /\ TypeOK /\ x \in Buf /\ sector[x] \in Sector /\ x = idequeue[1]
      /\ idequeue \in Seq(Buf) /\ Len(idequeue) \in Nat \ {0}
      /\ B_VALID \in flags[x] => B_DIRTY \in flags[x]
      /\ dev = "done" /\ (B_DIRTY \in flags[x] => disk[sector[x]] = data[x])
  BY QueueHead DEF OneBufferPerSector, TypeOK, ideintr, WrittenInv
<1>2. PICK p \in Proc : pc[p] = "disk" /\ b[p] = x
  BY QueueHead DEF ideintr
<1> HIDE DEF x
<1>3. /\ idequeue' = Tail(idequeue)
      /\ \/ B_DIRTY \in flags[x] /\ data' = data
         \/ B_DIRTY \notin flags[x] /\ data' = [data EXCEPT ![x] = disk[sector[x]]]
         \/ B_DIRTY \notin flags[x] /\ data' = [data EXCEPT ![x] = NoData]
      /\ flags' = [flags EXCEPT ![x] = (@ \cup {B_VALID}) \ {B_DIRTY}]
      /\ dev' = IF Len(idequeue) > 1 THEN "busy" ELSE "idle"
      /\ UNCHANGED <<disk, sector, lru, want, b, panicked>>
  BY DEF ideintr, insl, x
<1>4. /\ pc' \in [Proc -> {"idle", "bget", "asleep", "iderw", "disk", "use"}]
      /\ \A q \in Proc : pc'[q] = IF pc[q] = "asleep" /\ b[q] = x THEN "bget"
                                  ELSE IF q = p THEN "use"
                                  ELSE pc[q]
  BY <1>1, <1>2 DEF ideintr, wakeup, OneBufferPerSector, TypeOK, Holds, x
<1>5. /\ idequeue' \in Seq(Buf) /\ Len(idequeue') = Len(idequeue) - 1
      /\ \A i \in 1 .. Len(idequeue) - 1 : idequeue'[i] = idequeue[i + 1]
  BY <1>1, <1>3
<1>6. TypeOK'
  <2>1. flags' \in [Buf -> SUBSET {B_BUSY, B_VALID, B_DIRTY}]
    BY <1>1, <1>3 DEF TypeOK
  <2>2. data' \in [Buf -> Val \cup {NoData}]
    BY <1>1, <1>3 DEF TypeOK
  <2>3. dev' \in {"idle", "busy", "done"}
    BY <1>3
  <2> QED
    BY <1>1, <1>3, <1>4, <1>5, <2>1, <2>2, <2>3 DEF TypeOK
<1>7. OneBufferPerSector'
  <2>1. \A q \in Proc : Holds(q)' <=> Holds(q)
    BY <1>2, <1>4 DEF Holds
  <2>2. \A y \in Buf : B_BUSY \in flags'[y] <=> B_BUSY \in flags[y]
    BY <1>1, <1>3 DEF TypeOK
  <2> QED
    BY <1>3, <1>6, <2>1, <2>2 DEF OneBufferPerSector
<1>8. QueueSound'
  <2>1. /\ DOMAIN idequeue = 1 .. Len(idequeue)
        /\ DOMAIN idequeue' = 1 .. Len(idequeue) - 1
    BY <1>1, <1>5
  <2>2. \A i, j \in DOMAIN idequeue' : idequeue'[i] = idequeue'[j] => i = j
    <3> SUFFICES ASSUME NEW i \in 1 .. Len(idequeue) - 1, NEW j \in 1 .. Len(idequeue) - 1,
                        idequeue'[i] = idequeue'[j]
                 PROVE  i = j
      BY <2>1
    <3>1. i + 1 \in DOMAIN idequeue /\ j + 1 \in DOMAIN idequeue
      BY <1>1, <2>1
    <3>2. i + 1 = j + 1
      BY <1>5, <3>1 DEF QueueSound
    <3> QED
      BY <3>2
  <2>3. \A i \in DOMAIN idequeue' : \E q \in Proc : pc'[q] = "disk" /\ b'[q] = idequeue'[i]
    <3> SUFFICES ASSUME NEW i \in 1 .. Len(idequeue) - 1
                 PROVE  \E q \in Proc : pc'[q] = "disk" /\ b'[q] = idequeue'[i]
      BY <2>1
    <3>1. i + 1 \in DOMAIN idequeue /\ i + 1 # 1 /\ 1 \in DOMAIN idequeue
      BY <1>1, <2>1
    <3>2. PICK q \in Proc : pc[q] = "disk" /\ b[q] = idequeue[i + 1]
      BY <3>1 DEF QueueSound
    <3>3. idequeue[i + 1] # x
      BY <1>1, <3>1 DEF QueueSound
    <3> QED
      BY <1>2, <1>3, <1>4, <1>5, <3>2, <3>3
  <2>4. \A q \in Proc : pc'[q] = "disk" => \E i \in DOMAIN idequeue' : idequeue'[i] = b'[q]
    <3> SUFFICES ASSUME NEW q \in Proc, pc'[q] = "disk"
                 PROVE  \E i \in 1 .. Len(idequeue) - 1 : idequeue'[i] = b'[q]
      BY <2>1
    <3>1. pc[q] = "disk" /\ q # p
      BY <1>4
    <3>2. b[q] # x
      BY <1>2, <3>1 DEF OneBufferPerSector, Holds
    <3>3. PICK j \in DOMAIN idequeue : idequeue[j] = b[q]
      BY <3>1 DEF QueueSound
    <3>4. j - 1 \in 1 .. Len(idequeue) - 1 /\ (j - 1) + 1 = j
      BY <1>1, <2>1, <3>2, <3>3
    <3> QED
      BY <1>3, <1>5, <3>3, <3>4
  <2>5. dev' = "idle" <=> idequeue' = <<>>
    <3>1. idequeue' = <<>> <=> Len(idequeue') = 0
      BY <1>5
    <3> QED
      BY <1>1, <1>3, <1>5, <3>1
  <2>6. \A q \in Proc : pc'[q] \in {"iderw", "disk"} =>
          ~(B_VALID \in flags'[b'[q]] /\ B_DIRTY \notin flags'[b'[q]])
    <3> SUFFICES ASSUME NEW q \in Proc, pc'[q] \in {"iderw", "disk"}
                 PROVE  ~(B_VALID \in flags[b[q]] /\ B_DIRTY \notin flags[b[q]]) /\ b[q] # x
      BY <1>1, <1>3 DEF TypeOK
    <3>1. pc[q] \in {"iderw", "disk"} /\ q # p
      BY <1>4
    <3> QED
      BY <1>2, <3>1 DEF QueueSound, OneBufferPerSector, Holds
  <2> QED
    BY <2>2, <2>3, <2>4, <2>5, <2>6 DEF QueueSound
<1>9. CallInv'
  BY <1>1, <1>2, <1>3, <1>4 DEF CallInv, TypeOK, OneBufferPerSector, Holds
<1>10. CleanInv'
  BY <1>1, <1>3, NoDataAssumption DEF CleanInv, TypeOK
<1>11. WrittenInv'
  BY <1>3 DEF WrittenInv
<1> QED
  BY <1>7, <1>8, <1>9, <1>10, <1>11

\* binit() leaves an empty cache.
LEMMA InitBio == Init => BioInv
<1> SUFFICES ASSUME Init PROVE BioInv
  OBVIOUS
<1> USE DEF Init
<1>1. /\ lru \in Seq(Buf) /\ DOMAIN lru = 1 .. NBUF
      /\ \A i \in 1 .. NBUF : lru[i] = NBUF - i
  BY NBUFAssumption DEF Buf
<1>2. \A x \in Buf : \E i \in DOMAIN lru : lru[i] = x
  <2>1. \A x \in Buf : NBUF - x \in 1 .. NBUF /\ NBUF - (NBUF - x) = x
    BY NBUFAssumption DEF Buf
  <2> QED
    BY <1>1, <2>1
<1>3. \A i, j \in DOMAIN lru : lru[i] = lru[j] => i = j
  BY <1>1, NBUFAssumption
<1>4. HasEachOnce(lru)
  BY <1>2, <1>3, Zenon DEF HasEachOnce
<1>5. TypeOK
  <2>1. panicked \in BOOLEAN
    BY Zenon
  <2>2. /\ sector \in [Buf -> Sector \cup {NoSector}]
        /\ flags \in [Buf -> SUBSET {B_BUSY, B_VALID, B_DIRTY}]
        /\ data \in [Buf -> Val \cup {NoData}]
        /\ pc \in [Proc -> {"idle", "bget", "asleep", "iderw", "disk", "use"}]
        /\ want \in [Proc -> Sector \cup {NoSector}]
        /\ b \in [Proc -> Buf \cup {NoBuf}]
        /\ idequeue \in Seq(Buf)
    OBVIOUS
  <2> QED
    BY <1>1, <1>4, <2>1, <2>2 DEF TypeOK
<1>6. OneBufferPerSector
  BY <1>5 DEF OneBufferPerSector, Holds
<1>7. QueueSound
  BY DEF QueueSound
<1>8. CallInv /\ CleanInv /\ WrittenInv
  BY DEF CallInv, CleanInv, WrittenInv
<1> QED
  BY <1>6, <1>7, <1>8 DEF BioInv

\* Every step of the cache and of the driver keeps the invariant.
LEMMA NextBio == BioInv /\ [Next]_vars => BioInv'
<1> SUFFICES ASSUME BioInv, [Next]_vars PROVE BioInv'
  OBVIOUS
<1>1. CASE UNCHANGED vars
  <2>1. OneBufferPerSector'
    BY <1>1 DEF vars, BioInv, OneBufferPerSector, TypeOK, Holds
  <2>2. QueueSound'
    BY <1>1 DEF vars, BioInv, QueueSound
  <2>3. CallInv' /\ CleanInv' /\ WrittenInv'
    BY <1>1 DEF vars, BioInv, CallInv, CleanInv, WrittenInv
  <2> QED
    BY <2>1, <2>2, <2>3 DEF BioInv
<1>2. CASE Next
  BY <1>2, BreadStep, HitStep, BgetSleepStep, RecycleStep, PanicStep, LogWriteStep,
     BwriteStep, BrelseStep, IderwStep, DiskDoneStep, IdeintrStep DEF Next, step
<1> QED
  BY <1>1, <1>2

\* The sector that bread() finds is in the one buffer that has it, or on the disk.
LEMMA ContentsNow ==
  ASSUME BioInv, NEW s \in Sector
  PROVE  /\ \A x \in Buf : sector[x] = s /\ B_VALID \in flags[x] => Contents(s) = data[x]
         /\ (\A x \in Buf : sector[x] = s => B_VALID \notin flags[x]) => Contents(s) = disk[s]
<1>1. \A x, y \in Buf : sector[x] = s /\ sector[y] = s => x = y
  BY NoSectorAssumption DEF BioInv, OneBufferPerSector
<1> QED
  BY <1>1, Zenon DEF Contents

\* The same after the step.
LEMMA ContentsNext ==
  ASSUME BioInv', NEW s \in Sector
  PROVE  /\ \A x \in Buf : sector'[x] = s /\ B_VALID \in flags'[x] => Contents(s)' = data'[x]
         /\ (\A x \in Buf : sector'[x] = s => B_VALID \notin flags'[x])
              => Contents(s)' = disk'[s]
<1>1. \A x, y \in Buf : sector'[x] = s /\ sector'[y] = s => x = y
  BY NoSectorAssumption DEF BioInv, OneBufferPerSector
<1> QED
  BY <1>1, Zenon DEF Contents

\* A step that leaves what is valid and its data alone changes no contents.
LEMMA SameContents ==
  ASSUME BioInv, BioInv', UNCHANGED <<disk, sector, data>>,
         \A x \in Buf : B_VALID \in flags'[x] <=> B_VALID \in flags[x],
         NEW s \in Sector
  PROVE  Contents(s)' = Contents(s)
<1>1. CASE \E x \in Buf : sector[x] = s /\ B_VALID \in flags[x]
  BY <1>1, ContentsNow, ContentsNext
<1>2. CASE ~\E x \in Buf : sector[x] = s /\ B_VALID \in flags[x]
  BY <1>2, ContentsNow, ContentsNext
<1> QED
  BY <1>1, <1>2

\* Recycling a buffer drops nothing that is not on the disk.
LEMMA RecycleContents ==
  ASSUME BioInv, BioInv', NEW p \in Proc, NEW i \in DOMAIN lru, bget_recycle(p, i),
         NEW s \in Sector, Contents(s)' # Contents(s)
  PROVE  Contents(s) = NoData
<1> DEFINE x == lru[i]
<1> USE DEF B_BUSY, B_VALID, B_DIRTY
<1>1. TypeOK /\ x \in Buf
  BY DEF BioInv, OneBufferPerSector, TypeOK
<1>2. /\ sector' = [sector EXCEPT ![x] = want[p]] /\ flags' = [flags EXCEPT ![x] = {B_BUSY}]
      /\ disk' = disk /\ data' = data
      /\ B_DIRTY \notin flags[x] /\ \A y \in Buf : sector[y] # want[p]
  BY DEF bget_recycle, Recyclable, NotCached
<1> HIDE DEF x
<1>3. CASE \E y \in Buf : y # x /\ sector[y] = s /\ B_VALID \in flags[y]
  <2>1. PICK y \in Buf : y # x /\ sector[y] = s /\ B_VALID \in flags[y]
    BY <1>3
  <2>2. sector'[y] = s /\ flags'[y] = flags[y] /\ data'[y] = data[y]
    BY <1>1, <1>2, <2>1 DEF TypeOK
  <2>3. Contents(s) = data[y]
    BY <2>1, ContentsNow, Zenon
  <2>4. Contents(s)' = data'[y]
    BY <2>1, <2>2, ContentsNext, Zenon
  <2> QED
    BY <2>2, <2>3, <2>4
<1>4. CASE sector[x] = s /\ B_VALID \in flags[x]
  <2>1. \A y \in Buf : sector'[y] = s => B_VALID \notin flags'[y]
    <3>1. \A y \in Buf : y # x => sector[y] # s
      BY <1>1, <1>4, NoSectorAssumption DEF BioInv, OneBufferPerSector
    <3> QED
      BY <1>1, <1>2, <1>4, <3>1 DEF TypeOK
  <2>2. Contents(s)' = disk[s] /\ Contents(s) = data[x]
    BY <1>1, <1>2, <1>4, <2>1, ContentsNow, ContentsNext, Zenon
  <2> QED
    BY <1>1, <1>2, <1>4, <2>2 DEF BioInv, CleanInv
<1>5. CASE \A y \in Buf : sector[y] = s => B_VALID \notin flags[y]
  <2>1. \A y \in Buf : sector'[y] = s => B_VALID \notin flags'[y]
    BY <1>1, <1>2, <1>5 DEF TypeOK
  <2>2. Contents(s) = disk[s] /\ Contents(s)' = disk'[s]
    BY <1>5, <2>1, ContentsNow, ContentsNext, Zenon
  <2> QED
    BY <1>2, <2>2
<1> QED
  BY <1>3, <1>4, <1>5

\* The holder changes the contents of the sector it asked for and of no other.
LEMMA WriteContents ==
  ASSUME BioInv, BioInv', NEW p \in Proc, NEW v \in Val, log_write(p, v) \/ bwrite(p, v),
         NEW s \in Sector, Contents(s)' # Contents(s)
  PROVE  pc[p] = "use" /\ want[p] = s
<1> USE DEF B_BUSY, B_VALID, B_DIRTY
<1>1. /\ TypeOK /\ pc[p] = "use" /\ b[p] \in Buf /\ sector[b[p]] = want[p]
      /\ data' = [data EXCEPT ![b[p]] = v]
      /\ flags' = [flags EXCEPT ![b[p]] = @ \cup {B_DIRTY}]
      /\ disk' = disk /\ sector' = sector
  BY DEF BioInv, OneBufferPerSector, Holds, CallInv, log_write, bwrite
<1> SUFFICES ASSUME sector[b[p]] # s PROVE FALSE
  BY <1>1
<1>2. CASE \E x \in Buf : sector[x] = s /\ B_VALID \in flags[x]
  <2>1. PICK x \in Buf : sector[x] = s /\ B_VALID \in flags[x]
    BY <1>2
  <2>2. sector'[x] = s /\ flags'[x] = flags[x] /\ data'[x] = data[x]
    BY <1>1, <2>1 DEF TypeOK
  <2>3. Contents(s) = data[x] /\ Contents(s)' = data'[x]
    BY <2>1, <2>2, ContentsNow, ContentsNext, Zenon
  <2> QED
    BY <2>2, <2>3
<1>3. CASE \A x \in Buf : sector[x] = s => B_VALID \notin flags[x]
  <2>1. \A y \in Buf : sector'[y] = s => B_VALID \notin flags'[y]
    BY <1>1, <1>3 DEF TypeOK
  <2>2. Contents(s) = disk[s] /\ Contents(s)' = disk'[s]
    BY <1>3, <2>1, ContentsNow, ContentsNext, Zenon
  <2> QED
    BY <1>1, <2>2
<1> QED
  BY <1>2, <1>3

\* The disk writes what is in the cache already ...
LEMMA DiskDoneContents ==
  ASSUME BioInv, BioInv', disk_done, NEW s \in Sector
  PROVE  Contents(s)' = Contents(s)
<1> DEFINE x == Head(idequeue)
<1>1. TypeOK /\ x \in Buf /\ sector[x] \in Sector
  BY QueueHead DEF disk_done, BioInv, OneBufferPerSector
<1>2. /\ disk' = IF B_DIRTY \in flags[x] THEN [disk EXCEPT ![sector[x]] = data[x]] ELSE disk
      /\ sector' = sector /\ flags' = flags /\ data' = data
  BY DEF disk_done, bufs
<1> HIDE DEF x
<1>3. CASE \E y \in Buf : sector[y] = s /\ B_VALID \in flags[y]
  <2>1. PICK y \in Buf : sector[y] = s /\ B_VALID \in flags[y]
    BY <1>3
  <2>2. Contents(s) = data[y] /\ Contents(s)' = data'[y]
    BY <1>2, <2>1, ContentsNow, ContentsNext, Zenon
  <2> QED
    BY <1>2, <2>2
<1>4. CASE \A y \in Buf : sector[y] = s => B_VALID \notin flags[y]
  <2>1. B_DIRTY \in flags[x] => sector[x] # s
    BY <1>1, <1>4 DEF BioInv, CleanInv
  <2>2. disk'[s] = disk[s]
    BY <1>1, <1>2, <2>1 DEF TypeOK
  <2>3. Contents(s) = disk[s] /\ Contents(s)' = disk'[s]
    BY <1>2, <1>4, ContentsNow, ContentsNext, Zenon
  <2> QED
    BY <2>2, <2>3
<1> QED
  BY <1>3, <1>4

\* ... and the interrupt completes a read with what is on the disk, or with nothing.
LEMMA IdeintrContents ==
  ASSUME BioInv, BioInv', ideintr, NEW s \in Sector, Contents(s)' # Contents(s)
  PROVE  Contents(s)' = NoData
<1> DEFINE x == Head(idequeue)
<1> USE DEF B_BUSY, B_VALID, B_DIRTY
<1>1. /\ TypeOK /\ x \in Buf /\ sector[x] \in Sector
      /\ B_VALID \in flags[x] => B_DIRTY \in flags[x]
      /\ B_DIRTY \in flags[x] => B_VALID \in flags[x]
  BY QueueHead DEF ideintr, BioInv, OneBufferPerSector, CleanInv
<1>2. /\ \/ B_DIRTY \in flags[x] /\ data' = data
         \/ B_DIRTY \notin flags[x] /\ data' = [data EXCEPT ![x] = disk[sector[x]]]
         \/ B_DIRTY \notin flags[x] /\ data' = [data EXCEPT ![x] = NoData]
      /\ flags' = [flags EXCEPT ![x] = (@ \cup {B_VALID}) \ {B_DIRTY}]
      /\ sector' = sector /\ disk' = disk
  BY DEF ideintr, insl
<1> HIDE DEF x
<1>3. CASE B_DIRTY \in flags[x]
  <2>1. \A y \in Buf : B_VALID \in flags'[y] <=> B_VALID \in flags[y]
    BY <1>1, <1>2, <1>3 DEF TypeOK
  <2> QED
    BY <1>2, <1>3, <2>1, SameContents
<1>4. CASE B_DIRTY \notin flags[x] /\ sector[x] = s
  <2>1. Contents(s)' = data'[x]
    <3>1. sector'[x] = s /\ B_VALID \in flags'[x]
      BY <1>1, <1>2, <1>4 DEF TypeOK
    <3> QED
      BY <1>1, <3>1, ContentsNext, Zenon
  <2>2. Contents(s) = disk[s]
    <3>1. \A y \in Buf : sector[y] = s => y = x
      BY <1>1, <1>4, NoSectorAssumption DEF BioInv, OneBufferPerSector
    <3>2. \A y \in Buf : sector[y] = s => B_VALID \notin flags[y]
      BY <1>1, <1>4, <3>1
    <3> QED
      BY <3>2, ContentsNow, Zenon
  <2> QED
    BY <1>1, <1>2, <1>4, <2>1, <2>2 DEF TypeOK
<1>5. CASE B_DIRTY \notin flags[x] /\ sector[x] # s
  <2>1. \A y \in Buf : y # x => flags'[y] = flags[y] /\ data'[y] = data[y]
    BY <1>1, <1>2 DEF TypeOK
  <2>2. CASE \E y \in Buf : sector[y] = s /\ B_VALID \in flags[y]
    <3>1. PICK y \in Buf : sector[y] = s /\ B_VALID \in flags[y]
      BY <2>2
    <3>2. sector'[y] = s /\ flags'[y] = flags[y] /\ data'[y] = data[y]
      BY <1>2, <1>5, <2>1, <3>1
    <3>3. Contents(s) = data[y] /\ Contents(s)' = data'[y]
      BY <3>1, <3>2, ContentsNow, ContentsNext, Zenon
    <3> QED
      BY <3>2, <3>3
  <2>3. CASE \A y \in Buf : sector[y] = s => B_VALID \notin flags[y]
    <3>1. \A y \in Buf : sector'[y] = s => B_VALID \notin flags'[y]
      BY <1>2, <1>5, <2>1, <2>3
    <3>2. Contents(s) = disk[s] /\ Contents(s)' = disk'[s]
      BY <2>3, <3>1, ContentsNow, ContentsNext, Zenon
    <3> QED
      BY <1>2, <3>2
  <2> QED
    BY <2>2, <2>3
<1> QED
  BY <1>3, <1>4, <1>5

\* For any number of processes, buffers and sectors.
THEOREM BioInvariance == Spec => []BioInv
  BY InitBio, NextBio, PTL DEF Spec

\* bget() gives a sector to one process at a time, in one buffer.
THEOREM SectorsAreExclusive == Spec => []OneBufferPerSector
<1>1. BioInv => OneBufferPerSector
  BY DEF BioInv
<1> QED
  BY <1>1, BioInvariance, PTL

\* iderw() and ideintr() keep the queue and the disk in step, and iderw() never panics.
THEOREM QueueIsSound == Spec => []QueueSound
<1>1. BioInv => QueueSound
  BY DEF BioInv
<1> QED
  BY <1>1, BioInvariance, PTL

\* No step of the cache or of the driver changes what bread() returns, except a write by
\* the holder or a read that failed.
THEOREM CacheIsTransparent == Spec => ContentsChangeOnlyByHolder
<1> DEFINE A == \A s \in Sector : Contents(s)' # Contents(s) =>
                  \/ \E p \in Proc : pc[p] = "use" /\ want[p] = s
                  \/ NoData \in {Contents(s), Contents(s)'}
<1>1. ASSUME BioInv, BioInv', Next PROVE A
  <2> SUFFICES ASSUME NEW s \in Sector, Contents(s)' # Contents(s)
               PROVE  \/ \E p \in Proc : pc[p] = "use" /\ want[p] = s
                      \/ NoData \in {Contents(s), Contents(s)'}
    OBVIOUS
  <2>1. ASSUME NEW p \in Proc, NEW t \in Sector, bread(p, t) PROVE FALSE
    BY <1>1, <2>1, SameContents DEF bread, bufs
  <2>2. ASSUME NEW p \in Proc, NEW x \in Buf, bget_hit(p, x) \/ bget_sleep(p, x) PROVE FALSE
    <3>1. /\ UNCHANGED <<disk, sector, data>>
          /\ flags' = flags \/ flags' = [flags EXCEPT ![x] = @ \cup {B_BUSY}]
      BY <2>2 DEF bget_hit, bget_sleep, bufs
    <3>2. flags \in [Buf -> SUBSET {B_BUSY, B_VALID, B_DIRTY}]
      BY <1>1 DEF BioInv, OneBufferPerSector, TypeOK
    <3>3. \A y \in Buf : B_VALID \in flags'[y] <=> B_VALID \in flags[y]
      BY <3>1, <3>2 DEF B_BUSY, B_VALID
    <3> QED
      BY <1>1, <3>1, <3>3, SameContents
  <2>3. ASSUME NEW p \in Proc, bget_panic(p) \/ iderw(p) PROVE FALSE
    BY <1>1, <2>3, SameContents DEF bget_panic, iderw, bufs
  <2>4. ASSUME NEW p \in Proc, brelse(p) PROVE FALSE
    <3>1. /\ UNCHANGED <<disk, sector, data>>
          /\ flags' = [flags EXCEPT ![b[p]] = @ \ {B_BUSY}]
      BY <2>4 DEF brelse
    <3>2. flags \in [Buf -> SUBSET {B_BUSY, B_VALID, B_DIRTY}]
      BY <1>1 DEF BioInv, OneBufferPerSector, TypeOK
    <3>3. \A y \in Buf : B_VALID \in flags'[y] <=> B_VALID \in flags[y]
      BY <3>1, <3>2 DEF B_BUSY, B_VALID
    <3> QED
      BY <1>1, <3>1, <3>3, SameContents
  <2>5. ASSUME NEW p \in Proc, NEW i \in DOMAIN lru, bget_recycle(p, i)
        PROVE  Contents(s) = NoData
    BY <1>1, <2>5, RecycleContents
  <2>6. ASSUME NEW p \in Proc, NEW v \in Val, log_write(p, v) \/ bwrite(p, v)
        PROVE  pc[p] = "use" /\ want[p] = s
    BY <1>1, <2>6, WriteContents
  <2>7. CASE disk_done
    BY <1>1, <2>7, DiskDoneContents
  <2>8. CASE ideintr
    BY <1>1, <2>8, IdeintrContents
  <2> QED
    BY <1>1, <2>1, <2>2, <2>3, <2>4, <2>5, <2>6, <2>7, <2>8 DEF Next, step
<1>2. BioInv /\ BioInv' /\ [Next]_vars => [A]_vars
  BY <1>1
<1> QED
  BY <1>2, BioInvariance, PTL DEF Spec, ContentsChangeOnlyByHolder
=============================================================================
