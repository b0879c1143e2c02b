--------------------------------- MODULE Bio ---------------------------------
(***************************************************************************)
(* The buffer cache (bio.c) over the IDE driver (ide.c) and the disk.      *)
(*                                                                         *)
(* bget() and brelse() run under bcache.lock, the queue operations of      *)
(* iderw() and ideintr() under idelock: each is a step.  The disk is       *)
(* external: it executes the one command that idestart() gave it and then  *)
(* raises an interrupt.                                                    *)
(***************************************************************************)
EXTENDS Integers, Sequences, FiniteSets

CONSTANTS Proc, Sector, Val,
          NBUF,
          NoSector,   \* dev = -1: the buffer has not been used yet
          NoBuf,
          NoData,     \* what a buffer has before a read, or after one that failed
          MaxDirty    \* buffers that log_write() may leave pinned by B_DIRTY

\* bcache.buf
Buf == 0 .. NBUF - 1

ASSUME NBUFAssumption == NBUF \in Nat
ASSUME NoSectorAssumption == NoSector \notin Sector
ASSUME NoBufAssumption == NoBuf \notin Buf
ASSUME NoDataAssumption == NoData \notin Val

VARIABLES
  disk,      \* contents of the sectors
  dev,       \* the disk: idle, busy with the head of idequeue, or done
  sector, flags, data,  \* fields of struct buf
  lru,       \* the list from bcache.head: most recently used first
  idequeue,
  pc,        \* idle, bget, asleep (in bget), iderw, disk (asleep in iderw),
             \* use (has the buffer)
  want,      \* the sector bread() was called for
  b,         \* the buffer of bget()
  panicked

bufs == <<sector, flags, data>>
vars == <<disk, dev, sector, flags, data, lru, idequeue, pc, want, b, panicked>>

B_BUSY == "B_BUSY"
B_VALID == "B_VALID"
B_DIRTY == "B_DIRTY"

HasEachOnce(l) ==
  /\ \A x \in Buf : \E i \in DOMAIN l : l[i] = x
  /\ \A i, j \in DOMAIN l : l[i] = l[j] => i = j

TypeOK ==
  /\ disk \in [Sector -> Val]
  /\ dev \in {"idle", "busy", "done"}
  /\ sector \in [Buf -> Sector \cup {NoSector}]
  /\ flags \in [Buf -> SUBSET {B_BUSY, B_VALID, B_DIRTY}]
  /\ data \in [Buf -> Val \cup {NoData}]
  /\ lru \in Seq(Buf) /\ HasEachOnce(lru)
  /\ idequeue \in Seq(Buf)
  /\ pc \in [Proc -> {"idle", "bget", "asleep", "iderw", "disk", "use"}]
  /\ want \in [Proc -> Sector \cup {NoSector}]
  /\ b \in [Proc -> Buf \cup {NoBuf}]
  /\ panicked \in BOOLEAN

\* binit() links each buffer in at the head of the list.
Init ==
  /\ disk \in [Sector -> Val]
  /\ dev = "idle"
  /\ sector = [x \in Buf |-> NoSector]
  /\ flags = [x \in Buf |-> {}]
  /\ data = [x \in Buf |-> NoData]
  /\ lru = [i \in 1 .. NBUF |-> NBUF - i]
  /\ idequeue = <<>>
  /\ pc = [p \in Proc |-> "idle"]
  /\ want = [p \in Proc |-> NoSector]
  /\ b = [p \in Proc |-> NoBuf]
  /\ panicked = FALSE

Go(p, l) == pc' = [pc EXCEPT ![p] = l]

\* Mutation: nobody is woken.
wakeup_lost(x, f) == pc

\* wakeup(x): x is the channel of both sleeps, in bget() and in iderw().  The
\* first scans again, the second tests the flags f that x has now.
wakeup(x, f) ==
  [q \in Proc |-> IF b[q] = x /\ pc[q] = "asleep" THEN "bget"
                  ELSE IF b[q] = x /\ pc[q] = "disk" /\ B_VALID \in f /\ B_DIRTY \notin f
                  THEN "use" ELSE pc[q]]
-----------------------------------------------------------------------------
(***************************************************************************)
(* bio.c                                                                   *)
(***************************************************************************)

bread(p, s) ==
  /\ pc[p] = "idle"
  /\ Go(p, "bget")
  /\ want' = [want EXCEPT ![p] = s]
  /\ UNCHANGED <<disk, dev, bufs, lru, idequeue, b, panicked>>

\* The sector is cached and its buffer not busy: take it.  bread() reads it
\* from the disk unless it is B_VALID.
bget_hit(p, x) ==
  /\ pc[p] = "bget"
  /\ sector[x] = want[p]
  /\ B_BUSY \notin flags[x]
  /\ flags' = [flags EXCEPT ![x] = @ \cup {B_BUSY}]
  /\ b' = [b EXCEPT ![p] = x]
  /\ Go(p, IF B_VALID \in flags[x] THEN "use" ELSE "iderw")
  /\ UNCHANGED <<disk, dev, sector, data, lru, idequeue, want, panicked>>

\* The sector is cached and its buffer busy: sleep, then scan again from loop.
bget_sleep(p, x) ==
  /\ pc[p] = "bget"
  /\ sector[x] = want[p]
  /\ B_BUSY \in flags[x]
  /\ b' = [b EXCEPT ![p] = x]
  /\ Go(p, "asleep")
  /\ UNCHANGED <<disk, dev, bufs, lru, idequeue, want, panicked>>

NotCached(s) == \A x \in Buf : sector[x] # s

\* Mutations: a busy buffer, or a dirty one, is recycled.
Recyclable_busy(x) == B_DIRTY \notin flags[x]
Recyclable_dirty(x) == B_BUSY \notin flags[x]

Recyclable(x) == B_BUSY \notin flags[x] /\ B_DIRTY \notin flags[x]

\* Not cached: recycle the least recently used buffer that is neither busy nor
\* dirty.
bget_recycle(p, i) ==
  /\ pc[p] = "bget"
  /\ NotCached(want[p])
  /\ Recyclable(lru[i])
  /\ \A j \in i + 1 .. Len(lru) : ~Recyclable(lru[j])
  /\ sector' = [sector EXCEPT ![lru[i]] = want[p]]
  /\ flags' = [flags EXCEPT ![lru[i]] = {B_BUSY}]
  /\ b' = [b EXCEPT ![p] = lru[i]]
  /\ Go(p, "iderw")
  /\ UNCHANGED <<disk, dev, data, lru, idequeue, want, panicked>>

\* panic("bget: no buffers")
bget_panic(p) ==
  /\ pc[p] = "bget"
  /\ NotCached(want[p])
  /\ \A x \in Buf : ~Recyclable(x)
  /\ panicked' = TRUE
  /\ UNCHANGED <<disk, dev, bufs, lru, idequeue, pc, want, b>>

\* The holder changes b->data and calls log_write(): the buffer stays dirty, which
\* pins it, until a later bwrite().  Bound: MaxDirty.
log_write(p, v) ==
  /\ pc[p] = "use"
  /\ data' = [data EXCEPT ![b[p]] = v]
  /\ Cardinality({ x \in Buf : B_DIRTY \in flags[x] } \cup {b[p]}) <= MaxDirty
  /\ flags' = [flags EXCEPT ![b[p]] = @ \cup {B_DIRTY}]
  /\ UNCHANGED <<disk, dev, sector, lru, idequeue, pc, want, b, panicked>>

\* The holder changes b->data and calls bwrite().
bwrite(p, v) ==
  /\ pc[p] = "use"
  /\ data' = [data EXCEPT ![b[p]] = v]
  /\ flags' = [flags EXCEPT ![b[p]] = @ \cup {B_DIRTY}]
  /\ Go(p, "iderw")
  /\ UNCHANGED <<disk, dev, sector, lru, idequeue, want, b, panicked>>

\* Unlink x from the list and put it after bcache.head: those before it move back.
MoveToHead(x) ==
  LET k == CHOOSE i \in DOMAIN lru : lru[i] = x
  IN [i \in DOMAIN lru |-> IF i = 1 THEN x ELSE IF i <= k THEN lru[i - 1] ELSE lru[i]]

brelse(p) ==
  /\ pc[p] = "use"
  /\ lru' = MoveToHead(b[p])
  /\ flags' = [flags EXCEPT ![b[p]] = @ \ {B_BUSY}]
  /\ pc' = [wakeup(b[p], flags[b[p]]) EXCEPT ![p] = "idle"]
  /\ want' = [want EXCEPT ![p] = NoSector]
  /\ b' = [b EXCEPT ![p] = NoBuf]
  /\ UNCHANGED <<disk, dev, sector, data, idequeue, panicked>>
-----------------------------------------------------------------------------
(***************************************************************************)
(* ide.c                                                                   *)
(***************************************************************************)

\* Mutation: the disk is not started for the first request.
Start_missing == dev

Start == IF idequeue = <<>> THEN "busy" ELSE dev

\* Append to idequeue, start the disk if the queue was empty, and sleep.
iderw(p) ==
  /\ pc[p] = "iderw"
  /\ idequeue' = Append(idequeue, b[p])
  /\ dev' = Start
  /\ Go(p, "disk")
  /\ UNCHANGED <<disk, bufs, lru, want, b, panicked>>

\* The disk executes the command for the head of the queue (external).  The data
\* of a write left the buffer in idestart(); its holder sleeps until the
\* interrupt, so they are still those of the buffer.
disk_done ==
  /\ dev = "busy"
  /\ dev' = "done"
  /\ LET x == Head(idequeue) IN
       disk' = IF B_DIRTY \in flags[x] THEN [disk EXCEPT ![sector[x]] = data[x]] ELSE disk
  /\ UNCHANGED <<bufs, lru, idequeue, pc, want, b, panicked>>

insl(x) == [data EXCEPT ![x] = disk[sector[x]]]

\* The interrupt: take the head off the queue, fetch the data of a read unless
\* the disk reports an error, mark it done, wake its process, start the next.
\* (With an empty queue the handler returns at once.)
ideintr ==
  /\ dev = "done"
  /\ LET x == Head(idequeue) IN
       /\ idequeue' = Tail(idequeue)
       /\ \/ data' = IF B_DIRTY \in flags[x] THEN data ELSE insl(x)
          \/ B_DIRTY \notin flags[x] /\ data' = [data EXCEPT ![x] = NoData]
       /\ flags' = [flags EXCEPT ![x] = (@ \cup {B_VALID}) \ {B_DIRTY}]
       /\ pc' = wakeup(x, flags'[x])
  /\ dev' = IF Len(idequeue) > 1 THEN "busy" ELSE "idle"
  /\ UNCHANGED <<disk, sector, lru, want, b, panicked>>
-----------------------------------------------------------------------------
step(p) ==
  \/ \E x \in Buf : bget_hit(p, x) \/ bget_sleep(p, x)
  \/ \E i \in DOMAIN lru : bget_recycle(p, i)
  \/ bget_panic(p)
  \/ iderw(p)
  \/ brelse(p)

Next ==
  /\ ~panicked
  /\ \/ \E p \in Proc : \/ step(p)
                        \/ \E s \in Sector : bread(p, s)
                        \/ \E v \in Val : log_write(p, v) \/ bwrite(p, v)
     \/ disk_done
     \/ ideintr

Spec == Init /\ [][Next]_vars

\* The disk answers, and a process that has a buffer lets go of it.
FairSpec == Spec /\ WF_vars(disk_done) /\ WF_vars(ideintr)
                 /\ \A p \in Proc : WF_vars(iderw(p)) /\ SF_vars(brelse(p))
-----------------------------------------------------------------------------
Holds(p) == pc[p] \in {"iderw", "disk", "use"}

\* A sector is in one buffer at most, and B_BUSY means that exactly one process has
\* the buffer, with the sector it asked for, also after a process slept for a buffer
\* that was recycled meanwhile: so panic("bget: no buffers") means what it says.
OneBufferPerSector ==
  /\ TypeOK
  /\ \A x, y \in Buf : sector[x] = sector[y] /\ sector[x] # NoSector => x = y
  /\ \A p, q \in Proc : Holds(p) /\ Holds(q) /\ b[p] = b[q] => p = q
  /\ \A p \in Proc : Holds(p) => sector[b[p]] = want[p]
  /\ \A x \in Buf : B_BUSY \in flags[x] <=> \E p \in Proc : Holds(p) /\ b[p] = x

\* What a bread(s) would return.
Contents(s) ==
  IF \E x \in Buf : sector[x] = s /\ B_VALID \in flags[x]
  THEN data[CHOOSE x \in Buf : sector[x] = s /\ B_VALID \in flags[x]]
  ELSE disk[s]

\* Recycling, queueing and disk traffic never change what bread(s) returns: only
\* a process that has the buffer of s does, or a read of s that the disk failed,
\* which leaves the buffer as it was (NoData).
ContentsChangeOnlyByHolder ==
  [][\A s \in Sector : Contents(s)' # Contents(s) =>
       \/ \E p \in Proc : pc[p] = "use" /\ want[p] = s
       \/ NoData \in {Contents(s), Contents(s)'}]_vars

\* ide.c:22 "idequeue points to the buf now being read/written to the disk": the
\* queue holds each waiting request once, the disk works whenever there is one,
\* and none of iderw()'s panics can happen.
QueueSound ==
  /\ \A i, j \in DOMAIN idequeue : idequeue[i] = idequeue[j] => i = j
  /\ \A i \in DOMAIN idequeue : \E p \in Proc : pc[p] = "disk" /\ b[p] = idequeue[i]
  /\ \A p \in Proc : pc[p] = "disk" => \E i \in DOMAIN idequeue : idequeue[i] = b[p]
  /\ dev = "idle" <=> idequeue = <<>>
  /\ \A p \in Proc : pc[p] \in {"iderw", "disk"} =>
       ~(B_VALID \in flags[b[p]] /\ B_DIRTY \notin flags[b[p]])

\* Nobody waits for ever: a request for the disk is answered whatever else is
\* queued, and a process asleep in bget() scans again, since the holder of the
\* buffer returns it even if it waits for the disk first; unless a bget() that
\* finds every buffer busy or dirty stops the system.
WaiterGoesOn ==
  \A p \in Proc : pc[p] \in {"asleep", "iderw", "disk"}
                   ~> pc[p] \in {"bget", "use"} \/ panicked
-----------------------------------------------------------------------------
(***************************************************************************)
(* The inductive invariant behind OneBufferPerSector, QueueSound and       *)
(* ContentsChangeOnlyByHolder.                                             *)
(***************************************************************************)

\* Where a process is in bget() or iderw() says what it has.
CallInv ==
  \A p \in Proc : /\ pc[p] # "idle" => want[p] \in Sector
                  /\ pc[p] \notin {"idle", "bget"} => b[p] \in Buf
                  /\ pc[p] = "use" => B_VALID \in flags[b[p]]

\* A valid buffer that is not dirty agrees with the disk (unless the read failed), and
\* a dirty one is valid: recycling a buffer loses nothing.
CleanInv ==
  \A x \in Buf :
    /\ B_DIRTY \in flags[x] => B_VALID \in flags[x] /\ data[x] \in Val
    /\ B_VALID \in flags[x] => sector[x] \in Sector
    /\ B_VALID \in flags[x] /\ B_DIRTY \notin flags[x] => data[x] \in {disk[sector[x]], NoData}

\* Once the disk has executed a write, and until the interrupt, it has the data.
WrittenInv ==
  dev = "done" /\ B_DIRTY \in flags[Head(idequeue)]
    => disk[sector[Head(idequeue)]] = data[Head(idequeue)]

BioInv ==
  /\ OneBufferPerSector
  /\ QueueSound
  /\ CallInv
  /\ CleanInv
  /\ WrittenInv
=============================================================================
