-------------------------------- MODULE Log --------------------------------
(***************************************************************************)
(* The write-ahead log of log.c over the buffer cache and the disk, with   *)
(* power loss between any two disk writes and recovery at boot.            *)
(*                                                                         *)
(* One write of one sector is atomic (external: the disk).  The cache is   *)
(* modelled for home sectors only: log.c rewrites a log block or the       *)
(* header and bwrite()s it under one B_BUSY hold, so the cached copy of    *)
(* those always equals the disk's.  Which clean buffer bget() recycles,    *)
(* and when, is left open.                                                 *)
(***************************************************************************)
EXTENDS Naturals, Sequences

CONSTANTS Proc,       \* processes that run file system calls
          Block,      \* home sectors
          Val,        \* contents of a sector
          LogCap,     \* blocks a transaction may log: min(LOGSIZE, log.size-1)
          NotCached,  \* the sector is in no buffer
          NoBlock     \* the process holds no buffer

ASSUME LogCapAssumption == LogCap \in Nat \ {0}
ASSUME NotCachedAssumption == NotCached \notin Val
ASSUME NoBlockAssumption == NoBlock \notin Block

VARIABLES
  disk,    \* on disk: contents of the home sectors
  logblk,  \* on disk: contents of the log blocks log.start+1 ...
  head,    \* on disk: the header block, as the sequence sector[0..n-1]
  cache,   \* b->data of the buffer of each home sector, or NotCached
  dirty,   \* home sectors whose buffer has B_DIRTY set
  lh,      \* log.lh, as the sequence sector[0..n-1]
  busy,    \* log.busy
  tail,    \* install_trans()'s loop variable, counted from 1
  held,    \* the buffer that a process has modified and not yet logged
  pc,      \* where each process is
  boot     \* off, then install (in initlog()), then up; or panic

diskVars == <<disk, logblk, head>>
vars == <<disk, logblk, head, cache, dirty, lh, busy, tail, held, pc, boot>>

\* Program counters of a process that has log.busy to itself.
InTrans == {"trans", "hold", "commit", "install", "release"}
Pcs == {"idle", "asleep", "woken"} \cup InTrans
Boots == {"off", "install", "up", "panic"}

Empty == [b \in Block |-> NotCached]

TypeOK ==
  /\ disk \in [Block -> Val]
  /\ logblk \in [1..LogCap -> Val]
  /\ head \in Seq(Block) /\ Len(head) <= LogCap
  /\ cache \in [Block -> Val \cup {NotCached}]
  /\ dirty \subseteq Block
  /\ lh \in Seq(Block) /\ Len(lh) <= LogCap
  /\ busy \in BOOLEAN
  /\ tail \in 1..(LogCap + 1)
  /\ held \in Block \cup {NoBlock}
  /\ pc \in [Proc -> Pcs]
  /\ boot \in Boots

\* mkfs zeroes the log; the contents of the other sectors are arbitrary.
Init ==
  /\ disk \in [Block -> Val]
  /\ logblk \in [1..LogCap -> Val]
  /\ head = <<>>
  /\ cache = Empty
  /\ dirty = {}
  /\ lh = <<>>
  /\ busy = FALSE
  /\ tail = 1
  /\ held = NoBlock
  /\ pc = [p \in Proc |-> "idle"]
  /\ boot = "off"
-----------------------------------------------------------------------------
(***************************************************************************)
(* The buffer cache.                                                       *)
(***************************************************************************)

\* What a bread(b) returns.
View(b) == IF cache[b] = NotCached THEN disk[b] ELSE cache[b]

\* bread() of a sector that is in no buffer reads it from the disk.
bread(b) ==
  /\ boot = "up"
  /\ cache[b] = NotCached
  /\ cache' = [cache EXCEPT ![b] = disk[b]]
  /\ UNCHANGED <<diskVars, dirty, lh, busy, tail, held, pc, boot>>

\* bget() takes a buffer that is neither B_BUSY nor B_DIRTY for a sector of
\* somebody else's.
bget(b) ==
  /\ boot \in {"up", "install"}
  /\ cache[b] # NotCached
  /\ b \notin dirty /\ b # held
  /\ cache' = [cache EXCEPT ![b] = NotCached]
  /\ UNCHANGED <<diskVars, dirty, lh, busy, tail, held, pc, boot>>
-----------------------------------------------------------------------------
(***************************************************************************)
(* Transactions.                                                           *)
(***************************************************************************)

\* Mutation: the header never reaches the disk.
write_head_lost(h) == head' = head

\* Both read_head() and write_head() copy the whole header.
write_head(h) == head' = h

\* One iteration of install_trans()'s loop: copy log block tail to its home
\* buffer and bwrite() it, which clears B_DIRTY.
install_trans ==
  /\ tail <= Len(lh)
  /\ LET b == lh[tail] IN
       /\ cache' = [cache EXCEPT ![b] = logblk[tail]]
       /\ disk' = [disk EXCEPT ![b] = logblk[tail]]
       /\ dirty' = dirty \ {b}
  /\ tail' = tail + 1
  /\ UNCHANGED <<logblk, head, lh, busy, held, pc, boot>>

\* begin_trans(): take log.busy, or sleep on &log until a commit.
begin_trans(p) ==
  /\ boot = "up"
  /\ pc[p] \in {"idle", "woken"}
  /\ pc' = [pc EXCEPT ![p] = IF busy THEN "asleep" ELSE "trans"]
  /\ busy' = TRUE
  /\ UNCHANGED <<diskVars, cache, dirty, lh, tail, held, boot>>

\* A system call in its transaction: bp = bread(b), then modify bp->data.
Modify(p, b, v) ==
  /\ boot = "up"
  /\ pc[p] = "trans"
  /\ pc' = [pc EXCEPT ![p] = "hold"]
  /\ held' = b
  /\ cache' = [cache EXCEPT ![b] = v]
  /\ UNCHANGED <<diskVars, dirty, lh, busy, tail, boot>>

TooBig == Len(lh) >= LogCap

\* Mutation: B_DIRTY is not set, so the buffer may be recycled before the commit.
pin_missing(b) == dirty' = dirty

\* b->flags |= B_DIRTY: bget() will not recycle the buffer.
pin(b) == dirty' = dirty \cup {b}

\* log_write(bp), brelse(bp).  The capacity is tested before the search for
\* the sector among those already logged (absorption).
log_write(p) ==
  /\ boot = "up"
  /\ pc[p] = "hold"
  /\ ~TooBig
  /\ LET known == { i \in DOMAIN lh : lh[i] = held }
         i == IF known = {} THEN Len(lh) + 1 ELSE CHOOSE k \in known : TRUE
     IN /\ logblk' = [logblk EXCEPT ![i] = cache[held]]
        /\ lh' = IF known = {} THEN Append(lh, held) ELSE lh
  /\ pin(held)
  /\ held' = NoBlock
  /\ pc' = [pc EXCEPT ![p] = "trans"]
  /\ UNCHANGED <<disk, head, cache, busy, tail, boot>>

\* panic("too big a transaction"): every CPU stops.
panic(p) ==
  /\ boot = "up"
  /\ pc[p] = "hold"
  /\ TooBig
  /\ boot' = "panic"
  /\ UNCHANGED <<diskVars, cache, dirty, lh, busy, tail, held, pc>>

\* commit_trans() is called; with nothing logged it goes straight to the
\* release of log.busy.
commit_trans(p) ==
  /\ boot = "up"
  /\ pc[p] = "trans"
  /\ pc' = [pc EXCEPT ![p] = IF Len(lh) > 0 THEN "commit" ELSE "release"]
  /\ UNCHANGED <<diskVars, cache, dirty, lh, busy, tail, held, boot>>

\* The first write_head(): the real commit.
commit_head(p) ==
  /\ boot = "up"
  /\ pc[p] = "commit"
  /\ write_head(lh)
  /\ tail' = 1
  /\ pc' = [pc EXCEPT ![p] = "install"]
  /\ UNCHANGED <<disk, logblk, cache, dirty, lh, busy, held, boot>>

commit_install(p) ==
  /\ boot = "up"
  /\ pc[p] = "install"
  /\ install_trans

\* log.lh.n = 0 and the second write_head(): erase the transaction.
commit_erase(p) ==
  /\ boot = "up"
  /\ pc[p] = "install"
  /\ tail > Len(lh)
  /\ lh' = <<>>
  /\ write_head(<<>>)
  /\ pc' = [pc EXCEPT ![p] = "release"]
  /\ UNCHANGED <<disk, logblk, cache, dirty, busy, tail, held, boot>>

\* Mutation: nobody is woken.
wakeup_lost(q) == pc[q]

\* wakeup(&log): where process q is after it.
wakeup(q) == IF pc[q] = "asleep" THEN "woken" ELSE pc[q]

\* log.busy = 0 and wakeup(&log), under log.lock.
commit_release(p) ==
  /\ boot = "up"
  /\ pc[p] = "release"
  /\ busy' = FALSE
  /\ pc' = [q \in Proc |-> IF q = p THEN "idle" ELSE wakeup(q)]
  /\ UNCHANGED <<diskVars, cache, dirty, lh, tail, held, boot>>
-----------------------------------------------------------------------------
(***************************************************************************)
(* Power loss, and initlog() at the next boot: recover_from_log() runs in  *)
(* the first process before any other exists.                              *)
(***************************************************************************)

crash ==
  /\ boot' = "off"
  /\ cache' = Empty
  /\ dirty' = {}
  /\ lh' = <<>>
  /\ busy' = FALSE
  /\ tail' = 1
  /\ held' = NoBlock
  /\ pc' = [p \in Proc |-> "idle"]
  /\ UNCHANGED diskVars

read_head ==
  /\ boot = "off"
  /\ lh' = head
  /\ tail' = 1
  /\ boot' = "install"
  /\ UNCHANGED <<diskVars, cache, dirty, busy, held, pc>>

recover_install ==
  /\ boot = "install"
  /\ install_trans

recover_erase ==
  /\ boot = "install"
  /\ tail > Len(lh)
  /\ lh' = <<>>
  /\ write_head(<<>>)
  /\ boot' = "up"
  /\ UNCHANGED <<disk, logblk, cache, dirty, busy, tail, held, pc>>

step(p) ==
  \/ begin_trans(p)
  \/ \E b \in Block, v \in Val : Modify(p, b, v)
  \/ log_write(p)
  \/ panic(p)
  \/ commit_trans(p)
  \/ commit_head(p)
  \/ commit_install(p)
  \/ commit_erase(p)
  \/ commit_release(p)

initlog == read_head \/ recover_install \/ recover_erase

Next ==
  \/ \E p \in Proc : step(p)
  \/ \E b \in Block : bread(b) \/ bget(b)
  \/ initlog
  \/ crash

Spec == Init /\ [][Next]_vars

(***************************************************************************)
(* A process that can run is run (the scheduler is round robin) and a      *)
(* system call makes finitely many writes before it commits, so the commit *)
(* is not put off for ever although it is disabled while a buffer is held. *)
(* Nothing forces a process to start a transaction.                        *)
(***************************************************************************)
Fairness ==
  /\ \A p \in Proc :
       /\ WF_vars(pc[p] = "woken" /\ begin_trans(p))
       /\ WF_vars(log_write(p) \/ panic(p))
       /\ SF_vars(commit_trans(p))
       /\ WF_vars(commit_head(p) \/ commit_install(p) \/ commit_erase(p))
       /\ WF_vars(commit_release(p))
  /\ WF_vars(initlog)

FairSpec == Spec /\ Fairness
-----------------------------------------------------------------------------
(***************************************************************************)
(* The refinement mapping.  `Recovered' is what recover_from_log() would   *)
(* leave on the disk if the power went now: the home sectors overlaid with *)
(* the log blocks that the header on disk names.                           *)
(***************************************************************************)
Recovered ==
  [b \in Block |-> IF \E i \in DOMAIN head : head[i] = b
                   THEN logblk[CHOOSE i \in DOMAIN head : head[i] = b]
                   ELSE disk[b]]

Current ==
  IF boot \in {"up", "panic"} THEN [b \in Block |-> View(b)] ELSE Recovered

PhaseOf(c) ==
  CASE c \in {"trans", "hold", "commit"} -> "open"
    [] c \in {"install", "release"} -> "done"
    [] OTHER -> "idle"

Device ==
  INSTANCE AtomicDisk WITH
    stable <- Recovered,
    cur <- Current,
    phase <- [p \in Proc |-> PhaseOf(pc[p])]

\* The logging layer implements the atomic block device: transactions are
\* serial, a crash at any point (also during recovery) leaves all of a
\* transaction's writes or none, what commit_trans() returned from is
\* durable, and bread() always returns the latest write.
AtomicTransactions == Device!Spec

\* No lost wakeup in begin_trans(): a process sleeps on &log only while
\* another process is in a transaction, whose commit will wake it.
SleeperHasWaker ==
  \A p \in Proc : pc[p] = "asleep" => \E q \in Proc : pc[q] \in InTrans

\* begin_trans() does not leave a process asleep for ever, unless the kernel
\* panics over another process's transaction.
SleeperIsWoken ==
  \A p \in Proc : pc[p] = "asleep" ~> pc[p] # "asleep" \/ boot = "panic"
-----------------------------------------------------------------------------
(***************************************************************************)
(* The inductive invariant behind AtomicTransactions, in five parts.       *)
(***************************************************************************)
Injective(s) == \A i, j \in DOMAIN s : s[i] = s[j] => i = j

Running == boot \in {"up", "panic"}

\* log.busy is a lock: one process at a time is between begin_trans() and
\* commit_trans(), and only that one holds a modified buffer.
OwnerInv ==
  /\ ~Running => /\ \A p \in Proc : pc[p] = "idle"
                 /\ ~busy
                 /\ held = NoBlock
  /\ busy <=> \E p \in Proc : pc[p] \in InTrans
  /\ \A p, q \in Proc : pc[p] \in InTrans /\ pc[q] \in InTrans => p = q
  /\ held # NoBlock <=> \E p \in Proc : pc[p] = "hold"

\* A buffer that nobody is changing and that is not pinned by B_DIRTY agrees
\* with the disk, so bget() may recycle it.
CleanInv ==
  /\ \A b \in Block : b \notin dirty /\ b # held /\ cache[b] # NotCached
                        => cache[b] = disk[b]
  /\ held # NoBlock => cache[held] # NotCached

\* Before its commit a transaction is in the cache, pinned, and in the log
\* blocks; the header on disk names none of it.
OpenInv ==
  (\E p \in Proc : pc[p] \in {"trans", "hold", "commit"}) =>
    /\ head = <<>>
    /\ dirty = { lh[i] : i \in DOMAIN lh }
    /\ \A i \in DOMAIN lh : /\ cache[lh[i]] # NotCached
                            /\ lh[i] # held => cache[lh[i]] = logblk[i]

\* From its commit to the erasure of the header, in commit_trans() or at the
\* next boot, the blocks before `tail' are installed and the others are
\* still safe in the log.
InstallInv ==
  /\ (boot = "install" \/ \E p \in Proc : pc[p] = "install") =>
       /\ head = lh
       /\ tail <= Len(lh) + 1
       /\ \A i \in DOMAIN lh : i < tail => disk[lh[i]] = logblk[i]
  /\ (\E p \in Proc : pc[p] = "install") =>
       /\ dirty = { lh[i] : i \in { j \in DOMAIN lh : j >= tail } }
       /\ \A i \in DOMAIN lh : i >= tail => cache[lh[i]] = logblk[i]

\* Outside of a transaction log, header and B_DIRTY pins are empty.
QuietInv ==
  /\ ~Running => dirty = {}
  /\ boot = "off" => lh = <<>> /\ cache = Empty
  /\ Running /\ (\A p \in Proc : pc[p] \notin InTrans \ {"release"}) =>
       lh = <<>> /\ head = <<>> /\ dirty = {}

\* Log, cache and disk agree about every block at every point of a commit
\* and of a recovery.
LogInv ==
  /\ TypeOK
  /\ Injective(head) /\ Injective(lh)
  /\ OwnerInv
  /\ CleanInv
  /\ OpenInv
  /\ InstallInv
  /\ QuietInv
=============================================================================
