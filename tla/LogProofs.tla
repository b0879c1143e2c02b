----------------------------- MODULE LogProofs -----------------------------
(* Proofs about Log, for every set of processes, sectors and contents and *)
(* every log capacity.                                                    *)
EXTENDS Log, TLAPS

USE LogCapAssumption, NotCachedAssumption, NoBlockAssumption

LEMMA InitInv == Init => LogInv
<1> SUFFICES ASSUME Init PROVE LogInv
  OBVIOUS
<1> USE DEF Init, Running, InTrans
<1>a. head \in Seq(Block) /\ Len(head) <= LogCap /\ lh \in Seq(Block) /\ Len(lh) <= LogCap
  OBVIOUS
<1>b. cache \in [Block -> Val \cup {NotCached}]
  BY DEF Empty
<1>1. TypeOK
  <2>1. tail \in 1..(LogCap + 1) /\ dirty \subseteq Block
    OBVIOUS
  <2>3. busy \in BOOLEAN
    OBVIOUS
  <2>2. pc \in [Proc -> Pcs] /\ boot \in Boots
    BY DEF Pcs, Boots
  <2> QED
    BY <1>a, <1>b, <2>1, <2>2, <2>3 DEF TypeOK
<1>2. Injective(head) /\ Injective(lh)
  BY DEF Injective
<1>3. OwnerInv /\ OpenInv /\ QuietInv
  BY DEF OwnerInv, OpenInv, QuietInv
<1>4. CleanInv /\ InstallInv
  BY DEF CleanInv, InstallInv, Empty
<1> QED
  BY <1>1, <1>2, <1>3, <1>4 DEF LogInv

LEMMA BeginInv == ASSUME LogInv, NEW p \in Proc, begin_trans(p) PROVE LogInv'
<1> USE DEF LogInv, begin_trans, InTrans, diskVars
<1>1. TypeOK'
  BY DEF TypeOK, Pcs
<1>2. (Injective(head) /\ Injective(lh))'
  BY DEF Injective
<1>3. OwnerInv'
  BY DEF OwnerInv, TypeOK, Pcs, Running
<1>4. CleanInv'
  BY DEF CleanInv
<1>5. OpenInv'
  BY DEF OpenInv, QuietInv, Running, TypeOK, OwnerInv, Pcs
<1>6. InstallInv'
  BY DEF InstallInv, TypeOK, Pcs
<1>7. QuietInv'
  BY DEF QuietInv, TypeOK, Pcs, Running, OwnerInv
<1> QED
  BY <1>1, <1>2, <1>3, <1>4, <1>5, <1>6, <1>7

LEMMA ModifyInv ==
  ASSUME LogInv, NEW p \in Proc, NEW b \in Block, NEW v \in Val, Modify(p, b, v)
  PROVE  LogInv'
<1> USE DEF LogInv, Modify, InTrans, diskVars
<1>1. TypeOK'
  BY DEF TypeOK, Pcs
<1>2. (Injective(head) /\ Injective(lh))'
  BY DEF Injective
<1>3. OwnerInv'
  BY DEF OwnerInv, TypeOK, Pcs, Running
<1>4. CleanInv'
  BY DEF CleanInv, OwnerInv, TypeOK
<1>5. OpenInv'
  BY DEF OpenInv, TypeOK, OwnerInv, Pcs
<1>6. InstallInv'
  BY DEF InstallInv, TypeOK, Pcs, OwnerInv, Running
<1>7. QuietInv'
  BY DEF QuietInv, TypeOK, Pcs, Running, OwnerInv
<1> QED
  BY <1>1, <1>2, <1>3, <1>4, <1>5, <1>6, <1>7

LEMMA LogWriteInv ==
  ASSUME LogInv, NEW p \in Proc, log_write(p)
  PROVE  LogInv'
<1> USE DEF LogInv, InTrans
<1> DEFINE known == { i \in DOMAIN lh : lh[i] = held }
<1>a. held \in Block /\ cache[held] \in Val
  BY DEF log_write, TooBig, pin, OwnerInv, CleanInv, TypeOK
<1> DEFINE slot == IF known = {} THEN Len(lh) + 1 ELSE CHOOSE k \in known : TRUE
<1>e. /\ logblk' = [logblk EXCEPT ![slot] = cache[held]]
      /\ lh' = IF known = {} THEN Append(lh, held) ELSE lh
      /\ Len(lh) < LogCap
  BY DEF log_write, TooBig, pin
<1>f. \/ known = {} /\ slot = Len(lh) + 1
      \/ known # {} /\ slot \in known
  OBVIOUS
<1>b. PICK n \in 1..LogCap :
        /\ logblk' = [logblk EXCEPT ![n] = cache[held]]
        /\ \/ known = {} /\ n = Len(lh) + 1 /\ lh' = Append(lh, held)
           \/ n \in DOMAIN lh /\ lh[n] = held /\ lh' = lh
  <2> HIDE DEF slot
  <2>1. slot \in 1..LogCap
    BY <1>e, <1>f DEF TypeOK
  <2> QED
    BY <1>e, <1>f, <2>1
<1>c. lh' \in Seq(Block) /\ Len(lh') <= LogCap /\ n \in DOMAIN lh' /\ lh'[n] = held
      /\ DOMAIN lh' = DOMAIN lh \cup {n} /\ \A i \in DOMAIN lh : lh'[i] = lh[i]
  BY <1>a, <1>b DEF log_write, TooBig, pin, TypeOK
<1>d. \A i \in DOMAIN lh' : i # n => i \in DOMAIN lh /\ lh[i] # held
  BY <1>b, <1>c DEF Injective, TypeOK
<1> HIDE DEF known, slot
<1>1. TypeOK'
  BY <1>a, <1>b, <1>c DEF log_write, TooBig, pin, TypeOK, Pcs
<1>2. (Injective(head) /\ Injective(lh))'
  BY <1>c, <1>d DEF log_write, TooBig, pin, Injective
<1>3. OwnerInv'
  BY DEF log_write, TooBig, pin, OwnerInv, TypeOK, Pcs, Running
<1>4. CleanInv'
  BY DEF log_write, TooBig, pin, CleanInv
<1>5. OpenInv'
  <2>1. head = <<>> /\ dirty = { lh[i] : i \in DOMAIN lh }
        /\ \A i \in DOMAIN lh : cache[lh[i]] # NotCached
                              /\ (lh[i] # held => cache[lh[i]] = logblk[i])
    BY DEF log_write, TooBig, pin, OpenInv
  <2>2. dirty' = { lh'[i] : i \in DOMAIN lh' }
    BY <2>1, <1>c DEF log_write, TooBig, pin
  <2>3. \A i \in DOMAIN lh' : cache[lh'[i]] # NotCached /\ cache[lh'[i]] = logblk'[i]
    <3> SUFFICES ASSUME NEW i \in DOMAIN lh'
                 PROVE  cache[lh'[i]] # NotCached /\ cache[lh'[i]] = logblk'[i]
      OBVIOUS
    <3>1. CASE i = n
      BY <3>1, <1>a, <1>b, <1>c DEF TypeOK
    <3>2. CASE i # n
      BY <3>2, <1>b, <1>c, <1>d, <2>1 DEF TypeOK
    <3> QED
      BY <3>1, <3>2
  <2> QED
    BY <2>1, <2>2, <2>3 DEF log_write, TooBig, pin, OpenInv
<1>6. InstallInv'
  BY DEF log_write, TooBig, pin, InstallInv, OwnerInv, TypeOK, Running, Pcs
<1>7. QuietInv'
  BY DEF log_write, TooBig, pin, QuietInv, OwnerInv, TypeOK, Running, Pcs
<1> QED
  BY <1>1, <1>2, <1>3, <1>4, <1>5, <1>6, <1>7

LEMMA PanicInv ==
  ASSUME LogInv, NEW p \in Proc, panic(p)
  PROVE  LogInv'
<1> USE DEF LogInv, panic, TooBig, InTrans, diskVars
<1>1. TypeOK'
  BY DEF TypeOK, Pcs, Boots
<1>2. (Injective(head) /\ Injective(lh))'
  BY DEF Injective
<1>3. OwnerInv'
  BY DEF OwnerInv, TypeOK, Pcs, Running
<1>4. CleanInv'
  BY DEF CleanInv, OwnerInv, TypeOK, Running
<1>5. OpenInv'
  BY DEF OpenInv, OwnerInv, TypeOK, Running, Pcs
<1>6. InstallInv'
  BY DEF InstallInv, OwnerInv, TypeOK, Running, Pcs
<1>7. QuietInv'
  BY DEF QuietInv, OwnerInv, TypeOK, Running, Pcs
<1> QED
  BY <1>1, <1>2, <1>3, <1>4, <1>5, <1>6, <1>7

LEMMA CommitInv ==
  ASSUME LogInv, NEW p \in Proc, commit_trans(p)
  PROVE  LogInv'
<1> USE DEF LogInv, commit_trans, InTrans, diskVars
<1>1. TypeOK'
  BY DEF TypeOK, Pcs, Boots
<1>2. (Injective(head) /\ Injective(lh))'
  BY DEF Injective
<1>3. OwnerInv'
  BY DEF OwnerInv, TypeOK, Pcs, Running
<1>4. CleanInv'
  BY DEF CleanInv, OwnerInv, TypeOK, Running
<1>5. OpenInv'
  BY DEF OpenInv, OwnerInv, TypeOK, Running, Pcs
<1>6. InstallInv'
  BY DEF InstallInv, OwnerInv, TypeOK, Running, Pcs
<1>7. QuietInv'
  BY DEF QuietInv, OpenInv, OwnerInv, TypeOK, Running, Pcs
<1> QED
  BY <1>1, <1>2, <1>3, <1>4, <1>5, <1>6, <1>7

LEMMA CommitHeadInv ==
  ASSUME LogInv, NEW p \in Proc, commit_head(p)
  PROVE  LogInv'
<1> USE DEF LogInv, commit_head, write_head, InTrans
<1>1. TypeOK'
  BY DEF TypeOK, Pcs, Boots
<1>2. (Injective(head) /\ Injective(lh))'
  BY DEF Injective
<1>3. OwnerInv'
  BY DEF OwnerInv, TypeOK, Pcs, Running
<1>4. CleanInv'
  BY DEF CleanInv, OwnerInv, TypeOK, Running
<1>5. OpenInv'
  BY DEF OpenInv, OwnerInv, TypeOK, Running, Pcs
<1>6. InstallInv'
  BY DEF InstallInv, OpenInv, OwnerInv, TypeOK, Running, Pcs
<1>7. QuietInv'
  BY DEF QuietInv, OwnerInv, TypeOK, Running, Pcs
<1> QED
  BY <1>1, <1>2, <1>3, <1>4, <1>5, <1>6, <1>7

LEMMA CommitInstallInv ==
  ASSUME LogInv, NEW p \in Proc, commit_install(p)
  PROVE  LogInv'
<1> USE DEF LogInv, commit_install, install_trans, InTrans
<1>1. TypeOK'
  BY DEF TypeOK, Pcs, Boots
<1>2. (Injective(head) /\ Injective(lh))'
  BY DEF Injective
<1>3. OwnerInv'
  BY DEF OwnerInv, TypeOK, Pcs, Running
<1>4. CleanInv'
  BY DEF CleanInv, OwnerInv, TypeOK, Running
<1>5. OpenInv'
  BY DEF OpenInv, OwnerInv, TypeOK, Running, Pcs
<1>6. InstallInv'
  <2> DEFINE rest(t) == { lh[i] : i \in { j \in DOMAIN lh : j >= t } }
  <2>1. head' = lh' /\ tail' <= Len(lh') + 1
    BY DEF InstallInv, TypeOK
  <2>2. \A i \in DOMAIN lh : i < tail + 1 => disk'[lh[i]] = logblk[i]
    BY DEF InstallInv, TypeOK, Injective
  <2>3. \A i \in DOMAIN lh : i >= tail + 1 => cache'[lh[i]] = logblk[i]
    BY DEF InstallInv, TypeOK, Injective
  <2>4. rest(tail) \ {lh[tail]} = rest(tail + 1)
    BY DEF TypeOK, Injective
  <2>5. dirty' = rest(tail')
    BY <2>4 DEF InstallInv
  <2> QED
    BY <2>1, <2>2, <2>3, <2>5 DEF InstallInv
<1>7. QuietInv'
  BY DEF QuietInv, OwnerInv, TypeOK, Running, Pcs
<1> QED
  BY <1>1, <1>2, <1>3, <1>4, <1>5, <1>6, <1>7

LEMMA CommitEraseInv ==
  ASSUME LogInv, NEW p \in Proc, commit_erase(p)
  PROVE  LogInv'
<1> USE DEF LogInv, commit_erase, write_head, InTrans
<1>1. TypeOK'
  BY DEF TypeOK, Pcs, Boots
<1>2. (Injective(head) /\ Injective(lh))'
  BY DEF Injective
<1>3. OwnerInv'
  BY DEF OwnerInv, TypeOK, Pcs, Running
<1>4. CleanInv'
  BY DEF CleanInv, OwnerInv, TypeOK, Running
<1>5. OpenInv'
  BY DEF OpenInv, OwnerInv, TypeOK, Running, Pcs
<1>6. InstallInv'
  BY DEF InstallInv, OwnerInv, TypeOK, Running, Pcs
<1>7. QuietInv'
  BY DEF QuietInv, InstallInv, OwnerInv, TypeOK, Running, Pcs
<1> QED
  BY <1>1, <1>2, <1>3, <1>4, <1>5, <1>6, <1>7

LEMMA CommitReleaseInv ==
  ASSUME LogInv, NEW p \in Proc, commit_release(p)
  PROVE  LogInv'
<1> USE DEF LogInv, commit_release, wakeup, InTrans, diskVars
<1>1. TypeOK'
  BY DEF TypeOK, Pcs, Boots
<1>2. (Injective(head) /\ Injective(lh))'
  BY DEF Injective
<1>3. OwnerInv'
  BY DEF OwnerInv, TypeOK, Pcs, Running
<1>4. CleanInv'
  BY DEF CleanInv, OwnerInv, TypeOK, Running
<1>5. OpenInv'
  BY DEF OpenInv, OwnerInv, TypeOK, Running, Pcs
<1>6. InstallInv'
  BY DEF InstallInv, OwnerInv, TypeOK, Running, Pcs
<1>7. QuietInv'
  BY DEF QuietInv, OwnerInv, TypeOK, Running, Pcs
<1> QED
  BY <1>1, <1>2, <1>3, <1>4, <1>5, <1>6, <1>7

LEMMA CrashInv ==
  ASSUME LogInv, crash
  PROVE  LogInv'
<1> USE DEF LogInv, crash, InTrans, diskVars
<1>1. TypeOK'
  <2>1. lh' \in Seq(Block) /\ Len(lh') <= LogCap
    OBVIOUS
  <2>2. cache' \in [Block -> Val \cup {NotCached}]
    BY DEF Empty
  <2>3. tail' \in 1..(LogCap + 1) /\ dirty' \subseteq Block
    OBVIOUS
  <2>4. busy' \in BOOLEAN
    OBVIOUS
  <2> QED
    BY <2>1, <2>2, <2>3, <2>4 DEF TypeOK, Pcs, Boots
<1>2. (Injective(head) /\ Injective(lh))'
  BY DEF Injective
<1>3. OwnerInv'
  BY DEF OwnerInv, TypeOK, Pcs, Running
<1>4. CleanInv'
  BY DEF CleanInv, Empty
<1>5. OpenInv'
  BY DEF OpenInv, OwnerInv, TypeOK, Running, Pcs
<1>6. InstallInv'
  BY DEF InstallInv, OwnerInv, TypeOK, Running, Pcs
<1>7. QuietInv'
  BY DEF QuietInv, OwnerInv, TypeOK, Running, Pcs
<1> QED
  BY <1>1, <1>2, <1>3, <1>4, <1>5, <1>6, <1>7

LEMMA ReadHeadInv ==
  ASSUME LogInv, read_head
  PROVE  LogInv'
<1> USE DEF LogInv, read_head, InTrans, diskVars
<1>1. TypeOK'
  BY DEF TypeOK, Pcs, Boots
<1>2. (Injective(head) /\ Injective(lh))'
  BY DEF Injective
<1>3. OwnerInv'
  BY DEF OwnerInv, TypeOK, Pcs, Running
<1>4. CleanInv'
  BY DEF CleanInv, OwnerInv, TypeOK, Running
<1>5. OpenInv'
  BY DEF OpenInv, OwnerInv, TypeOK, Running, Pcs
<1>6. InstallInv'
  BY DEF InstallInv, OwnerInv, TypeOK, Running, Pcs
<1>7. QuietInv'
  BY DEF QuietInv, OwnerInv, TypeOK, Running, Pcs
<1> QED
  BY <1>1, <1>2, <1>3, <1>4, <1>5, <1>6, <1>7

LEMMA RecoverInstallInv ==
  ASSUME LogInv, recover_install
  PROVE  LogInv'
<1> USE DEF LogInv, recover_install, install_trans, InTrans
<1>1. TypeOK'
  BY DEF TypeOK, Pcs, Boots
<1>2. (Injective(head) /\ Injective(lh))'
  BY DEF Injective
<1>3. OwnerInv'
  BY DEF OwnerInv, TypeOK, Pcs, Running
<1>4. CleanInv'
  BY DEF CleanInv, OwnerInv, TypeOK, Running
<1>5. OpenInv'
  BY DEF OpenInv, OwnerInv, TypeOK, Running, Pcs
<1>6. InstallInv'
  <2>1. head' = lh' /\ tail' <= Len(lh') + 1
    BY DEF InstallInv, TypeOK
  <2>2. \A i \in DOMAIN lh : i < tail + 1 => disk'[lh[i]] = logblk[i]
    BY DEF InstallInv, TypeOK, Injective
  <2>3. \A q \in Proc : pc'[q] # "install"
    BY DEF OwnerInv, Running
  <2> QED
    BY <2>1, <2>2, <2>3 DEF InstallInv
<1>7. QuietInv'
  BY DEF QuietInv, OwnerInv, TypeOK, Running, Pcs
<1> QED
  BY <1>1, <1>2, <1>3, <1>4, <1>5, <1>6, <1>7

LEMMA RecoverEraseInv ==
  ASSUME LogInv, recover_erase
  PROVE  LogInv'
<1> USE DEF LogInv, recover_erase, write_head, InTrans
<1>1. TypeOK'
  BY DEF TypeOK, Pcs, Boots
<1>2. (Injective(head) /\ Injective(lh))'
  BY DEF Injective
<1>3. OwnerInv'
  BY DEF OwnerInv, TypeOK, Pcs, Running
<1>4. CleanInv'
  BY DEF CleanInv, OwnerInv, TypeOK, Running
<1>5. OpenInv'
  BY DEF OpenInv, OwnerInv, TypeOK, Running, Pcs
<1>6. InstallInv'
  BY DEF InstallInv, OwnerInv, TypeOK, Running, Pcs
<1>7. QuietInv'
  BY DEF QuietInv, OwnerInv, TypeOK, Running, Pcs
<1> QED
  BY <1>1, <1>2, <1>3, <1>4, <1>5, <1>6, <1>7

LEMMA BreadInv ==
  ASSUME LogInv, NEW b \in Block, bread(b)
  PROVE  LogInv'
<1> USE DEF LogInv, bread, InTrans, diskVars
<1>1. TypeOK'
  BY DEF TypeOK, Pcs, Boots
<1>2. (Injective(head) /\ Injective(lh))'
  BY DEF Injective
<1>3. OwnerInv'
  BY DEF OwnerInv, TypeOK, Pcs, Running
<1>4. CleanInv'
  BY DEF CleanInv, OwnerInv, TypeOK, Running
<1>5. OpenInv'
  BY DEF OpenInv, OwnerInv, TypeOK, Running, Pcs
<1>6. InstallInv'
  BY DEF InstallInv, OwnerInv, TypeOK, Running, Pcs
<1>7. QuietInv'
  BY DEF QuietInv, OwnerInv, TypeOK, Running, Pcs
<1> QED
  BY <1>1, <1>2, <1>3, <1>4, <1>5, <1>6, <1>7

LEMMA BgetInv ==
  ASSUME LogInv, NEW b \in Block, bget(b)
  PROVE  LogInv'
<1> USE DEF LogInv, bget, InTrans, diskVars
<1>1. TypeOK'
  BY DEF TypeOK, Pcs, Boots
<1>2. (Injective(head) /\ Injective(lh))'
  BY DEF Injective
<1>3. OwnerInv'
  BY DEF OwnerInv, TypeOK, Pcs, Running
<1>4. CleanInv'
  BY DEF CleanInv, OwnerInv, TypeOK, Running
<1>5. OpenInv'
  BY DEF OpenInv, OwnerInv, TypeOK, Running, Pcs
<1>6. InstallInv'
  BY DEF InstallInv, OwnerInv, TypeOK, Running, Pcs
<1>7. QuietInv'
  BY DEF QuietInv, OwnerInv, TypeOK, Running, Pcs
<1> QED
  BY <1>1, <1>2, <1>3, <1>4, <1>5, <1>6, <1>7

LEMMA NextInv == LogInv /\ [Next]_vars => LogInv'
<1> SUFFICES ASSUME LogInv, [Next]_vars PROVE LogInv'
  OBVIOUS
<1>1. ASSUME NEW p \in Proc, step(p) PROVE LogInv'
  BY <1>1, BeginInv, ModifyInv, LogWriteInv, PanicInv, CommitInv, CommitHeadInv,
     CommitInstallInv, CommitEraseInv, CommitReleaseInv DEF step
<1>2. ASSUME NEW b \in Block, bread(b) \/ bget(b) PROVE LogInv'
  BY <1>2, BreadInv, BgetInv
<1>3. CASE initlog
  BY <1>3, ReadHeadInv, RecoverInstallInv, RecoverEraseInv DEF initlog
<1>4. CASE crash
  BY <1>4, CrashInv
<1>5. CASE UNCHANGED vars
  <2>1. TypeOK' /\ Injective(head)' /\ Injective(lh)'
    BY <1>5 DEF vars, LogInv, TypeOK, Injective
  <2>2. OwnerInv' /\ CleanInv'
    BY <1>5 DEF vars, LogInv, OwnerInv, CleanInv, Running, InTrans
  <2>3. OpenInv' /\ InstallInv'
    BY <1>5 DEF vars, LogInv, OpenInv, InstallInv
  <2>4. QuietInv'
    BY <1>5 DEF vars, LogInv, QuietInv, Running
  <2> QED
    BY <2>1, <2>2, <2>3, <2>4 DEF LogInv
<1> QED
  BY <1>1, <1>2, <1>3, <1>4, <1>5 DEF Next

\* Log, cache and disk agree about every block at every point of a commit and of
\* a recovery (commit_trans, install_trans, recover_from_log), whatever the log
\* size, the number of blocks and of processes.
THEOREM LogInvariance == Spec => []LogInv
BY InitInv, NextInv, PTL DEF Spec

\* The log, the buffer cache and the header keep their types: in particular the
\* header never lists more than LogCap blocks (log_write's limit).
THEOREM TypeCorrect == Spec => []TypeOK
<1>1. LogInv => TypeOK
  BY DEF LogInv
<1> QED
  BY <1>1, LogInvariance, PTL

\* No process sleeps on &log unless some process will run commit_trans and wake it.
THEOREM NoLostWakeup == Spec => []SleeperHasWaker
<1>1. Init => SleeperHasWaker
  BY DEF Init, SleeperHasWaker
<1>2. LogInv /\ SleeperHasWaker /\ [Next]_vars => SleeperHasWaker'
  <2> SUFFICES ASSUME LogInv, SleeperHasWaker, [Next]_vars PROVE SleeperHasWaker'
    OBVIOUS
  <2> USE DEF SleeperHasWaker, InTrans, LogInv, TypeOK, Pcs
  <2>1. ASSUME NEW p \in Proc, begin_trans(p) PROVE SleeperHasWaker'
    BY <2>1 DEF begin_trans, OwnerInv
  <2>2. ASSUME NEW p \in Proc, commit_release(p) PROVE SleeperHasWaker'
    BY <2>2 DEF commit_release, wakeup
  <2>3. ASSUME NEW p \in Proc, pc[p] \in InTrans,
               \E c \in InTrans : pc' = [pc EXCEPT ![p] = c]
        PROVE  SleeperHasWaker'
    BY <2>3
  <2>4. ASSUME NEW p \in Proc, step(p) PROVE SleeperHasWaker'
    <3>1. CASE \E b \in Block, v \in Val : Modify(p, b, v)
      BY <3>1, <2>3 DEF Modify
    <3>2. CASE log_write(p)
      BY <3>2, <2>3 DEF log_write, TooBig, pin
    <3>3. CASE commit_trans(p) \/ commit_head(p) \/ commit_erase(p)
      BY <3>3, <2>3 DEF commit_trans, commit_head, commit_erase
    <3>4. CASE panic(p) \/ commit_install(p)
      BY <3>4 DEF panic, TooBig, commit_install, install_trans
    <3> QED
      BY <2>1, <2>2, <2>4, <3>1, <3>2, <3>3, <3>4 DEF step
  <2>5. CASE initlog
    BY <2>5 DEF initlog, read_head, recover_install, install_trans, recover_erase
  <2>6. CASE crash
    BY <2>6 DEF crash
  <2>7. CASE \E b \in Block : bread(b) \/ bget(b)
    BY <2>7 DEF bread, bget
  <2>8. CASE UNCHANGED vars
    BY <2>8 DEF vars
  <2> QED
    BY <2>4, <2>5, <2>6, <2>7, <2>8 DEF Next
<1> QED
  BY <1>1, <1>2, LogInvariance, PTL DEF Spec
-----------------------------------------------------------------------------
(***************************************************************************)
(* The refinement.                                                         *)
(***************************************************************************)
Phases == [p \in Proc |-> PhaseOf(pc[p])]

\* The parts of the invariant, for the steps that need one of them only.
LEMMA LogInvParts ==
  ASSUME LogInv
  PROVE  /\ TypeOK /\ Injective(head) /\ Injective(lh)
         /\ OwnerInv /\ CleanInv /\ OpenInv /\ InstallInv /\ QuietInv
BY DEF LogInv

\* With an empty header there is nothing to recover.
LEMMA RecoveredEmpty ==
  ASSUME TypeOK, head = <<>>
  PROVE  Recovered = disk
BY DEF Recovered, TypeOK

\* A logged block is recovered from the log.
LEMMA RecoveredLogged ==
  ASSUME TypeOK, Injective(head), NEW i \in DOMAIN head
  PROVE  Recovered[head[i]] = logblk[i]
<1>1. head[i] \in Block
  BY DEF TypeOK
<1>2. (CHOOSE j \in DOMAIN head : head[j] = head[i]) = i
  BY DEF Injective
<1> QED
  BY <1>1, <1>2 DEF Recovered

\* The other blocks are recovered as they are.
LEMMA RecoveredOther ==
  ASSUME TypeOK, NEW b \in Block, \A i \in DOMAIN head : head[i] # b
  PROVE  Recovered[b] = disk[b]
BY DEF Recovered

\* Copying a logged block to its home changes nothing that recovery yields.
LEMMA InstallRecovered ==
  ASSUME LogInv, LogInv', head = lh, install_trans
  PROVE  Recovered' = Recovered
<1>1. \A b \in Block : Recovered'[b] = Recovered[b]
  <2> SUFFICES ASSUME NEW b \in Block PROVE Recovered'[b] = Recovered[b]
    OBVIOUS
  <2>0. head' = head /\ logblk' = logblk
    BY DEF install_trans
  <2>1. ASSUME \E i \in DOMAIN head : head[i] = b PROVE Recovered'[b] = Recovered[b]
    <3> DEFINE first == CHOOSE i \in DOMAIN head : head[i] = b
    <3>1. Recovered[b] = logblk[first]
      BY <2>1 DEF Recovered
    <3>2. Recovered'[b] = logblk'[first']
      BY <2>0, <2>1 DEF Recovered
    <3>3. first' = first
      BY <2>0
    <3> QED
      BY <2>0, <3>1, <3>2, <3>3
  <2>2. ASSUME \A i \in DOMAIN head : head[i] # b PROVE Recovered'[b] = Recovered[b]
    BY <2>2, LogInvParts DEF install_trans, Recovered, TypeOK
  <2> QED
    BY <2>1, <2>2
<1> QED
  BY <1>1 DEF Recovered

\* Once every block is at home the header can be erased.
LEMMA EraseRecovered ==
  ASSUME LogInv, head = lh, \A i \in DOMAIN lh : disk[lh[i]] = logblk[i]
  PROVE  Recovered = disk
<1>1. ASSUME NEW b \in Block PROVE Recovered[b] = disk[b]
  <2>1. ASSUME NEW i \in DOMAIN head, head[i] = b PROVE Recovered[b] = disk[b]
    BY <2>1, RecoveredLogged, LogInvParts
  <2>2. CASE \A i \in DOMAIN head : head[i] # b
    BY <2>2, RecoveredOther, LogInvParts
  <2> QED
    BY <2>1, <2>2
<1> QED
  BY <1>1, LogInvParts DEF Recovered, TypeOK

\* With no pinned and no held buffer a bread() returns what is on the disk.
LEMMA ViewClean ==
  ASSUME LogInv, dirty = {}, held = NoBlock
  PROVE  [b \in Block |-> View(b)] = disk
BY DEF LogInv, CleanInv, TypeOK, View

LEMMA InitRefines == Init => Device!Init
<1> SUFFICES ASSUME Init PROVE Device!Init
  OBVIOUS
<1>1. Recovered = disk /\ Current = disk
  BY RecoveredEmpty, InitInv, LogInvParts DEF Init, Current
<1>2. Phases = [p \in Proc |-> "idle"]
  BY DEF Init, Phases, PhaseOf
<1> QED
  BY <1>1, <1>2 DEF Init, Device!Init, Phases

\* What a step of the log is to the atomic device.
Refines == Device!Next \/ UNCHANGED Device!vars

LEMMA StutterRefines ==
  ASSUME Recovered' = Recovered, Current' = Current, Phases' = Phases
  PROVE  Refines
BY DEF Refines, Device!vars, Phases

LEMMA BeginRefines ==
  ASSUME LogInv, LogInv', NEW p \in Proc, begin_trans(p)
  PROVE  Refines
<1>1. Recovered' = Recovered /\ Current' = Current
  BY DEF begin_trans, diskVars, Recovered, Current, View
<1>2. CASE busy
  <2>1. Phases' = Phases
    BY <1>2, LogInvParts DEF begin_trans, Phases, PhaseOf, TypeOK
  <2> QED
    BY <1>1, <2>1, StutterRefines
<1>3. CASE ~busy
  <2>1. \A q \in Proc : Phases[q] = "idle"
    BY <1>3, LogInvParts DEF OwnerInv, InTrans, Phases, PhaseOf
  <2>2. Phases' = [Phases EXCEPT ![p] = "open"]
    BY <1>3, LogInvParts DEF begin_trans, Phases, PhaseOf, TypeOK
  <2>3. Device!Begin(p)
    BY <1>1, <2>1, <2>2 DEF Device!Begin, Phases
  <2> QED
    BY <2>3 DEF Refines, Device!Next
<1> QED
  BY <1>2, <1>3

LEMMA ModifyRefines ==
  ASSUME LogInv, LogInv', NEW p \in Proc, NEW b \in Block, NEW v \in Val, Modify(p, b, v)
  PROVE  Refines
<1>1. Recovered' = Recovered
  BY DEF Modify, diskVars, Recovered
<1>2. Phases' = Phases /\ Phases[p] = "open"
  BY LogInvParts DEF Modify, Phases, PhaseOf, TypeOK
<1>3. Current' = [Current EXCEPT ![b] = v]
  BY LogInvParts DEF Modify, diskVars, Current, View, TypeOK
<1>4. Device!Write(p, b, v)
  BY <1>1, <1>2, <1>3 DEF Device!Write, Phases
<1> QED
  BY <1>4 DEF Refines, Device!Next

LEMMA LogWriteRefines ==
  ASSUME LogInv, LogInv', NEW p \in Proc, log_write(p)
  PROVE  Refines
<1>1. head = <<>> /\ head' = <<>>
  BY LogInvParts DEF log_write, TooBig, pin, OpenInv
<1>2. Recovered' = disk' /\ Recovered = disk /\ disk' = disk
  BY <1>1, RecoveredEmpty, LogInvParts DEF log_write, TooBig, pin, Recovered, TypeOK
<1>3. Current' = Current
  BY DEF log_write, TooBig, pin, Current, View
<1>4. Phases' = Phases
  BY LogInvParts DEF log_write, TooBig, pin, Phases, PhaseOf, TypeOK
<1> QED
  BY <1>2, <1>3, <1>4, StutterRefines

LEMMA PanicRefines ==
  ASSUME LogInv, LogInv', NEW p \in Proc, panic(p)
  PROVE  Refines
BY StutterRefines DEF panic, TooBig, diskVars, Recovered, Current, View, Phases

LEMMA CommitRefines ==
  ASSUME LogInv, LogInv', NEW p \in Proc, commit_trans(p)
  PROVE  Refines
<1>1. Recovered' = Recovered /\ Current' = Current
  BY DEF commit_trans, diskVars, Recovered, Current, View
<1>2. CASE Len(lh) > 0
  <2>1. Phases' = Phases
    BY <1>2, LogInvParts DEF commit_trans, Phases, PhaseOf, TypeOK
  <2> QED
    BY <1>1, <2>1, StutterRefines
<1>3. CASE ~(Len(lh) > 0)
  <2>1. Phases[p] = "open" /\ Phases' = [Phases EXCEPT ![p] = "done"]
    BY <1>3, LogInvParts DEF commit_trans, Phases, PhaseOf, TypeOK
  <2>2. head = <<>> /\ dirty = {} /\ held = NoBlock
    BY <1>3, LogInvParts DEF commit_trans, OpenInv, OwnerInv, InTrans, TypeOK
  <2>3. Recovered = disk
    BY <2>2, RecoveredEmpty, LogInvParts
  <2>4. Current = disk
    BY <2>2, ViewClean DEF Current, commit_trans
  <2>5. Device!Commit(p)
    BY <1>1, <2>1, <2>3, <2>4 DEF Device!Commit, Phases
  <2> QED
    BY <2>5 DEF Refines, Device!Next
<1> QED
  BY <1>2, <1>3

\* The write of the header is the commit: what recovery yields jumps from the
\* contents before the transaction to the contents after it.
LEMMA CommitHeadRefines ==
  ASSUME LogInv, LogInv', NEW p \in Proc, commit_head(p)
  PROVE  Refines
<1>1. Current' = Current
  BY DEF commit_head, Current, View
<1>2. Phases[p] = "open" /\ Phases' = [Phases EXCEPT ![p] = "done"]
  BY LogInvParts DEF commit_head, Phases, PhaseOf, TypeOK
<1>3. /\ held = NoBlock
      /\ dirty = { lh[i] : i \in DOMAIN lh }
      /\ \A i \in DOMAIN lh : cache[lh[i]] # NotCached /\ cache[lh[i]] = logblk[i]
  BY LogInvParts DEF commit_head, OwnerInv, OpenInv, InTrans, TypeOK
<1>4. head' = lh /\ disk' = disk /\ logblk' = logblk
  BY DEF commit_head, write_head
<1>5. \A b \in Block : Recovered'[b] = View(b)
  <2> SUFFICES ASSUME NEW b \in Block PROVE Recovered'[b] = View(b)
    OBVIOUS
  <2>1. ASSUME NEW i \in DOMAIN lh, lh[i] = b PROVE Recovered'[b] = View(b)
    <3>1. (CHOOSE j \in DOMAIN lh : lh[j] = b) = i
      BY <2>1, LogInvParts DEF Injective
    <3>2. Recovered'[b] = logblk[i]
      BY <1>4, <2>1, <3>1 DEF Recovered
    <3> QED
      BY <1>3, <2>1, <3>2 DEF View
  <2>2. ASSUME \A i \in DOMAIN lh : lh[i] # b PROVE Recovered'[b] = View(b)
    <3>1. Recovered'[b] = disk[b]
      BY <1>4, <2>2 DEF Recovered
    <3>2. b \notin dirty
      BY <1>3, <2>2
    <3> QED
      BY <1>3, <3>1, <3>2, LogInvParts DEF View, CleanInv
  <2> QED
    BY <2>1, <2>2
<1>6. Recovered' = Current
  BY <1>5 DEF Recovered, Current, commit_head
<1>7. Device!Commit(p)
  BY <1>1, <1>2, <1>6 DEF Device!Commit, Phases
<1> QED
  BY <1>7 DEF Refines, Device!Next

LEMMA CommitInstallRefines ==
  ASSUME LogInv, LogInv', NEW p \in Proc, commit_install(p)
  PROVE  Refines
<1>1. Recovered' = Recovered
  BY InstallRecovered, LogInvParts DEF commit_install, InstallInv
<1>2. Phases' = Phases
  BY DEF commit_install, install_trans, Phases
<1> DEFINE home == lh[tail]
<1>3. cache \in [Block -> Val \cup {NotCached}] /\ disk \in [Block -> Val]
  BY LogInvParts DEF TypeOK
<1>4. tail \in DOMAIN lh /\ tail \in 1..LogCap
  BY LogInvParts DEF commit_install, install_trans, TypeOK
<1>5. home \in Block /\ logblk[tail] \in Val
  BY <1>4, LogInvParts DEF TypeOK
<1>6. cache[home] = logblk[tail]
  <2>1. tail >= tail
    BY <1>4
  <2> QED
    BY <1>4, <2>1, LogInvParts DEF commit_install, InstallInv
<1>7. cache' = [cache EXCEPT ![home] = logblk[tail]]
      /\ disk' = [disk EXCEPT ![home] = logblk[tail]]
  BY DEF commit_install, install_trans
<1> HIDE DEF home
<1>8. cache' = cache
  BY <1>3, <1>6, <1>7
<1>9. \A b \in Block : View(b)' = View(b)
  <2> SUFFICES ASSUME NEW b \in Block PROVE View(b)' = View(b)
    OBVIOUS
  <2>1. CASE b = home
    BY <1>5, <1>6, <1>8, <2>1, NotCachedAssumption DEF View
  <2>2. CASE b # home
    BY <1>3, <1>7, <1>8, <2>2 DEF View
  <2> QED
    BY <2>1, <2>2
<1>10. Current' = Current
  BY <1>9 DEF Current, commit_install, install_trans
<1> QED
  BY <1>1, <1>2, <1>10, StutterRefines

LEMMA CommitEraseRefines ==
  ASSUME LogInv, LogInv', NEW p \in Proc, commit_erase(p)
  PROVE  Refines
<1>1. Recovered = disk
  <2>1. head = lh /\ \A i \in DOMAIN lh : i < tail => disk[lh[i]] = logblk[i]
    BY LogInvParts DEF commit_erase, InstallInv
  <2>2. \A i \in DOMAIN lh : i < tail
    BY LogInvParts DEF commit_erase, TypeOK
  <2> QED
    BY <2>1, <2>2, EraseRecovered
<1>2. Recovered' = disk'
  BY LogInvParts DEF commit_erase, write_head, TypeOK, Recovered
<1>3. Current' = Current
  BY DEF commit_erase, Current, View
<1>4. Phases' = Phases
  BY LogInvParts DEF commit_erase, Phases, PhaseOf, TypeOK
<1> QED
  BY <1>1, <1>2, <1>3, <1>4, StutterRefines DEF commit_erase

LEMMA CommitReleaseRefines ==
  ASSUME LogInv, LogInv', NEW p \in Proc, commit_release(p)
  PROVE  Refines
<1>1. Recovered' = Recovered /\ Current' = Current
  BY DEF commit_release, wakeup, diskVars, Recovered, Current, View
<1>2. Phases[p] = "done" /\ Phases' = [Phases EXCEPT ![p] = "idle"]
  BY LogInvParts DEF commit_release, wakeup, Phases, PhaseOf, TypeOK
<1>3. Device!End(p)
  BY <1>1, <1>2 DEF Device!End, Phases
<1> QED
  BY <1>3 DEF Refines, Device!Next

LEMMA CrashRefines ==
  ASSUME LogInv, LogInv', crash
  PROVE  Refines
<1>1. Recovered' = Recovered
  BY DEF crash, diskVars, Recovered
<1>2. Current' = Recovered
  BY <1>1 DEF crash, Current
<1>3. Phases' = [p \in Proc |-> "idle"]
  BY DEF crash, Phases, PhaseOf
<1>4. Device!Crash
  BY <1>1, <1>2, <1>3 DEF Device!Crash, Phases
<1> QED
  BY <1>4 DEF Refines, Device!Next

LEMMA InitlogRefines ==
  ASSUME LogInv, LogInv', initlog
  PROVE  Refines
<1>1. CASE read_head
  BY <1>1, StutterRefines DEF read_head, diskVars, Recovered, Current, Phases
<1>2. CASE recover_install
  <2>1. Recovered' = Recovered
    BY <1>2, InstallRecovered, LogInvParts DEF recover_install, InstallInv
  <2> QED
    BY <1>2, <2>1, StutterRefines DEF recover_install, install_trans, Current, Phases
<1>3. CASE recover_erase
  <2>1. Recovered = disk
    <3>1. head = lh /\ \A i \in DOMAIN lh : i < tail => disk[lh[i]] = logblk[i]
      BY <1>3, LogInvParts DEF recover_erase, InstallInv
    <3>2. \A i \in DOMAIN lh : i < tail
      BY <1>3, LogInvParts DEF recover_erase, TypeOK
    <3> QED
      BY <3>1, <3>2, EraseRecovered
  <2>2. Recovered' = disk'
    BY <1>3, LogInvParts DEF recover_erase, write_head, TypeOK, Recovered
  <2>3. dirty = {} /\ held = NoBlock
    BY <1>3, LogInvParts DEF recover_erase, QuietInv, OwnerInv, Running
  <2>4. [b \in Block |-> View(b)] = disk
    BY <2>3, ViewClean
  <2>5. Current' = [b \in Block |-> View(b)] /\ Current = Recovered
    BY <1>3 DEF recover_erase, Current, View
  <2> QED
    BY <1>3, <2>1, <2>2, <2>4, <2>5, StutterRefines DEF recover_erase, Phases
<1> QED
  BY <1>1, <1>2, <1>3 DEF initlog

LEMMA CacheRefines ==
  ASSUME LogInv, LogInv', NEW b \in Block, bread(b) \/ bget(b)
  PROVE  Refines
<1>1. Recovered' = Recovered /\ Phases' = Phases
  BY DEF bread, bget, diskVars, Recovered, Phases
<1>2. \A c \in Block : View(c)' = View(c)
  BY LogInvParts DEF bread, bget, diskVars, View, TypeOK, CleanInv
<1>3. Current' = Current
  BY <1>1, <1>2 DEF bread, bget, Current
<1> QED
  BY <1>1, <1>3, StutterRefines

LEMMA StepRefines == LogInv /\ LogInv' /\ [Next]_vars => [Device!Next]_(Device!vars)
<1> SUFFICES ASSUME LogInv, LogInv', [Next]_vars PROVE Refines
  BY DEF Refines
<1>1. ASSUME NEW p \in Proc, step(p) PROVE Refines
  BY <1>1, BeginRefines, ModifyRefines, LogWriteRefines, PanicRefines, CommitRefines,
     CommitHeadRefines, CommitInstallRefines, CommitEraseRefines, CommitReleaseRefines
     DEF step
<1>2. CASE UNCHANGED vars
  BY <1>2, StutterRefines DEF vars, Recovered, Current, View, Phases
<1> QED
  BY <1>1, <1>2, InitlogRefines, CrashRefines, CacheRefines DEF Next

\* The logging layer implements the atomic block device: transactions are serial
\* and all-or-nothing across power loss at any point, a returned commit_trans() is
\* durable, recovery may itself be interrupted and repeated, and bread() returns
\* the latest write although buffers are recycled.
THEOREM Refinement == Spec => AtomicTransactions
BY InitRefines, StepRefines, LogInvariance, PTL DEF Spec, AtomicTransactions, Device!Spec
=============================================================================
