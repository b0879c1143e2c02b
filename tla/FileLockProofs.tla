---------------------------- MODULE FileLockProofs ----------------------------
(***************************************************************************)
(* Proofs for any number of processes, files, descriptors, inodes and      *)
(* passwords.  About the table of unlocked inodes: there is always a free  *)
(* entry for a process that needs one, and the table implements UnlockSet. *)
(* About the file table: the reference counts are right.                   *)
(***************************************************************************)
EXTENDS FileLock, FiniteSetTheorems, WellFoundedInduction, TLAPS

\* min(a, b), as the loops over a buffer compute it.
LEMMA MinOfTwo ==
  ASSUME NEW a \in Int, NEW b \in Int
  PROVE  Min({a, b}) = IF a <= b THEN a ELSE b
  BY DEF Min

\* A set of natural numbers that is not empty has a least member.
LEMMA MinFacts ==
  ASSUME NEW S \in SUBSET Nat, S # {}
  PROVE  Min(S) \in S /\ \A y \in S : Min(S) =< y
<1>1. PICK x \in S : \A y \in S : ~(<<y, x>> \in OpToRel(<, Nat))
  BY NatLessThanWellFounded, WFMin
<1>2. \A y, z \in Nat : y < z => <<y, z>> \in OpToRel(<, Nat)
  BY Zenon DEF OpToRel
<1>3. \A y \in S : ~(y < x)
  BY <1>1, <1>2, Zenon
<1>4. \A y \in S : x =< y
  BY <1>3, SMT
<1> QED
  BY <1>4 DEF Min

\* Only live processes, and children that fork_pids() has seen, have entries: so the
\* row of an inode that process s is not in has a free entry.  Otherwise the NPROC
\* entries would be of NPROC different processes other than s.
LEMMA FreeEntry ==
  ASSUME TableTypes, PidInv, EntriesOfLiveProcesses,
         NEW i \in Inode, NEW s \in Slot, \A j \in Slot : pids[i][j] # pid[s]
  PROVE  FreeEntries(i) # {}
<1> SUFFICES ASSUME FreeEntries(i) = {} PROVE FALSE
  OBVIOUS
<1> DEFINE owner == [j \in Slot |-> CHOOSE t \in Slot : pid[t] = pids[i][j]]
<1>1. \A j \in Slot : pids[i][j] # 0 /\ \E t \in Slot : pid[t] = pids[i][j]
  BY DEF FreeEntries, EntriesOfLiveProcesses, Entered
<1>2. \A j \in Slot : owner[j] \in Slot \ {s} /\ pid[owner[j]] = pids[i][j]
  BY <1>1
<1>3. owner \in [Slot -> Slot \ {s}]
  BY <1>2
<1>4. IsFiniteSet(Slot) /\ Cardinality(Slot) = NPROC
  BY NprocAssumption, FS_Interval DEF Slot
<1>5. IsFiniteSet(Slot \ {s}) /\ Cardinality(Slot \ {s}) < Cardinality(Slot)
  <2>1. IsFiniteSet(Slot \ {s}) /\ Cardinality(Slot \ {s}) = Cardinality(Slot) - 1
    BY <1>4, FS_RemoveElement, Zenon
  <2> QED
    BY <1>4, <2>1, NprocAssumption, SMT
<1>6. PICK j, k \in Slot : j # k /\ owner[j] = owner[k]
  <2> HIDE DEF owner
  <2> QED
    BY <1>3, <1>4, <1>5, FS_PigeonHole
<1>7. pids[i][j] = pids[i][k]
  BY <1>2, <1>6
<1> QED
  BY <1>1, <1>6, <1>7 DEF EntriesOfLiveProcesses

\* What the table is depends on these variables only.
LEMMA SameTable ==
  ASSUME TableInv, UNCHANGED <<state, pid, nextpid, pids, panicked, pc, child>>
  PROVE  TableInv' /\ UNCHANGED <<Live, Unlocked>>
  BY DEF TableInv, TableTypes, PidInv, ChildInv, EntriesOfLiveProcesses, Entered, At,
         Live, Unlocked

\* A process that goes from one point to another, not in fork(), changes nothing of it.
LEMMA OtherCall ==
  ASSUME TableInv, NEW s \in Slot, state[s] = "RUNNING",
         pc[s] \notin {"forked", "inherited"},
         NEW l \in Pcs \ {"forked", "inherited"}, Go(s, l),
         UNCHANGED <<state, pid, nextpid, pids, panicked, child>>
  PROVE  TableInv' /\ UNCHANGED <<Live, Unlocked>>
<1> USE DEF TableInv, Go
<1>1. Entered' = Entered
  BY DEF Entered, At, TableTypes
<1>2. TableTypes' /\ PidInv'
  BY DEF TableTypes, PidInv
<1>3. ChildInv'
  BY DEF TableTypes, ChildInv
<1>4. EntriesOfLiveProcesses'
  BY <1>1 DEF EntriesOfLiveProcesses
<1> QED
  BY <1>1, <1>2, <1>3, <1>4 DEF Live, Unlocked

\* allocproc() in fork() takes a new pid for a slot that has no entries.
LEMMA ForkStep ==
  ASSUME TableInv, NEW s \in Slot, NEW n \in Slot, fork(s, n)
  PROVE  TableInv' /\ UNCHANGED <<Live, Unlocked>>
<1> USE DEF TableInv, fork, Go, At
<1>1. Entered' = Entered /\ n \notin Entered
  BY DEF Entered, TableTypes, ChildInv
<1>2. TableTypes'
  BY MaxPidAssumption DEF TableTypes, Pcs, Pid
<1>3. PidInv'
  BY MaxPidAssumption DEF TableTypes, PidInv, Pid
<1>4. ChildInv'
  BY DEF TableTypes, ChildInv
<1>5. \A t \in Entered : t \in Slot /\ pid'[t] = pid[t]
  BY <1>1 DEF TableTypes, Entered
<1>6. EntriesOfLiveProcesses'
  BY <1>1, <1>5 DEF EntriesOfLiveProcesses
<1> QED
  BY <1>1, <1>2, <1>3, <1>4, <1>5, <1>6 DEF Live, Unlocked

\* A fork() that fails gives back a slot that has no entries.
LEMMA ForkFailStep ==
  ASSUME TableInv, NEW s \in Slot, fork_fail(s)
  PROVE  TableInv' /\ UNCHANGED <<Live, Unlocked>>
<1> USE DEF TableInv, fork_fail, Go, At
<1>1. Entered' = Entered
  BY DEF Entered, TableTypes, ChildInv
<1>2. TableTypes'
  BY Zenon DEF TableTypes, Pcs
<1>3. PidInv'
  BY DEF TableTypes, PidInv, ChildInv
<1>4. ChildInv'
  BY DEF TableTypes, ChildInv
<1>5. EntriesOfLiveProcesses'
  BY <1>1 DEF EntriesOfLiveProcesses
<1> QED
  BY <1>1, <1>2, <1>3, <1>4, <1>5 DEF Live, Unlocked

\* The child may run; it has its entries already.
LEMMA ForkReturnStep ==
  ASSUME TableInv, NEW s \in Slot, fork_return(s)
  PROVE  TableInv' /\ UNCHANGED <<Live, Unlocked>>
<1> USE DEF TableInv, fork_return, Go, At
<1>1. Entered' = Entered
  BY DEF Entered, TableTypes, ChildInv
<1>2. TableTypes'
  BY Zenon DEF TableTypes, Pcs
<1>3. PidInv'
  BY DEF TableTypes, PidInv, ChildInv
<1>4. ChildInv'
  BY DEF TableTypes, ChildInv
<1>5. EntriesOfLiveProcesses'
  BY <1>1 DEF EntriesOfLiveProcesses
<1> QED
  BY <1>1, <1>2, <1>3, <1>4, <1>5 DEF Live, Unlocked

\* wait() takes the pid from a slot that has no entries.
LEMMA WaitStep ==
  ASSUME TableInv, NEW s \in Slot, wait(s)
  PROVE  TableInv' /\ UNCHANGED <<Live, Unlocked>>
<1> USE DEF TableInv, wait, locals
<1>1. Entered' = Entered /\ s \notin Entered
  BY DEF Entered, At, TableTypes, ChildInv
<1>2. TableTypes'
  BY DEF TableTypes
<1>3. PidInv'
  BY DEF TableTypes, PidInv
<1>4. ChildInv'
  BY DEF TableTypes, ChildInv
<1>5. \A t \in Entered : t \in Slot /\ pid'[t] = pid[t]
  BY <1>1 DEF TableTypes, Entered
<1>6. EntriesOfLiveProcesses'
  BY <1>1, <1>5 DEF EntriesOfLiveProcesses
<1> QED
  BY <1>1, <1>2, <1>3, <1>4, <1>5, <1>6 DEF Live, Unlocked

\* exit() leaves no entry of the process.
LEMMA ExitStep ==
  ASSUME TableInv, NEW s \in Slot, exit_zombie(s)
  PROVE  TableInv' /\ Table!Exit(pid[s])
<1> USE DEF TableInv, exit_zombie, free_inode_locks, Go, At, locals
<1>1. Entered' = Entered \ {s} /\ s \in Entered
  BY DEF Entered, TableTypes, ChildInv
<1>2. TableTypes'
  BY DEF TableTypes, Pcs
<1>3. PidInv'
  BY DEF TableTypes, PidInv
<1>4. ChildInv'
  BY DEF TableTypes, ChildInv
<1>5. \A t \in Entered : t \in Slot /\ (pid[t] = pid[s] => t = s)
  BY DEF TableTypes, PidInv, Entered
<1>6. EntriesOfLiveProcesses'
  BY <1>1, <1>5 DEF EntriesOfLiveProcesses, TableTypes
<1>7. Live' = Live \ {pid[s]} /\ pid[s] \in Live
  BY <1>1, <1>5 DEF Live
<1>8. pid[s] # 0
  BY DEF PidInv, TableTypes
<1>9. Unlocked' = { u \in Unlocked : u[1] # pid[s] }
  BY <1>8 DEF Unlocked, TableTypes, Pid
<1> QED
  BY <1>2, <1>3, <1>4, <1>6, <1>7, <1>9 DEF Table!Exit

\* Row i with n in its first free entry, when there is one.
LEMMA EnterRow ==
  ASSUME TableTypes, NEW i \in Inode, NEW n \in Pid, FreeEntries(i) # {}
  PROVE  \E k \in Slot : pids[i][k] = 0 /\ Enter(i, n) = [pids[i] EXCEPT ![k] = n]
<1>1. Min(FreeEntries(i)) \in FreeEntries(i)
  BY MinFacts DEF FreeEntries, Slot
<1> QED
  BY <1>1, Zenon DEF FreeEntries, Enter

\* funlock() finds a free entry, and adds the pair to the relation.
LEMMA UnlockStep ==
  ASSUME TableInv, NEW s \in Slot, NEW i \in Inode, state[s] = "RUNNING", unlock_inode(i, s),
         UNCHANGED <<state, pid, nextpid, pc, child>>
  PROVE  TableInv' /\ Table!Unlock(pid[s], i)
<1> USE DEF TableInv
<1>1. s \in Entered /\ Entered' = Entered /\ Entered \subseteq Slot
  BY DEF Entered, At
<1>2. pid[s] \in Pid
  BY DEF TableTypes, PidInv
<1>3. Live' = Live /\ pid[s] \in Live
  BY <1>1 DEF Live
<1>4. CASE is_inode_unlocked(i, s)
  <2>1. UNCHANGED <<pids, panicked>>
    BY <1>4 DEF unlock_inode
  <2>2. TableInv' /\ Unlocked' = Unlocked
    BY <2>1, SameTable
  <2>3. <<pid[s], i>> \in Unlocked
    BY <1>2, <1>4 DEF is_inode_unlocked, Unlocked
  <2> QED
    BY <1>3, <2>2, <2>3 DEF Table!Unlock
<1>5. CASE ~is_inode_unlocked(i, s)
  <2>1. FreeEntries(i) # {}
    BY <1>5, FreeEntry DEF is_inode_unlocked
  <2>2. PICK k \in Slot : pids[i][k] = 0 /\ Enter(i, pid[s]) = [pids[i] EXCEPT ![k] = pid[s]]
    BY <1>2, <2>1, EnterRow
  <2>3. pids' = [pids EXCEPT ![i] = [pids[i] EXCEPT ![k] = pid[s]]] /\ ~panicked'
    BY <1>5, <2>1, <2>2, Zenon DEF unlock_inode
  <2>4. TableTypes' /\ PidInv' /\ ChildInv'
    BY <1>2, <2>3 DEF TableTypes, PidInv, ChildInv
  <2>5. EntriesOfLiveProcesses'
    BY <1>1, <1>5, <2>3 DEF EntriesOfLiveProcesses, TableTypes, is_inode_unlocked
  <2>6. Unlocked' = Unlocked \cup {<<pid[s], i>>}
    BY <1>2, <2>2, <2>3 DEF Unlocked, TableTypes, Pid
  <2> QED
    BY <1>3, <2>3, <2>4, <2>5, <2>6 DEF Table!Unlock
<1> QED
  BY <1>4, <1>5

\* fork_pids() finds a free entry for the child in every row that its parent is in.
LEMMA InheritStep ==
  ASSUME TableInv, NEW s \in Slot, fork_inherit(s)
  PROVE  TableInv' /\ Table!Fork(pid[s], pid[child[s]])
<1> DEFINE n == child[s]
           Inherited == { i \in Inode : is_inode_unlocked(i, s) }
<1> USE DEF TableInv, fork_inherit, Go, At, procs, locals
<1>1. n \in Slot /\ n # s /\ state[n] = "EMBRYO" /\ pid[n] \in Pid /\ pid[s] \in Pid
  BY DEF ChildInv, TableTypes, PidInv
<1>2. Entered' = Entered \cup {n} /\ s \in Entered /\ n \notin Entered /\ Entered \subseteq Slot
  BY <1>1 DEF Entered, TableTypes, ChildInv
<1>3. \A i \in Inode, j \in Slot : pids[i][j] # pid[n]
  BY <1>1, <1>2 DEF EntriesOfLiveProcesses, PidInv, TableTypes, Pid
<1>4. \A i \in Inode : FreeEntries(i) # {}
  BY <1>1, <1>3, FreeEntry
<1>5. /\ pids' = [i \in Inode |-> IF i \in Inherited THEN Enter(i, pid[n]) ELSE pids[i]]
      /\ ~panicked'
  BY <1>4 DEF fork_pids
<1>6. \A i \in Inode : \E k \in Slot :
        pids[i][k] = 0 /\ Enter(i, pid[n]) = [pids[i] EXCEPT ![k] = pid[n]]
  BY <1>1, <1>4, EnterRow, Zenon
<1>7. \A i \in Inherited : \E k \in Slot :
        pids[i][k] = 0 /\ pids'[i] = [pids[i] EXCEPT ![k] = pid[n]]
  BY <1>5, <1>6
<1>8. \A i \in Inode \ Inherited : pids'[i] = pids[i]
  BY <1>5
<1>9. TableTypes' /\ PidInv' /\ ChildInv'
  <2>1. pids' \in [Inode -> [Slot -> Pid \cup {0}]]
    BY <1>1, <1>5, <1>6 DEF TableTypes
  <2>2. pc' \in [Slot -> Pcs]
    BY DEF TableTypes, Pcs
  <2> QED
    BY <2>1, <2>2 DEF TableTypes, PidInv, ChildInv
<1>10. EntriesOfLiveProcesses'
  <2> SUFFICES ASSUME NEW i \in Inode
               PROVE  /\ \A j, k \in Slot : pids'[i][j] = pids'[i][k] /\ pids'[i][j] # 0 => j = k
                      /\ \A j \in Slot : pids'[i][j] # 0
                                          => \E t \in Entered \cup {n} : pid[t] = pids'[i][j]
    BY <1>2 DEF EntriesOfLiveProcesses
  <2>a. /\ \A j, k \in Slot : pids[i][j] = pids[i][k] /\ pids[i][j] # 0 => j = k
        /\ \A j \in Slot : pids[i][j] # 0 => \E t \in Entered : pid[t] = pids[i][j]
        /\ DOMAIN pids[i] = Slot
    BY Zenon DEF EntriesOfLiveProcesses, TableTypes
  <2> HIDE DEF TableInv, fork_inherit, Go, At, procs, locals, n, Inherited
  <2>1. CASE i \in Inherited
    <3>1. PICK k \in Slot : pids[i][k] = 0 /\ pids'[i] = [pids[i] EXCEPT ![k] = pid[n]]
      BY <1>7, <2>1, Zenon
    <3>2. \A j \in Slot : pids'[i][j] = IF j = k THEN pid[n] ELSE pids[i][j]
      BY <2>a, <3>1
    <3>3. \A j \in Slot : pids[i][j] # pid[n]
      BY <1>3
    <3> QED
      BY <2>a, <3>2, <3>3
  <2>2. CASE i \notin Inherited
    BY <1>8, <2>a, <2>2
  <2> QED
    BY <2>1, <2>2
<1>11. Live' = Live \cup {pid[n]} /\ pid[s] \in Live
  BY <1>2 DEF Live
<1>12. pid[n] \notin Live
  BY <1>1, <1>2 DEF Live, PidInv, Pid
<1>13. \A i \in Inode : i \in Inherited <=> <<pid[s], i>> \in Unlocked
  BY <1>1 DEF Unlocked, is_inode_unlocked
<1>14. \A i \in Inode, p \in Pid :
         <<p, i>> \in Unlocked' <=> <<p, i>> \in Unlocked \/ (p = pid[n] /\ i \in Inherited)
  <2> SUFFICES ASSUME NEW i \in Inode, NEW p \in Pid
               PROVE  (\E j \in Slot : pids'[i][j] = p)
                        <=> (\E j \in Slot : pids[i][j] = p) \/ (p = pid[n] /\ i \in Inherited)
    BY DEF Unlocked
  <2>1. CASE i \in Inherited
    <3> PICK k \in Slot : pids[i][k] = 0 /\ pids'[i] = [pids[i] EXCEPT ![k] = pid[n]]
      BY <1>7, <2>1
    <3> QED
      BY <2>1 DEF TableTypes, Pid
  <2>2. CASE i \notin Inherited
    BY <1>8, <2>2
  <2> QED
    BY <2>1, <2>2
<1>15. Unlocked' = Unlocked \cup
         { <<pid[n], i>> : i \in { j \in Inode : <<pid[s], j>> \in Unlocked } }
  <2>1. Unlocked \subseteq Pid \X Inode /\ Unlocked' \subseteq Pid \X Inode
    BY DEF Unlocked
  <2>2. { <<pid[n], i>> : i \in { j \in Inode : <<pid[s], j>> \in Unlocked } }
          = { <<pid[n], i>> : i \in Inherited }
    BY <1>13, Zenon
  <2>3. \A u \in Pid \X Inode :
          u \in { <<pid[n], i>> : i \in Inherited } <=> u[1] = pid[n] /\ u[2] \in Inherited
    BY <1>1
  <2>4. { <<pid[n], i>> : i \in Inherited } \subseteq Pid \X Inode
    BY <1>1
  <2>5. \A u \in Pid \X Inode :
          u \in Unlocked' <=> u \in Unlocked \/ u \in { <<pid[n], i>> : i \in Inherited }
    BY <1>14, <2>3
  <2> QED
    BY <2>1, <2>2, <2>4, <2>5, Zenon
<1> QED
  BY <1>5, <1>9, <1>10, <1>11, <1>12, <1>15 DEF Table!Fork

\* At the start only the first process lives, and nothing is unlocked.
LEMMA InitTable == Init => TableInv /\ Table!Init
<1> SUFFICES ASSUME Init PROVE TableInv /\ Table!Init
  OBVIOUS
<1> USE NprocAssumption, MaxPidAssumption DEF Init
<1>1. TableTypes
  BY DEF TableTypes, Pcs, Slot, Pid, NoSlot
<1>2. PidInv
  BY DEF PidInv, Slot
<1>3. ChildInv
  BY DEF ChildInv, Slot
<1>4. EntriesOfLiveProcesses
  BY DEF EntriesOfLiveProcesses
<1>5. Entered = {1} /\ 1 \in Slot
  BY DEF Entered, At, Slot
<1>6. Live = {1}
  BY <1>5 DEF Live
<1>7. Unlocked = {}
  BY DEF Unlocked, Pid
<1> QED
  BY <1>1, <1>2, <1>3, <1>4, <1>6, <1>7 DEF TableInv, Table!Init

\* Every step keeps the invariant, and is a step of UnlockSet or changes nothing of it.
LEMMA NextTable ==
  ASSUME TableInv, [Next]_vars
  PROVE  TableInv' /\ [Table!Next]_(Table!vars)
<1> USE DEF Table!vars
<1>1. CASE UNCHANGED vars
  BY <1>1, SameTable DEF vars
<1>2. ASSUME NEW s \in Slot, Step(s)
      PROVE  TableInv' /\ [Table!Next]_(Table!vars)
  <2> USE DEF procs, locals, inodes, files
  <2>1. ASSUME NEW i \in Inode, sys_open(s, i) \/ filefprot(s, i)
        PROVE  TableInv' /\ UNCHANGED <<Live, Unlocked>>
    BY <2>1, OtherCall, Zenon DEF sys_open, filefprot, At, Pcs
  <2>2. CASE open_fail(s) \/ open_alloc(s) \/ open_type(s) \/ open_return(s) \/ exit(s)
    BY <2>2, OtherCall DEF open_fail, open_alloc, open_type, open_return, exit, At, Pcs
  <2>3. ASSUME NEW d \in Fd, sys_close(s, d) \/ sys_dup(s, d)
        PROVE  TableInv' /\ UNCHANGED <<Live, Unlocked>>
    BY <2>3, SameTable DEF sys_close, sys_dup
  <2>4. CASE fork_fail(s)
    BY <2>4, ForkFailStep
  <2>5. CASE fork_inherit(s)
    <3>1. pid[s] \in Pid /\ pid[child[s]] \in Pid
      BY <2>5 DEF fork_inherit, At, TableInv, TableTypes, PidInv, ChildInv
    <3> QED
      BY <2>5, <3>1, InheritStep DEF Table!Next
  <2>6. CASE fork_return(s)
    BY <2>6, ForkReturnStep
  <2>7. CASE is_inode_open(s)
    BY <2>7, OtherCall, SameTable, Zenon DEF is_inode_open, Done, At, Pcs
  <2>8. ASSUME NEW str \in Password, fprot_return(s, str)
        PROVE  TableInv' /\ UNCHANGED <<Live, Unlocked>>
    BY <2>8, OtherCall, Zenon DEF fprot_return, Done, At, Pcs
  <2>9. ASSUME NEW i \in Inode, NEW str \in Password, filefunprot(s, i, str)
        PROVE  TableInv' /\ UNCHANGED <<Live, Unlocked>>
    BY <2>9, SameTable DEF filefunprot
  <2>10. ASSUME NEW i \in Inode, NEW str \in Password, filefunlock(s, i, str)
         PROVE  TableInv' /\ [Table!Next]_(Table!vars)
    <3>1. pid[s] \in Pid
      BY <2>10 DEF filefunlock, At, TableInv, TableTypes, PidInv
    <3>2. TableInv' /\ Table!Unlock(pid[s], i)
      BY <2>10, UnlockStep, Zenon DEF filefunlock, At
    <3> QED
      BY <3>1, <3>2 DEF Table!Next
  <2> QED
    BY <1>2, <2>1, <2>2, <2>3, <2>4, <2>5, <2>6, <2>7, <2>8, <2>9, <2>10 DEF Step
<1>3. ASSUME NEW s \in Slot, TableStep(s)
      PROVE  TableInv' /\ [Table!Next]_(Table!vars)
  <2>1. ASSUME NEW n \in Slot, fork(s, n)
        PROVE  TableInv' /\ UNCHANGED <<Live, Unlocked>>
    BY <2>1, ForkStep
  <2>2. CASE exit_zombie(s)
    <3>1. pid[s] \in Pid
      BY <2>2 DEF exit_zombie, At, TableInv, TableTypes, PidInv
    <3> QED
      BY <2>2, <3>1, ExitStep DEF Table!Next
  <2>3. CASE wait(s)
    BY <2>3, WaitStep
  <2> QED
    BY <1>3, <2>1, <2>2, <2>3 DEF TableStep
<1> QED
  BY <1>1, <1>2, <1>3 DEF Next

\* The table of unlocked inodes (fs.c) holds entries of live processes only, one for a
\* process, whatever forks, exits and unlocks race.
THEOREM TableInvariance == Spec => []TableInv
  BY InitTable, NextTable, PTL DEF Spec

\* unlock_inode() and fork_pids() never panic with "No free pid slots found".
THEOREM EntriesSuffice == Spec => []NoFreePidSlotsUnreachable
<1>1. TableInv => NoFreePidSlotsUnreachable
  BY DEF TableInv, NoFreePidSlotsUnreachable
<1> QED
  BY <1>1, TableInvariance, PTL

\* The table implements the relation between live processes and inodes of UnlockSet.
THEOREM Refinement == Spec => UnlockRelation
  BY InitTable, NextTable, TableInvariance, PTL DEF Spec, UnlockRelation, Table!Spec
-----------------------------------------------------------------------------
(***************************************************************************)
(* The file table: the counts, and then the types of the other variables.  *)
(***************************************************************************)
\* A set of descriptors has no more than NPROC * NOFILE members.
LEMMA DescriptorSet ==
  ASSUME NEW T \in SUBSET (Slot \X Fd)
  PROVE  IsFiniteSet(T) /\ Cardinality(T) \in 0 .. NPROC * NOFILE
<1>1. IsFiniteSet(Slot) /\ Cardinality(Slot) = NPROC
  BY NprocAssumption, FS_Interval DEF Slot
<1>2. IsFiniteSet(Fd) /\ Cardinality(Fd) = NOFILE
  <2>1. NOFILE - 1 \in Int /\ (0 > NOFILE - 1 <=> NOFILE = 0) /\ NOFILE - 1 - 0 + 1 = NOFILE
    BY FilesAssumption
  <2> QED
    BY <2>1, FS_Interval DEF Fd
<1>3. IsFiniteSet(Slot \X Fd) /\ Cardinality(Slot \X Fd) = NPROC * NOFILE
  BY <1>1, <1>2, FS_Product, Zenon
<1>4. IsFiniteSet(T) /\ Cardinality(T) <= NPROC * NOFILE
  BY <1>3, FS_Subset, Zenon
<1>5. Cardinality(T) \in Nat /\ NPROC * NOFILE \in Nat
  BY <1>4, FS_CardinalityType, NprocAssumption, FilesAssumption
<1> QED
  BY <1>4, <1>5

\* As many descriptors as a process has of a file.
LEMMA DescriptorsOfOne ==
  ASSUME NEW s \in Slot, NEW D \in SUBSET Fd
  PROVE  IsFiniteSet({s} \X D) /\ Cardinality({s} \X D) = Cardinality(D)
<1>1. IsFiniteSet(Fd)
  BY FS_Interval, FilesAssumption DEF Fd
<1>2. IsFiniteSet(D) /\ Cardinality(D) \in Nat
  BY <1>1, FS_Subset, FS_CardinalityType, Zenon
<1>3. IsFiniteSet({s}) /\ Cardinality({s}) = 1
  BY FS_Singleton, Zenon
<1>4. IsFiniteSet({s} \X D) /\ Cardinality({s} \X D) = Cardinality({s}) * Cardinality(D)
  BY <1>2, <1>3, FS_Product, Zenon
<1> QED
  BY <1>2, <1>3, <1>4

\* The descriptors that have file f when o gives the open files of the processes.
HoldersOf(o, f) == { x \in Slot \X Fd : o[x[1]][x[2]] = f }
RowOf(r, f) == { d \in Fd : r[d] = f }

LEMMA HoldersFacts ==
  ASSUME NEW o, NEW f
  PROVE  \E A \in SUBSET (Slot \X Fd) :
           /\ A = HoldersOf(o, f) /\ IsFiniteSet(A) /\ Cardinality(A) \in Int
           /\ \A s \in Slot, d \in Fd : <<s, d>> \in A <=> o[s][d] = f
<1>1. HoldersOf(o, f) \in SUBSET (Slot \X Fd)
  BY Zenon DEF HoldersOf
<1>2. IsFiniteSet(HoldersOf(o, f)) /\ Cardinality(HoldersOf(o, f)) \in Int
  BY <1>1, DescriptorSet
<1>3. \A s \in Slot, d \in Fd : <<s, d>> \in HoldersOf(o, f) <=> o[s][d] = f
  BY DEF HoldersOf
<1> WITNESS HoldersOf(o, f) \in SUBSET (Slot \X Fd)
<1> QED
  BY <1>1, <1>2, <1>3, Zenon

\* The descriptors of one process that have file g.
LEMMA RowFacts ==
  ASSUME NEW r, NEW g
  PROVE  \E D \in SUBSET Fd : D = RowOf(r, g) /\ \A e \in Fd : e \in D <=> r[e] = g
<1>1. RowOf(r, g) \in SUBSET Fd /\ \A e \in Fd : e \in RowOf(r, g) <=> r[e] = g
  BY Zenon DEF RowOf
<1> QED
  BY <1>1

\* Two sets of descriptors with the same members are the same.
LEMMA SameDescriptors ==
  ASSUME NEW A \in SUBSET (Slot \X Fd), NEW B \in SUBSET (Slot \X Fd),
         \A s \in Slot, d \in Fd : <<s, d>> \in A <=> <<s, d>> \in B
  PROVE  A = B
  OBVIOUS

\* A process gets file f, or none, as its descriptor d.
Put(o, o2, s, d, f) ==
  \A t \in Slot, e \in Fd : o2[t][e] = IF t = s /\ e = d THEN f ELSE o[t][e]

LEMMA PutOne ==
  ASSUME NEW o, NEW o2, NEW s \in Slot, NEW d \in Fd, NEW f, o[s][d] # f,
         Put(o, o2, s, d, f), NEW g
  PROVE  Cardinality(HoldersOf(o2, g)) = Cardinality(HoldersOf(o, g))
              + (IF g = f THEN 1 ELSE 0) - (IF g = o[s][d] THEN 1 ELSE 0)
<1>1. PICK A \in SUBSET (Slot \X Fd) :
        /\ A = HoldersOf(o, g) /\ IsFiniteSet(A) /\ Cardinality(A) \in Int
        /\ \A t \in Slot, e \in Fd : <<t, e>> \in A <=> o[t][e] = g
  BY HoldersFacts
<1>2. PICK B \in SUBSET (Slot \X Fd) :
        /\ B = HoldersOf(o2, g) /\ IsFiniteSet(B) /\ Cardinality(B) \in Int
        /\ \A t \in Slot, e \in Fd : <<t, e>> \in B <=> o2[t][e] = g
  BY HoldersFacts
<1>3. CASE g = f
  <2>1. A \cup {<<s, d>>} \in SUBSET (Slot \X Fd)
    OBVIOUS
  <2>2. ASSUME NEW t \in Slot, NEW e \in Fd
        PROVE  <<t, e>> \in B <=> <<t, e>> \in A \cup {<<s, d>>}
    BY <1>1, <1>2, <1>3 DEF Put
  <2>3. B = A \cup {<<s, d>>}
    BY <2>1, <2>2, SameDescriptors
  <2>4. <<s, d>> \notin A
    BY <1>1, <1>3
  <2>5. Cardinality(B) = Cardinality(A) + 1
    BY <1>1, <2>3, <2>4, FS_AddElement, Zenon
  <2> QED
    BY <1>1, <1>2, <1>3, <2>5
<1>4. CASE g # f /\ g = o[s][d]
  <2>1. A \ {<<s, d>>} \in SUBSET (Slot \X Fd)
    BY Zenon
  <2>2. ASSUME NEW t \in Slot, NEW e \in Fd
        PROVE  <<t, e>> \in B <=> <<t, e>> \in A \ {<<s, d>>}
    BY <1>1, <1>2, <1>4 DEF Put
  <2>3. B = A \ {<<s, d>>}
    BY <2>1, <2>2, SameDescriptors
  <2>4. <<s, d>> \in A
    BY <1>1, <1>4
  <2>5. Cardinality(B) = Cardinality(A) - 1
    BY <1>1, <2>3, <2>4, FS_RemoveElement, Zenon
  <2> QED
    BY <1>1, <1>2, <1>4, <2>5
<1>5. CASE g # f /\ g # o[s][d]
  <2>1. ASSUME NEW t \in Slot, NEW e \in Fd
        PROVE  <<t, e>> \in B <=> <<t, e>> \in A
    BY <1>1, <1>2, <1>5 DEF Put
  <2>2. B = A
    BY <2>1, SameDescriptors
  <2> QED
    BY <1>1, <1>2, <1>5, <2>2
<1> QED
  BY <1>3, <1>4, <1>5, Zenon

\* A process that had no file gets those of r: as fork() does, and exit() the other
\* way round.
PutAll(o, o2, s, r, g) ==
  /\ \A t \in Slot, e \in Fd : o2[t][e] = IF t = s THEN r[e] ELSE o[t][e]
  /\ \A d \in Fd : o[s][d] # g

LEMMA PutRow ==
  ASSUME NEW o, NEW o2, NEW s \in Slot, NEW r, NEW g, PutAll(o, o2, s, r, g)
  PROVE  /\ Cardinality(RowOf(r, g)) \in Int
         /\ Cardinality(HoldersOf(o2, g))
              = Cardinality(HoldersOf(o, g)) + Cardinality(RowOf(r, g))
<1>1. PICK A \in SUBSET (Slot \X Fd) :
        /\ A = HoldersOf(o, g) /\ IsFiniteSet(A) /\ Cardinality(A) \in Int
        /\ \A t \in Slot, e \in Fd : <<t, e>> \in A <=> o[t][e] = g
  BY HoldersFacts
<1>2. PICK B \in SUBSET (Slot \X Fd) :
        /\ B = HoldersOf(o2, g) /\ IsFiniteSet(B) /\ Cardinality(B) \in Int
        /\ \A t \in Slot, e \in Fd : <<t, e>> \in B <=> o2[t][e] = g
  BY HoldersFacts
<1>3. PICK D \in SUBSET Fd : D = RowOf(r, g) /\ \A e \in Fd : e \in D <=> r[e] = g
  BY RowFacts
<1>4. {s} \X D \in SUBSET (Slot \X Fd)
  OBVIOUS
<1>5. B = A \cup ({s} \X D)
  <2>1. A \cup ({s} \X D) \in SUBSET (Slot \X Fd)
    BY <1>4, Zenon
  <2>2. ASSUME NEW t \in Slot, NEW e \in Fd
        PROVE  <<t, e>> \in B <=> <<t, e>> \in A \cup ({s} \X D)
    <3>1. <<t, e>> \in {s} \X D <=> t = s /\ e \in D
      OBVIOUS
    <3> QED
      BY <1>1, <1>2, <1>3, <3>1 DEF PutAll
  <2> QED
    BY <2>1, <2>2, SameDescriptors
<1>6. A \cap ({s} \X D) = {}
  BY <1>1, <1>4 DEF PutAll
<1>7. IsFiniteSet({s} \X D) /\ Cardinality({s} \X D) = Cardinality(D)
  BY DescriptorsOfOne, Zenon
<1>8. Cardinality({s} \X D) \in Int
  BY <1>4, DescriptorSet
<1>9. Cardinality(A \cup ({s} \X D))
         = Cardinality(A) + Cardinality({s} \X D) - Cardinality(A \cap ({s} \X D))
  BY <1>1, <1>7, FS_Union, Zenon
<1>10. Cardinality(A \cap ({s} \X D)) = 0
  BY <1>6, FS_EmptySet, Zenon
<1>11. Cardinality(D) \in Int /\ Cardinality(B) = Cardinality(A) + Cardinality(D)
  BY <1>1, <1>5, <1>7, <1>8, <1>9, <1>10
<1> QED
  BY <1>1, <1>2, <1>3, <1>11, Zenon

\* The part of RefCountsDescriptors that is inductive, given TableInv.
NoneOpen == \A s \in Slot : state[s] # "RUNNING" \/ pc[s] = "exiting" =>
              \A d \in Fd : ofile[s][d] = NoFile
FilesInv ==
  /\ ofile \in [Slot -> [Fd -> File \cup {NoFile}]]
  /\ ref \in [File -> Int]
  /\ \A f \in File : ref[f] = Cardinality(HoldersOf(ofile, f))
  /\ NoneOpen

\* open() gives a free file a first descriptor.
LEMMA OpenAllocStep ==
  ASSUME FilesInv, TableTypes, NEW s \in Slot, open_alloc(s)
  PROVE  FilesInv'
<1> USE DEF FilesInv
<1>1. PICK f \in File : f = Min(FreeFiles) /\ ref[f] = 0 /\ f # NoFile
  <2>1. FreeFiles \in SUBSET Nat /\ FreeFiles # {}
    BY DEF open_alloc, FreeFiles, File
  <2>2. Min(FreeFiles) \in FreeFiles
    BY <2>1, MinFacts
  <2>3. Min(FreeFiles) \in File /\ ref[Min(FreeFiles)] = 0
    BY <2>2 DEF FreeFiles
  <2> QED
    BY <2>3 DEF File, NoFile
<1>2. PICK d \in Fd : d = Min(FreeFds(s)) /\ ofile[s][d] = NoFile
  <2>1. FreeFds(s) \in SUBSET Nat /\ FreeFds(s) # {}
    BY DEF open_alloc, FreeFds, Fd
  <2>2. Min(FreeFds(s)) \in FreeFds(s)
    BY <2>1, MinFacts
  <2> QED
    BY <2>2, Zenon DEF FreeFds
<1>3. ref' = [ref EXCEPT ![f] = 1] /\ ofile' = [ofile EXCEPT ![s][d] = f]
  BY <1>1, <1>2 DEF open_alloc
<1>4. \A t \in Slot, e \in Fd : ofile'[t][e] = IF t = s /\ e = d THEN f ELSE ofile[t][e]
  BY <1>3
<1>t. ofile' \in [Slot -> [Fd -> File \cup {NoFile}]]
  BY <1>3
<1>5. \A g \in File : ref'[g] = Cardinality(HoldersOf(ofile', g))
  <2> TAKE g \in File
  <2>1. Cardinality(HoldersOf(ofile', g)) = Cardinality(HoldersOf(ofile, g))
          + (IF g = f THEN 1 ELSE 0) - (IF g = ofile[s][d] THEN 1 ELSE 0)
    <3> HIDE DEF FilesInv
    <3>1. ofile[s][d] # f
      BY <1>1, <1>2
    <3>2. Put(ofile, ofile', s, d, f)
      BY <1>4, Zenon DEF Put
    <3> QED
      BY <3>1, <3>2, PutOne
  <2>2. g # NoFile
    BY DEF File, NoFile
  <2> QED
    BY <1>1, <1>2, <1>3, <2>1, <2>2
<1>6. NoneOpen'
  BY <1>4 DEF NoneOpen, TableTypes, open_alloc, procs, At, Go
<1>7. ref' \in [File -> Int]
  BY <1>3
<1> QED
  BY <1>t, <1>5, <1>6, <1>7

\* close() takes one descriptor from a file.
LEMMA CloseStep ==
  ASSUME FilesInv, NEW s \in Slot, NEW d \in Fd, sys_close(s, d)
  PROVE  FilesInv'
<1> USE DEF FilesInv
<1>1. PICK f \in File : f = ofile[s][d] /\ f # NoFile
  BY DEF sys_close
<1>2. ref' = [g \in File |-> ref[g] - (IF g = f THEN 1 ELSE 0)]
  BY <1>1 DEF sys_close, fileclose
<1>3. \A t \in Slot, e \in Fd : ofile'[t][e] = IF t = s /\ e = d THEN NoFile ELSE ofile[t][e]
  BY DEF sys_close
<1>t. ofile' \in [Slot -> [Fd -> File \cup {NoFile}]]
  BY DEF sys_close
<1>4. \A g \in File : ref'[g] = Cardinality(HoldersOf(ofile', g))
  <2> TAKE g \in File
  <2>1. Cardinality(HoldersOf(ofile', g)) = Cardinality(HoldersOf(ofile, g))
          + (IF g = NoFile THEN 1 ELSE 0) - (IF g = ofile[s][d] THEN 1 ELSE 0)
    <3> HIDE DEF FilesInv
    <3>1. ofile[s][d] # NoFile
      BY <1>1
    <3>2. Put(ofile, ofile', s, d, NoFile)
      BY <1>3, Zenon DEF Put
    <3> QED
      BY <3>1, <3>2, PutOne
  <2>2. g # NoFile
    BY DEF File, NoFile
  <2> QED
    BY <1>1, <1>2, <2>1, <2>2
<1>5. NoneOpen'
  BY <1>3, Zenon DEF NoneOpen, sys_close, procs
<1>6. ref' \in [File -> Int]
  BY <1>2
<1> QED
  BY <1>t, <1>4, <1>5, <1>6

\* dup() adds one.
LEMMA DupStep ==
  ASSUME FilesInv, NEW s \in Slot, NEW d \in Fd, sys_dup(s, d)
  PROVE  FilesInv'
<1> USE DEF FilesInv
<1>1. PICK f \in File : f = ofile[s][d] /\ f # NoFile
  BY DEF sys_dup
<1>2. PICK n \in Fd : n = Min(FreeFds(s)) /\ ofile[s][n] = NoFile
  <2>1. FreeFds(s) \in SUBSET Nat /\ FreeFds(s) # {}
    BY DEF sys_dup, FreeFds, Fd
  <2>2. Min(FreeFds(s)) \in FreeFds(s)
    BY <2>1, MinFacts
  <2> QED
    BY <2>2, Zenon DEF FreeFds
<1>3. ref' = [ref EXCEPT ![f] = @ + 1] /\ ofile' = [ofile EXCEPT ![s][n] = f]
  BY <1>1, <1>2 DEF sys_dup
<1>4. \A t \in Slot, e \in Fd : ofile'[t][e] = IF t = s /\ e = n THEN f ELSE ofile[t][e]
  BY <1>3
<1>t. ofile' \in [Slot -> [Fd -> File \cup {NoFile}]]
  BY <1>3
<1>5. \A g \in File : ref'[g] = Cardinality(HoldersOf(ofile', g))
  <2> TAKE g \in File
  <2>1. Cardinality(HoldersOf(ofile', g)) = Cardinality(HoldersOf(ofile, g))
          + (IF g = f THEN 1 ELSE 0) - (IF g = ofile[s][n] THEN 1 ELSE 0)
    <3> HIDE DEF FilesInv
    <3>1. ofile[s][n] # f
      BY <1>1, <1>2
    <3>2. Put(ofile, ofile', s, n, f)
      BY <1>4, Zenon DEF Put
    <3> QED
      BY <3>1, <3>2, PutOne
  <2>2. g # NoFile
    BY DEF File, NoFile
  <2> QED
    BY <1>1, <1>2, <1>3, <2>1, <2>2
<1>6. NoneOpen'
  BY <1>4, Zenon DEF NoneOpen, sys_dup, At, procs
<1>7. ref' \in [File -> Int]
  BY <1>3
<1> QED
  BY <1>t, <1>5, <1>6, <1>7

\* fork() gives the child, which has no file, all descriptors of the parent.
LEMMA ForkFilesStep ==
  ASSUME FilesInv, TableInv, NEW s \in Slot, fork_return(s)
  PROVE  FilesInv'
<1> USE DEF FilesInv
<1>1. PICK n \in Slot : n = child[s] /\ state[n] = "EMBRYO"
  BY Zenon DEF TableInv, ChildInv, fork_return, At
<1>2. n # s /\ \A d \in Fd : ofile[n][d] = NoFile
  BY <1>1 DEF fork_return, At, NoneOpen
<1>3. /\ ofile' \in [Slot -> [Fd -> File \cup {NoFile}]]
      /\ \A t \in Slot, e \in Fd : ofile'[t][e] = IF t = n THEN ofile[s][e] ELSE ofile[t][e]
  BY <1>1 DEF fork_return
<1>4. ref' = [g \in File |-> ref[g] + Cardinality(RowOf(ofile[s], g))]
  BY Zenon DEF fork_return, Descriptors, RowOf
<1>5. \A g \in File : /\ ref'[g] = Cardinality(HoldersOf(ofile', g))
                      /\ Cardinality(RowOf(ofile[s], g)) \in Int
  <2> TAKE g \in File
  <2>1. \A d \in Fd : ofile[n][d] # g
    BY <1>2 DEF File, NoFile
  <2>2. /\ Cardinality(RowOf(ofile[s], g)) \in Int
        /\ Cardinality(HoldersOf(ofile', g)) = Cardinality(HoldersOf(ofile, g)) + Cardinality(RowOf(ofile[s], g))
    <3> HIDE DEF FilesInv
    <3>1. \A t \in Slot, e \in Fd : ofile'[t][e] = IF t = n THEN ofile[s][e] ELSE ofile[t][e]
      BY <1>3
    <3>2. PutAll(ofile, ofile', n, ofile[s], g)
      BY <2>1, <3>1, Zenon DEF PutAll
    <3> QED
      BY <3>2, PutRow
  <2> QED
    BY <1>4, <2>2
<1>6. NoneOpen'
  <2>1. pc[n] = "user"
    BY <1>1, Zenon DEF TableInv, ChildInv
  <2> QED
    BY <1>1, <1>3, <2>1 DEF TableInv, TableTypes, NoneOpen, fork_return, At, Go
<1> QED
  BY <1>3, <1>4, <1>5, <1>6

\* exit() takes all descriptors of the process away.
LEMMA ExitFilesStep ==
  ASSUME FilesInv, TableTypes, NEW s \in Slot, exit(s)
  PROVE  FilesInv'
<1> USE DEF FilesInv
<1>1. /\ ofile' \in [Slot -> [Fd -> File \cup {NoFile}]]
      /\ \A t \in Slot, e \in Fd : ofile'[t][e] = IF t = s THEN NoFile ELSE ofile[t][e]
  BY DEF exit
<1>2. ref' = [g \in File |-> ref[g] - Cardinality(RowOf(ofile[s], g))]
  BY DEF exit, fileclose, Descriptors, RowOf
<1>3. \A g \in File : /\ ref'[g] = Cardinality(HoldersOf(ofile', g))
                      /\ Cardinality(RowOf(ofile[s], g)) \in Int
  <2> TAKE g \in File
  <2>1. \A d \in Fd : ofile'[s][d] # g
    BY <1>1 DEF File, NoFile
  <2>2. \A t \in Slot, e \in Fd : ofile[t][e] = IF t = s THEN ofile[s][e] ELSE ofile'[t][e]
    BY <1>1
  <2>3. /\ Cardinality(RowOf(ofile[s], g)) \in Int
        /\ Cardinality(HoldersOf(ofile, g)) = Cardinality(HoldersOf(ofile', g)) + Cardinality(RowOf(ofile[s], g))
    <3> HIDE DEF FilesInv
    <3>1. PutAll(ofile', ofile, s, ofile[s], g)
      BY <2>1, <2>2, Zenon DEF PutAll
    <3> QED
      BY <3>1, PutRow
  <2>4. Cardinality(HoldersOf(ofile', g)) \in Int
    BY HoldersFacts
  <2> QED
    BY <1>2, <2>3, <2>4
<1>4. NoneOpen'
  BY <1>1 DEF TableTypes, NoneOpen, exit, procs, Go
<1> QED
  BY <1>1, <1>2, <1>3, <1>4

\* A step that leaves the descriptors and the counts alone, and takes no process away.
LEMMA FilesKept ==
  ASSUME FilesInv, UNCHANGED <<ofile, ref>>,
         \A s \in Slot : state'[s] # "RUNNING" \/ pc'[s] = "exiting" =>
                           state[s] # "RUNNING" \/ pc[s] = "exiting"
  PROVE  FilesInv'
<1>1. ofile' = ofile /\ ref' = ref
  OBVIOUS
<1>2. NoneOpen'
  BY Zenon DEF FilesInv, NoneOpen
<1> QED
  BY <1>1, <1>2, Zenon DEF FilesInv

\* Every step keeps the counts.
LEMMA NextFiles ==
  ASSUME FilesInv, TableInv, [Next]_vars
  PROVE  FilesInv'
<1> DEFINE Kept == /\ UNCHANGED <<ofile, ref>>
                   /\ \A s \in Slot : state'[s] # "RUNNING" \/ pc'[s] = "exiting" =>
                                         state[s] # "RUNNING" \/ pc[s] = "exiting"
<1> USE DEF procs, files, At, Go
<1>1. TableTypes
  BY DEF TableInv
<1>2. CASE UNCHANGED vars
  BY <1>2, FilesKept, Zenon DEF vars
<1>3. ASSUME NEW s \in Slot, Step(s)
      PROVE  FilesInv'
  <2>1. ASSUME NEW i \in Inode, sys_open(s, i) \/ filefprot(s, i)
        PROVE  Kept
    BY <1>1, <2>1 DEF sys_open, filefprot, TableTypes
  <2>2. CASE open_fail(s) \/ open_type(s) \/ open_return(s)
    <3>1. Kept
      BY <1>1, <2>2, Zenon DEF open_fail, open_type, open_return, TableTypes
    <3> QED
      BY <3>1, FilesKept
  <2>a. CASE fork_fail(s)
    <3>1. state[child[s]] = "EMBRYO"
      BY <2>a DEF fork_fail, TableInv, ChildInv
    <3>2. Kept
      BY <1>1, <2>a, <3>1 DEF fork_fail, TableTypes
    <3> QED
      BY <3>2, FilesKept, Zenon
  <2>b. CASE fork_inherit(s)
    <3>1. Kept
      BY <1>1, <2>b DEF fork_inherit, TableTypes
    <3> QED
      BY <3>1, FilesKept
  <2>4. CASE is_inode_open(s)
    <3>1. Kept
      BY <1>1, <2>4, Zenon DEF is_inode_open, Done, TableTypes
    <3> QED
      BY <3>1, FilesKept
  <2>5. ASSUME NEW str \in Password, fprot_return(s, str)
        PROVE  Kept
    BY <1>1, <2>5 DEF fprot_return, Done, TableTypes
  <2>6. ASSUME NEW i \in Inode, NEW str \in Password, filefunprot(s, i, str) \/ filefunlock(s, i, str)
        PROVE  Kept
    BY <2>6, Zenon DEF filefunprot, filefunlock
  <2>7. ASSUME NEW d \in Fd, sys_close(s, d) \/ sys_dup(s, d)
        PROVE  FilesInv'
    BY <2>7, CloseStep, DupStep
  <2>8. CASE open_alloc(s) \/ fork_return(s) \/ exit(s)
    BY <1>1, <2>8, OpenAllocStep, ForkFilesStep, ExitFilesStep
  <2>9. ASSUME Kept PROVE FilesInv'
    BY <2>9, FilesKept
  <2> HIDE DEF Kept, procs, files, At, Go
  <2> QED
    BY <1>3, <2>1, <2>2, <2>a, <2>b, <2>4, <2>5, <2>6, <2>7, <2>8, <2>9 DEF Step
<1>4. ASSUME NEW s \in Slot, TableStep(s)
      PROVE  FilesInv'
  <2>1. ASSUME NEW n \in Slot, fork(s, n)
        PROVE  Kept
    BY <1>1, <2>1 DEF fork, TableTypes
  <2>2. CASE exit_zombie(s)
    <3>1. Kept
      BY <1>1, <2>2 DEF exit_zombie, TableTypes
    <3> QED
      BY <3>1, FilesKept
  <2>3. CASE wait(s)
    <3>1. Kept
      BY <1>1, <2>3 DEF wait, TableTypes
    <3> QED
      BY <3>1, FilesKept
  <2> QED
    BY <1>4, <2>1, <2>2, <2>3, FilesKept DEF TableStep
<1> HIDE DEF procs, files, At, Go
<1> QED
  BY <1>2, <1>3, <1>4 DEF Next

\* What a password is cut to.
LEMMA Cut ==
  ASSUME NEW str \in Seq(STRING), NEW n \in Nat
  PROVE  Prefix(str, n) \in Seq(STRING) /\ Len(Prefix(str, n)) =< n
<1> DEFINE m == Min({Len(str), n})
<1>1. m \in Nat /\ m =< Len(str) /\ m =< n
  BY MinOfTwo
<1> HIDE DEF m
<1>2. \A i \in 1 .. m : str[i] \in STRING
  BY <1>1
<1>3. SubSeq(str, 1, m) \in Seq(STRING) /\ Len(SubSeq(str, 1, m)) = IF 1 =< m THEN m - 1 + 1 ELSE 0
  BY <1>1, <1>2
<1>4. Prefix(str, n) = SubSeq(str, 1, m)
  BY DEF Prefix, m
<1> QED
  BY <1>1, <1>3, <1>4

\* A password is always shorter than PASSLEN.
LEMMA NextPasswords ==
  ASSUME PasswordTypes, [Next]_vars
  PROVE  PasswordTypes'
<1>1. CASE UNCHANGED password
  BY <1>1 DEF PasswordTypes
<1>2. ASSUME NEW str \in Password, NEW s \in Slot, fprot_return(s, str)
      PROVE  PasswordTypes'
  <2>1. str \in Seq(STRING) /\ PASSLEN - 1 \in Nat
    BY PasswordAssumption, PasslenAssumption
  <2>2. safestrcpy(str) \in Seq(STRING) /\ Len(safestrcpy(str)) =< PASSLEN - 1
    BY <2>1, Cut DEF safestrcpy
  <2>3. Len(safestrcpy(str)) \in Nat
    BY <2>2
  <2>4. Len(safestrcpy(str)) < PASSLEN
    BY <2>2, <2>3, PasslenAssumption
  <2> QED
    BY <1>2, <2>2, <2>4, Zenon DEF fprot_return, PasswordTypes
<1>3. ASSUME NEW str \in Password, NEW s \in Slot, NEW i \in Inode, filefunprot(s, i, str)
      PROVE  PasswordTypes'
  <2>1. <<>> \in Seq(STRING) /\ Len(<<>>) = 0 /\ 0 < PASSLEN
    BY PasslenAssumption
  <2> QED
    BY <1>3, <2>1 DEF filefunprot, PasswordTypes
<1>4. CASE UNCHANGED vars
  BY <1>1, <1>4 DEF vars
<1>5. ASSUME NEW s \in Slot, TableStep(s)
      PROVE  PasswordTypes'
  BY <1>1, <1>5, Zenon DEF TableStep, fork, exit_zombie, wait, inodes
<1>6. ASSUME NEW s \in Slot, Step(s)
      PROVE  PasswordTypes'
  <2>1. ASSUME NEW i \in Inode, NEW str \in Password, filefunlock(s, i, str)
        PROVE  UNCHANGED password
    BY <2>1 DEF filefunlock, inodes
  <2>2. CASE open_fail(s) \/ open_alloc(s) \/ open_type(s) \/ open_return(s)
    BY <1>1, <2>2 DEF open_fail, open_alloc, open_type, open_return, inodes
  <2>3. CASE fork_fail(s) \/ fork_inherit(s) \/ fork_return(s) \/ exit(s) \/ is_inode_open(s)
    BY <1>1, <2>3, Zenon DEF fork_fail, fork_inherit, fork_return, exit, is_inode_open, inodes
  <2>4. ASSUME NEW i \in Inode, sys_open(s, i) \/ filefprot(s, i)
        PROVE  UNCHANGED password
    BY <2>4 DEF sys_open, filefprot
  <2>5. ASSUME NEW d \in Fd, sys_close(s, d) \/ sys_dup(s, d)
        PROVE  UNCHANGED password
    BY <2>5 DEF sys_close, sys_dup, inodes
  <2> QED
    BY <1>1, <1>2, <1>3, <1>6, <2>1, <2>2, <2>3, <2>4, <2>5 DEF Step
<1> QED
  BY <1>4, <1>5, <1>6, Zenon DEF Next

\* The other variables of the calls keep their types.
LEMMA NextCalls ==
  ASSUME CallTypes, [Next]_vars
  PROVE  CallTypes'
<1> USE DEF files, inodes, locals
<1>1. CASE UNCHANGED vars
  BY <1>1, Zenon DEF CallTypes, vars
<1>2. ASSUME NEW s \in Slot, TableStep(s)
      PROVE  CallTypes'
  BY <1>2 DEF TableStep, fork, exit_zombie, wait, CallTypes
<1>3. ASSUME NEW s \in Slot, Step(s)
      PROVE  CallTypes'
  <2>1. CASE open_fail(s) \/ open_type(s) \/ open_return(s)
    BY <2>1, Zenon DEF open_fail, open_type, open_return, iunlock, CallTypes
  <2>2. CASE open_alloc(s)
    <3>1. FreeFiles \in SUBSET Nat /\ FreeFiles # {}
      BY <2>2 DEF open_alloc, FreeFiles, File
    <3>2. Min(FreeFiles) \in FreeFiles
      BY <3>1, MinFacts
    <3>3. Min(FreeFiles) \in File
      BY <3>2 DEF FreeFiles
    <3> QED
      BY <2>2, <3>3, Zenon DEF open_alloc, iunlock, CallTypes
  <2>3. CASE fork_fail(s) \/ fork_inherit(s) \/ fork_return(s)
    BY <2>3 DEF fork_fail, fork_inherit, fork_return, CallTypes
  <2>4. CASE exit(s)
    BY <2>4 DEF exit, fileclose, CallTypes
  <2>5. ASSUME NEW d \in Fd, sys_close(s, d) \/ sys_dup(s, d)
        PROVE  CallTypes'
    BY <2>5, Zenon DEF sys_close, sys_dup, fileclose, CallTypes
  <2>6. ASSUME NEW i \in Inode, sys_open(s, i) \/ filefprot(s, i)
        PROVE  CallTypes'
    <3>1. 1 \in 0 .. NPROC + 1
      BY NprocAssumption
    <3> QED
      BY <2>6, <3>1, Zenon DEF sys_open, filefprot, ilock, CallTypes
  <2>7. CASE is_inode_open(s)
    <3>1. 0 \in 0 .. NPROC + 1 /\ (scan[s] + 1 \in 0 .. NPROC + 1)
      BY <2>7, NprocAssumption DEF is_inode_open, CallTypes
    <3>2. CASE Done(s)
      BY <2>7, <3>1, <3>2, Zenon DEF is_inode_open, Done, iunlock, CallTypes
    <3>3. CASE scan' = [scan EXCEPT ![s] = @ + 1] /\ UNCHANGED <<busy, inode>>
      BY <2>7, <3>1, <3>3, Zenon DEF is_inode_open, CallTypes
    <3> QED
      BY <2>7, <3>2, <3>3, Zenon DEF is_inode_open
  <2>8. ASSUME NEW str \in Password, fprot_return(s, str)
        PROVE  CallTypes'
    <3>1. 0 \in 0 .. NPROC + 1
      BY NprocAssumption
    <3> QED
      BY <2>8, <3>1, Zenon DEF fprot_return, Done, iunlock, CallTypes
  <2>9. ASSUME NEW i \in Inode, NEW str \in Password, filefunprot(s, i, str) \/ filefunlock(s, i, str)
        PROVE  CallTypes'
    BY <2>9 DEF filefunprot, filefunlock, CallTypes
  <2> HIDE DEF files, inodes, locals
  <2> QED
    BY <1>3, <2>1, <2>2, <2>3, <2>4, <2>5, <2>6, <2>7, <2>8, <2>9 DEF Step
<1> HIDE DEF files, inodes, locals
<1> QED
  BY <1>1, <1>2, <1>3 DEF Next

\* The first process has no file.
LEMMA InitFiles == Init => FilesInv /\ PasswordTypes /\ CallTypes
<1> SUFFICES ASSUME Init PROVE FilesInv /\ PasswordTypes /\ CallTypes
  OBVIOUS
<1>1. PasswordTypes
  <2>1. \A i \in Inode : password[i] = <<>> /\ Len(password[i]) = 0
    BY DEF Init
  <2> QED
    BY <2>1, PasslenAssumption DEF Init, PasswordTypes
<1>2. CallTypes
  BY NprocAssumption DEF Init, CallTypes, NoSlot, NoFile
<1>3. \A f \in File : Cardinality(HoldersOf(ofile, f)) = 0
  <2> TAKE f \in File
  <2>1. HoldersOf(ofile, f) = {}
    BY DEF Init, HoldersOf, File, NoFile
  <2> QED
    BY <2>1, FS_EmptySet, Zenon
<1>4. NoneOpen
  BY DEF Init, NoneOpen
<1>5. ofile \in [Slot -> [Fd -> File \cup {NoFile}]] /\ ref = [f \in File |-> 0]
  BY DEF Init
<1>6. FilesInv
  BY <1>3, <1>4, <1>5 DEF FilesInv
<1> QED
  BY <1>1, <1>2, <1>6

\* What is inductive implies RefCountsDescriptors.
LEMMA FilesInvImplies ==
  ASSUME TableInv, FilesInv, PasswordTypes, CallTypes
  PROVE  RefCountsDescriptors
<1>1. \A f \in File : Holders(f) = HoldersOf(ofile, f)
  BY Zenon DEF Holders, HoldersOf
<1>2. \A f \in File : Cardinality(HoldersOf(ofile, f)) \in 0 .. NPROC * NOFILE
  <2>1. \A f \in File : HoldersOf(ofile, f) \in SUBSET (Slot \X Fd)
    BY Zenon DEF HoldersOf
  <2> QED
    BY <2>1, DescriptorSet, Zenon
<1>3. FileTypes
  BY <1>2 DEF FilesInv, FileTypes
<1>4. TableTypes /\ panicked = FALSE
  BY DEF TableInv
<1>5. panicked \in BOOLEAN
  BY <1>4, Zenon
<1> QED
  BY <1>1, <1>3, <1>4, <1>5, Zenon DEF RefCountsDescriptors, TypeOK, FilesInv, NoneOpen

\* filealloc(), filedup() and fileclose() (file.c) keep struct file.ref equal to the
\* number of descriptors in all processes, whatever calls of fork(), exit(), open(),
\* dup() and close() interleave: a file in use is never allocated again, and one that
\* no process has is free.
THEOREM DescriptorsAreCounted == Spec => []RefCountsDescriptors
<1>1. Init => FilesInv /\ PasswordTypes /\ CallTypes
  BY InitFiles
<1>2. TableInv /\ FilesInv /\ PasswordTypes /\ CallTypes /\ [Next]_vars
        => (FilesInv /\ PasswordTypes /\ CallTypes)'
  BY NextFiles, NextPasswords, NextCalls
<1>3. TableInv /\ FilesInv /\ PasswordTypes /\ CallTypes => RefCountsDescriptors
  BY FilesInvImplies
<1> QED
  BY <1>1, <1>2, <1>3, TableInvariance, PTL DEF Spec
=============================================================================
