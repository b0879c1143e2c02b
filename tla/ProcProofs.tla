----------------------------- MODULE ProcProofs -----------------------------
(***************************************************************************)
(* Proofs about Proc, for any number of CPUs and of slots in the process   *)
(* table.  There is a lemma for each action, with a step for each conjunct *)
(* of ProcInv: first the steps of scheduler(), sched(), yield(), sleep()   *)
(* and wakeup(), then those of fork(), exit(), wait() and kill().  So      *)
(* ProcInv is inductive, and it implies the safety properties.             *)
(***************************************************************************)
EXTENDS Proc, TLAPS

\* scheduler() takes ptable.lock on an idle CPU.
LEMMA AcquireInv ==
  ASSUME ProcInv, NEW c \in CPU, sched_acquire(c)
  PROVE  ProcInv'
<1> USE DEF ProcInv
<1>1. TypeOK'
  BY DEF sched_acquire, table, TypeOK
<1>2. CpuInv'
  BY NoneAssumption DEF sched_acquire, TypeOK, CpuInv
<1>3. ThreadInv'
  BY DEF sched_acquire, table, TypeOK, ThreadInv
<1>4. ReturnInv'
  BY DEF sched_acquire, table, TypeOK, ReturnInv
<1>5. ForkInv'
  BY DEF sched_acquire, table, TypeOK, ForkInv, Forking
<1>6. TreeInv'
  BY DEF sched_acquire, table, TypeOK, TreeInv, Lives
<1>7. PidInv'
  BY DEF sched_acquire, table, TypeOK, PidInv
<1>8. NoWakeupMissed'
  BY DEF sched_acquire, table, TypeOK, NoWakeupMissed
<1> QED
  BY <1>1, <1>2, <1>3, <1>4, <1>5, <1>6, <1>7, <1>8

\* scheduler() has gone round the table and releases it.
LEMMA ReleaseInv ==
  ASSUME ProcInv, NEW c \in CPU, sched_release(c)
  PROVE  ProcInv'
<1> USE DEF ProcInv
<1>1. TypeOK'
  BY DEF sched_release, table, TypeOK
<1>2. CpuInv'
  BY DEF sched_release, TypeOK, CpuInv
<1>3. ThreadInv'
  BY DEF sched_release, table, TypeOK, ThreadInv
<1>4. ReturnInv'
  BY DEF sched_release, table, TypeOK, ReturnInv
<1>5. ForkInv'
  BY DEF sched_release, table, TypeOK, ForkInv, Forking
<1>6. TreeInv'
  BY DEF sched_release, table, TypeOK, TreeInv, Lives
<1>7. PidInv'
  BY DEF sched_release, table, TypeOK, PidInv
<1>8. NoWakeupMissed'
  BY DEF sched_release, table, TypeOK, NoWakeupMissed
<1> QED
  BY <1>1, <1>2, <1>3, <1>4, <1>5, <1>6, <1>7, <1>8

\* scheduler() gives the CPU, and with it the lock, to a RUNNABLE process.
LEMMA RunInv ==
  ASSUME ProcInv, NEW c \in CPU, NEW s \in Slot, sched_run(c, s)
  PROVE  ProcInv'
<1> USE DEF ProcInv
<1>1. TypeOK'
  BY DEF sched_run, Go, TypeOK, Pcs
<1>2. CpuInv'
  BY NoneAssumption DEF sched_run, Go, TypeOK, CpuInv, ThreadInv
<1>3. ThreadInv'
  BY NoneAssumption DEF sched_run, Go, TypeOK, CpuInv, ThreadInv
<1>4. ReturnInv'
  BY DEF sched_run, Go, TypeOK, ReturnInv
<1>5. ForkInv'
  BY DEF sched_run, Go, ThreadInv, TypeOK, ForkInv, Forking
<1>6. TreeInv'
  BY DEF sched_run, TypeOK, TreeInv, Lives
<1>7. PidInv'
  BY DEF sched_run, TypeOK, PidInv
<1>8. NoWakeupMissed'
  BY DEF sched_run, Go, ThreadInv, TypeOK, NoWakeupMissed
<1> QED
  BY <1>1, <1>2, <1>3, <1>4, <1>5, <1>6, <1>7, <1>8

\* sched(): the CPU leaves the stack of the process and is back in scheduler().
LEMMA SwtchInv ==
  ASSUME ProcInv, NEW c \in CPU, NEW s \in Slot, swtch(c, s)
  PROVE  ProcInv'
<1> USE DEF ProcInv
<1>1. TypeOK'
  BY DEF swtch, Go, table, TypeOK, Pcs
<1>2. CpuInv'
  BY DEF swtch, At, Go, TypeOK, CpuInv
<1>3. ThreadInv'
  BY NoneAssumption DEF swtch, At, Go, table, TypeOK, CpuInv, ThreadInv
<1>4. ReturnInv'
  BY DEF swtch, Go, table, TypeOK, ReturnInv
<1>5. ForkInv'
  BY DEF swtch, At, Go, table, TypeOK, ForkInv, Forking
<1>6. TreeInv'
  BY DEF swtch, table, TypeOK, TreeInv, Lives
<1>7. PidInv'
  BY DEF swtch, table, TypeOK, PidInv
<1>8. NoWakeupMissed'
  BY DEF swtch, At, Go, table, TypeOK, NoWakeupMissed
<1> QED
  BY <1>1, <1>2, <1>3, <1>4, <1>5, <1>6, <1>7, <1>8

\* A process comes out of sched(), or starts in forkret(), releases the lock and goes
\* on where it had left off.
LEMMA ResumeInv ==
  ASSUME ProcInv, NEW c \in CPU, NEW s \in Slot, resume(c, s)
  PROVE  ProcInv'
<1> USE DEF ProcInv
<1>a. /\ ReturnTo(s) \in {"user", "forking", "relock", "wait"}
      /\ ReturnTo(s) = "wait" <=> ret[s] = "wait"
      /\ ReturnTo(s) = "forking" <=> ret[s] = "forking"
  BY DEF resume, At, TypeOK, ReturnInv, ReturnTo, Rets
<1>1. TypeOK'
  BY <1>a DEF resume, Go, TypeOK, Pcs
<1>2. CpuInv'
  BY <1>a DEF resume, At, Go, TypeOK, CpuInv
<1>3. ThreadInv'
  BY <1>a DEF resume, At, Go, TypeOK, ThreadInv
<1>4. ReturnInv'
  BY <1>a DEF resume, At, Go, ThreadInv, TypeOK, ReturnInv
<1>5. ForkInv'
  BY <1>a DEF resume, At, Go, TypeOK, ForkInv, Forking
<1>6. TreeInv'
  BY <1>a DEF resume, TypeOK, TreeInv, Lives
<1>7. PidInv'
  BY <1>a DEF resume, TypeOK, PidInv
<1>8. NoWakeupMissed'
  BY <1>a DEF resume, At, Go, ThreadInv, TypeOK, NoWakeupMissed
<1> QED
  BY <1>1, <1>2, <1>3, <1>4, <1>5, <1>6, <1>7, <1>8

\* yield(): the clock preempts a process, in fork() too.
LEMMA YieldInv ==
  ASSUME ProcInv, NEW c \in CPU, NEW s \in Slot, yield(c, s)
  PROVE  ProcInv'
<1> USE DEF ProcInv
<1>1. TypeOK'
  BY DEF yield, At, Go, TypeOK, Pcs, Rets
<1>2. CpuInv'
  BY NoneAssumption DEF yield, At, Go, TypeOK, CpuInv
<1>3. ThreadInv'
  BY DEF yield, At, Go, TypeOK, ThreadInv
<1>4. ReturnInv'
  BY DEF yield, At, Go, TypeOK, ReturnInv
<1>5. ForkInv'
  BY DEF yield, At, Go, TypeOK, ThreadInv, ForkInv, Forking
<1>6. TreeInv'
  BY DEF yield, At, ThreadInv, TypeOK, TreeInv, Lives
<1>7. PidInv'
  BY DEF yield, At, ThreadInv, TypeOK, PidInv
<1>8. NoWakeupMissed'
  BY DEF yield, At, Go, TypeOK, NoWakeupMissed
<1> QED
  BY <1>1, <1>2, <1>3, <1>4, <1>5, <1>6, <1>7, <1>8

\* A process takes the lock of the condition that it is about to test or to change.
LEMMA AcquireLkInv ==
  ASSUME ProcInv, NEW c \in CPU, NEW s \in Slot, acquire_lk(c, s)
  PROVE  ProcInv'
<1> USE DEF ProcInv
<1>1. TypeOK'
  BY DEF acquire_lk, Go, table, TypeOK, Pcs
<1>2. CpuInv'
  BY DEF acquire_lk, Go, TypeOK, CpuInv
<1>3. ThreadInv'
  BY NoneAssumption DEF acquire_lk, At, Go, table, TypeOK, ThreadInv
<1>4. ReturnInv'
  BY DEF acquire_lk, Go, table, TypeOK, ReturnInv
<1>5. ForkInv'
  BY DEF acquire_lk, Go, table, TypeOK, ForkInv, Forking
<1>6. TreeInv'
  BY DEF acquire_lk, table, TypeOK, TreeInv, Lives
<1>7. PidInv'
  BY DEF acquire_lk, table, TypeOK, PidInv
<1>8. NoWakeupMissed'
  BY DEF acquire_lk, table, TypeOK, NoWakeupMissed
<1> QED
  BY <1>1, <1>2, <1>3, <1>4, <1>5, <1>6, <1>7, <1>8

\* The condition holds: the process need not sleep.
LEMMA ConsumeInv ==
  ASSUME ProcInv, NEW c \in CPU, NEW s \in Slot, consume(c, s)
  PROVE  ProcInv'
<1> USE DEF ProcInv
<1>1. TypeOK'
  BY DEF consume, Go, table, TypeOK, Pcs
<1>2. CpuInv'
  BY DEF consume, Go, TypeOK, CpuInv
<1>3. ThreadInv'
  BY NoneAssumption DEF consume, At, Go, table, TypeOK, ThreadInv
<1>4. ReturnInv'
  BY DEF consume, Go, table, TypeOK, ReturnInv
<1>5. ForkInv'
  BY DEF consume, Go, table, TypeOK, ForkInv, Forking
<1>6. TreeInv'
  BY DEF consume, table, TypeOK, TreeInv, Lives
<1>7. PidInv'
  BY DEF consume, table, TypeOK, PidInv
<1>8. NoWakeupMissed'
  BY DEF consume, table, TypeOK, NoWakeupMissed
<1> QED
  BY <1>1, <1>2, <1>3, <1>4, <1>5, <1>6, <1>7, <1>8

\* sleep(): the process takes ptable.lock before it releases lk, and is SLEEPING.
LEMMA SleepInv ==
  ASSUME ProcInv, NEW c \in CPU, NEW s \in Slot, sleep(c, s)
  PROVE  ProcInv'
<1> USE DEF ProcInv
<1>1. TypeOK'
  BY DEF sleep, Go, TypeOK, Pcs, Rets
<1>2. CpuInv'
  BY NoneAssumption DEF sleep, At, Go, TypeOK, CpuInv
<1>3. ThreadInv'
  BY NoneAssumption DEF sleep, At, Go, TypeOK, ThreadInv
<1>4. ReturnInv'
  BY DEF sleep, Go, TypeOK, ReturnInv
<1>5. ForkInv'
  BY DEF sleep, At, Go, TypeOK, ThreadInv, ForkInv, Forking
<1>6. TreeInv'
  BY DEF sleep, At, ThreadInv, TypeOK, TreeInv, Lives
<1>7. PidInv'
  BY DEF sleep, At, ThreadInv, TypeOK, PidInv
<1>8. NoWakeupMissed'
  BY EventAssumption DEF sleep, TypeOK, NoWakeupMissed
<1> QED
  BY <1>1, <1>2, <1>3, <1>4, <1>5, <1>6, <1>7, <1>8

\* A process makes the condition true, under lk.
LEMMA PostInv ==
  ASSUME ProcInv, NEW c \in CPU, NEW s \in Slot, post(c, s)
  PROVE  ProcInv'
<1> USE DEF ProcInv
<1>1. TypeOK'
  BY DEF post, Go, table, TypeOK, Pcs
<1>2. CpuInv'
  BY DEF post, Go, TypeOK, CpuInv
<1>3. ThreadInv'
  BY NoneAssumption DEF post, At, Go, table, TypeOK, ThreadInv
<1>4. ReturnInv'
  BY DEF post, Go, table, TypeOK, ReturnInv
<1>5. ForkInv'
  BY DEF post, Go, table, TypeOK, ForkInv, Forking
<1>6. TreeInv'
  BY DEF post, table, TypeOK, TreeInv, Lives
<1>7. PidInv'
  BY DEF post, table, TypeOK, PidInv
<1>8. NoWakeupMissed'
  BY DEF post, At, Go, table, TypeOK, CpuInv, NoWakeupMissed
<1> QED
  BY <1>1, <1>2, <1>3, <1>4, <1>5, <1>6, <1>7, <1>8

\* wakeup(): every sleeper of the channel is RUNNABLE, before lk is released.
LEMMA WakeupInv ==
  ASSUME ProcInv, NEW c \in CPU, NEW s \in Slot, wakeup(c, s)
  PROVE  ProcInv'
<1> USE DEF ProcInv
<1>1. TypeOK'
  BY DEF wakeup, Go, wakeup1, TypeOK, Pcs
<1>2. CpuInv'
  BY DEF wakeup, Go, TypeOK, CpuInv
<1>3. ThreadInv'
  BY NoneAssumption DEF wakeup, At, Go, wakeup1, TypeOK, ThreadInv
<1>4. ReturnInv'
  BY DEF wakeup, Go, wakeup1, TypeOK, ReturnInv
<1>5. ForkInv'
  BY DEF wakeup, Go, wakeup1, TypeOK, ForkInv, Forking
<1>6. TreeInv'
  BY InitprocAssumption DEF wakeup, wakeup1, TypeOK, TreeInv, Lives
<1>7. PidInv'
  BY DEF wakeup, wakeup1, TypeOK, PidInv
<1>8. NoWakeupMissed'
  BY DEF wakeup, wakeup1, TypeOK, NoWakeupMissed
<1> QED
  BY <1>1, <1>2, <1>3, <1>4, <1>5, <1>6, <1>7, <1>8

\* allocproc() takes an UNUSED slot for fork(), and is its only user as an EMBRYO.
LEMMA AllocprocInv ==
  ASSUME ProcInv, NEW c \in CPU, NEW s \in Slot, NEW n \in Slot, allocproc(c, s, n)
  PROVE  ProcInv'
<1> USE DEF ProcInv
<1>1. TypeOK'
  BY MaxPidAssumption DEF allocproc, TypeOK, Pcs, Rets
<1>2. CpuInv'
  BY DEF allocproc, TypeOK, CpuInv
<1>3. ThreadInv'
  BY DEF allocproc, At, TypeOK, ThreadInv
<1>4. ReturnInv'
  BY DEF allocproc, TypeOK, ReturnInv
<1>5. ForkInv'
  BY DEF allocproc, TypeOK, ForkInv, Forking
<1>6. TreeInv'
  BY InitprocAssumption DEF allocproc, TypeOK, TreeInv, Lives
<1>7. PidInv'
  BY DEF allocproc, TypeOK, PidInv
<1>8. NoWakeupMissed'
  BY DEF allocproc, At, TypeOK, ThreadInv, NoWakeupMissed
<1> QED
  BY <1>1, <1>2, <1>3, <1>4, <1>5, <1>6, <1>7, <1>8

\* fork() sets the parent and makes the EMBRYO RUNNABLE.
LEMMA ForkInvariant ==
  ASSUME ProcInv, NEW c \in CPU, NEW s \in Slot, fork(c, s)
  PROVE  ProcInv'
<1> USE DEF ProcInv
<1>1. TypeOK'
  BY DEF fork, Go, TypeOK, Pcs
<1>2. CpuInv'
  BY DEF fork, Go, TypeOK, CpuInv
<1>3. ThreadInv'
  BY DEF fork, At, Go, ThreadInv, TypeOK, ForkInv, Forking
<1>4. ReturnInv'
  BY DEF fork, At, Go, ReturnInv, TypeOK, ForkInv, Forking
<1>5. ForkInv'
  BY DEF fork, At, Go, TypeOK, ForkInv, Forking
<1>6. TreeInv'
  BY NoneAssumption DEF fork, At, TypeOK, ThreadInv, ForkInv, Forking, TreeInv, Lives
<1>7. PidInv'
  BY DEF fork, At, ForkInv, Forking, TypeOK, PidInv
<1>8. NoWakeupMissed'
  BY NoneAssumption DEF fork, At, Go, ForkInv, Forking, TreeInv, TypeOK, NoWakeupMissed
<1> QED
  BY <1>1, <1>2, <1>3, <1>4, <1>5, <1>6, <1>7, <1>8

\* fork() has no memory for the child, and gives the slot back.
LEMMA ForkFailInv ==
  ASSUME ProcInv, NEW c \in CPU, NEW s \in Slot, fork_fail(c, s)
  PROVE  ProcInv'
<1> USE DEF ProcInv
<1>1. TypeOK'
  BY DEF fork_fail, TypeOK, Pcs, Rets
<1>2. CpuInv'
  BY DEF fork_fail, TypeOK, CpuInv
<1>3. ThreadInv'
  BY DEF fork_fail, At, TypeOK, ThreadInv, ForkInv, Forking
<1>4. ReturnInv'
  BY DEF fork_fail, TypeOK, ReturnInv
<1>5. ForkInv'
  BY DEF fork_fail, At, TypeOK, ForkInv, Forking
<1>6. TreeInv'
  BY DEF fork_fail, At, ForkInv, Forking, TypeOK, TreeInv, Lives
<1>7. PidInv'
  BY DEF fork_fail, TypeOK, PidInv
<1>8. NoWakeupMissed'
  BY DEF fork_fail, At, TypeOK, ThreadInv, ForkInv, Forking, NoWakeupMissed
<1> QED
  BY <1>1, <1>2, <1>3, <1>4, <1>5, <1>6, <1>7, <1>8

\* exit() hands the children to init, wakes parent and init, and is a ZOMBIE.
LEMMA ExitInv ==
  ASSUME ProcInv, NEW c \in CPU, NEW s \in Slot, exit(c, s)
  PROVE  ProcInv'
<1> USE DEF ProcInv
<1>1. TypeOK'
  BY InitprocAssumption DEF exit, Go, wakeup1, Abandoned, TypeOK, Pcs, Rets
<1>2. CpuInv'
  BY NoneAssumption DEF exit, At, Go, TypeOK, CpuInv
<1>3. ThreadInv'
  BY DEF exit, At, Go, wakeup1, TypeOK, ThreadInv
<1>4. ReturnInv'
  BY DEF exit, Go, wakeup1, TypeOK, ReturnInv
<1>5. ForkInv'
  BY InitprocAssumption DEF exit, At, Go, wakeup1, TypeOK, ThreadInv, ForkInv, Forking
<1>6. TreeInv'
  <2>1. state[s] = "RUNNING" /\ Lives(initproc) /\ s # initproc /\ initproc \in Slot
    BY InitprocAssumption DEF exit, At, TypeOK, ThreadInv, TreeInv
  <2>2. parent' = [q \in Slot |-> IF parent[q] = s THEN initproc ELSE parent[q]]
    BY DEF exit, Abandoned
  <2>3. /\ state'[s] = "ZOMBIE"
        /\ \A q \in Slot \ {s} : \/ state'[q] = state[q]
                                 \/ state[q] = "SLEEPING" /\ state'[q] = "RUNNABLE"
    BY <2>1 DEF exit, wakeup1, TypeOK
  <2>4. \A q \in Slot \ {s} : Lives(q)' <=> Lives(q)
    BY <2>3 DEF Lives, TypeOK
  <2> QED
    BY <2>1, <2>2, <2>3, <2>4, NoneAssumption DEF TypeOK, TreeInv, Lives
<1>7. PidInv'
  BY DEF exit, At, wakeup1, ThreadInv, TypeOK, PidInv
<1>8. NoWakeupMissed'
  BY InitprocAssumption
     DEF exit, At, Go, wakeup1, Abandoned, TypeOK, ThreadInv, TreeInv, NoWakeupMissed
<1> QED
  BY <1>1, <1>2, <1>3, <1>4, <1>5, <1>6, <1>7, <1>8

\* wait() takes ptable.lock.
LEMMA WaitCallInv ==
  ASSUME ProcInv, NEW c \in CPU, NEW s \in Slot, wait_call(c, s)
  PROVE  ProcInv'
<1> USE DEF ProcInv
<1>1. TypeOK'
  BY DEF wait_call, Go, table, TypeOK, Pcs
<1>2. CpuInv'
  BY NoneAssumption DEF wait_call, At, Go, TypeOK, CpuInv
<1>3. ThreadInv'
  BY DEF wait_call, At, Go, table, TypeOK, ThreadInv
<1>4. ReturnInv'
  BY DEF wait_call, Go, table, TypeOK, ReturnInv
<1>5. ForkInv'
  BY DEF wait_call, Go, table, TypeOK, ForkInv, Forking
<1>6. TreeInv'
  BY DEF wait_call, table, TypeOK, TreeInv, Lives
<1>7. PidInv'
  BY DEF wait_call, table, TypeOK, PidInv
<1>8. NoWakeupMissed'
  BY DEF wait_call, At, Go, table, TypeOK, NoWakeupMissed
<1> QED
  BY <1>1, <1>2, <1>3, <1>4, <1>5, <1>6, <1>7, <1>8

\* wait() frees a zombie child: its stack, pid and parent.
LEMMA WaitReapInv ==
  ASSUME ProcInv, NEW c \in CPU, NEW s \in Slot, NEW q \in Slot, wait_reap(c, s, q)
  PROVE  ProcInv'
<1> USE DEF ProcInv
<1>1. TypeOK'
  BY MaxPidAssumption DEF wait_reap, TypeOK, Pcs
<1>2. CpuInv'
  BY DEF wait_reap, At, TypeOK, CpuInv
<1>3. ThreadInv'
  BY NoneAssumption DEF wait_reap, At, TypeOK, CpuInv, ThreadInv
<1>4. ReturnInv'
  BY DEF wait_reap, TypeOK, ReturnInv
<1>5. ForkInv'
  BY DEF wait_reap, TypeOK, ForkInv, Forking
<1>6. TreeInv'
  BY NoneAssumption DEF wait_reap, TypeOK, TreeInv, Lives
<1>7. PidInv'
  BY DEF wait_reap, TypeOK, PidInv
<1>8. NoWakeupMissed'
  BY DEF wait_reap, At, TypeOK, ThreadInv, NoWakeupMissed
<1> QED
  BY <1>1, <1>2, <1>3, <1>4, <1>5, <1>6, <1>7, <1>8

\* wait() finds no zombie, and sleeps or returns -1.
LEMMA WaitNoneInv ==
  ASSUME ProcInv, NEW c \in CPU, NEW s \in Slot, wait_none(c, s)
  PROVE  ProcInv'
<1> USE DEF ProcInv
<1>1. TypeOK'
  BY DEF wait_none, Go, TypeOK, Pcs, Rets
<1>2. CpuInv'
  BY DEF wait_none, At, Go, TypeOK, CpuInv
<1>3. ThreadInv'
  BY DEF wait_none, At, Go, TypeOK, ThreadInv
<1>4. ReturnInv'
  BY DEF wait_none, Go, TypeOK, ReturnInv
<1>5. ForkInv'
  BY DEF wait_none, At, Go, TypeOK, ThreadInv, ReturnInv, ForkInv, Forking
<1>6. TreeInv'
  BY InitprocAssumption DEF wait_none, TypeOK, TreeInv, Lives
<1>7. PidInv'
  BY DEF wait_none, At, TypeOK, ThreadInv, PidInv
<1>8. NoWakeupMissed'
  BY EventAssumption DEF wait_none, At, Go, TypeOK, NoWakeupMissed
<1> QED
  BY <1>1, <1>2, <1>3, <1>4, <1>5, <1>6, <1>7, <1>8

\* kill() marks the process, and wakes it if it sleeps.
LEMMA KillInv ==
  ASSUME ProcInv, NEW c \in CPU, NEW s \in Slot, NEW k \in KillPid, kill(c, s, k)
  PROVE  ProcInv'
<1> USE DEF ProcInv
<1>1. TypeOK'
  BY DEF kill, TypeOK
<1>2. CpuInv'
  BY DEF kill, TypeOK, CpuInv
<1>3. ThreadInv'
  BY DEF kill, TypeOK, ThreadInv
<1>4. ReturnInv'
  BY DEF kill, TypeOK, ReturnInv
<1>5. ForkInv'
  BY DEF kill, TypeOK, ForkInv, Forking
<1>6. TreeInv'
  BY DEF kill, TypeOK, TreeInv, Lives
<1>7. PidInv'
  BY DEF kill, TypeOK, PidInv
<1>8. NoWakeupMissed'
  BY DEF kill, TypeOK, NoWakeupMissed
<1> QED
  BY <1>1, <1>2, <1>3, <1>4, <1>5, <1>6, <1>7, <1>8

\* userinit() leaves the table in a state that satisfies it.
LEMMA InitInv == Init => ProcInv
<1> SUFFICES ASSUME Init PROVE ProcInv
  OBVIOUS
<1> USE InitprocAssumption, NoneAssumption, MaxPidAssumption, EventAssumption
<1> USE DEF Init
<1>1. TypeOK
  <2>1. pid \in [Slot -> 0 .. MaxPid] /\ nextpid \in 1 .. (MaxPid + 1)
    OBVIOUS
  <2>2. /\ killed \in [Slot -> BOOLEAN] /\ event \in BOOLEAN
        /\ ptlock \in CPU \cup {None} /\ lk \in Slot \cup {None}
        /\ kstack \subseteq Slot
    BY Zenon
  <2>3. /\ parent \in [Slot -> Slot \cup {None}] /\ np \in [Slot -> Slot \cup {None}]
        /\ chan \in [Slot -> Slot \cup {None, Event}]
        /\ cur \in [CPU -> Slot \cup {None}]
        /\ on \in [CPU -> {"idle", "loop", "proc"}]
    OBVIOUS
  <2>4. /\ state \in [Slot -> {"UNUSED", "EMBRYO", "SLEEPING", "RUNNABLE", "RUNNING",
                              "ZOMBIE"}]
        /\ pc \in [Slot -> Pcs] /\ ret \in [Slot -> Rets]
    BY DEF Pcs, Rets
  <2> QED
    BY <2>1, <2>2, <2>3, <2>4 DEF TypeOK
<1>2. CpuInv
  BY DEF CpuInv
<1>3. ThreadInv
  BY DEF ThreadInv
<1>4. ReturnInv
  BY DEF ReturnInv
<1>5. ForkInv
  BY DEF ForkInv, Forking
<1>6. TreeInv
  BY DEF TreeInv, Lives
<1>7. PidInv
  BY DEF PidInv
<1>8. NoWakeupMissed
  BY DEF NoWakeupMissed
<1> QED
  BY <1>1, <1>2, <1>3, <1>4, <1>5, <1>6, <1>7, <1>8 DEF ProcInv

\* Nor does a step that leaves the variables of proc.c alone disturb it.
LEMMA StutterInv == ProcInv /\ UNCHANGED vars => ProcInv'
<1> SUFFICES ASSUME ProcInv, UNCHANGED vars PROVE ProcInv'
  OBVIOUS
<1> USE DEF ProcInv, vars
<1>1. TypeOK'
  BY DEF TypeOK
<1>2. CpuInv'
  BY DEF CpuInv
<1>3. ThreadInv'
  BY DEF ThreadInv
<1>4. ReturnInv'
  BY DEF ReturnInv
<1>5. ForkInv'
  BY DEF ForkInv, Forking
<1>6. TreeInv'
  BY DEF TreeInv, Lives
<1>7. PidInv'
  BY DEF PidInv
<1>8. NoWakeupMissed'
  BY DEF NoWakeupMissed
<1> QED
  BY <1>1, <1>2, <1>3, <1>4, <1>5, <1>6, <1>7, <1>8

\* ProcInv is inductive: every step of the kernel's threads and schedulers keeps it.
LEMMA NextInv == ProcInv /\ [Next]_vars => ProcInv'
<1> SUFFICES ASSUME ProcInv, Next PROVE ProcInv'
  BY StutterInv
<1> PICK c \in CPU :
      \/ sched_acquire(c) \/ sched_release(c)
      \/ \E s \in Slot : \/ sched_run(c, s)
                         \/ swtch(c, s) \/ resume(c, s)
                         \/ yield(c, s)
                         \/ continue(c, s)
                         \/ syscall(c, s)
  BY DEF Next
<1>1. CASE sched_acquire(c)
  BY <1>1, AcquireInv
<1>2. CASE sched_release(c)
  BY <1>2, ReleaseInv
<1>3. ASSUME NEW s \in Slot, sched_run(c, s) PROVE ProcInv'
  BY <1>3, RunInv
<1>4. ASSUME NEW s \in Slot, swtch(c, s) PROVE ProcInv'
  BY <1>4, SwtchInv
<1>5. ASSUME NEW s \in Slot, resume(c, s) PROVE ProcInv'
  BY <1>5, ResumeInv
<1>6. ASSUME NEW s \in Slot, yield(c, s) PROVE ProcInv'
  BY <1>6, YieldInv
<1>7. ASSUME NEW s \in Slot, continue(c, s) PROVE ProcInv'
  BY <1>7, AcquireLkInv, ConsumeInv, SleepInv, WakeupInv, ForkInvariant, ForkFailInv,
     WaitNoneInv, WaitReapInv, ExitInv DEF continue
<1>8. ASSUME NEW s \in Slot, syscall(c, s) PROVE ProcInv'
  BY <1>8, AcquireLkInv, PostInv, AllocprocInv, ExitInv, WaitCallInv, KillInv DEF syscall
<1> QED
  BY <1>1, <1>2, <1>3, <1>4, <1>5, <1>6, <1>7, <1>8

\* The process table, the CPUs and the kernel threads of proc.c agree in every state.
THEOREM ProcInvariance == Spec => []ProcInv
  BY InitInv, NextInv, PTL DEF Spec

\* A kernel stack is used by one CPU at a time, and not after wait() has freed it:
\* sched() holds ptable.lock until the CPU has left the stack.
THEOREM StacksAreSafe == Spec => []OneCpuPerStack
<1>1. ProcInv => OneCpuPerStack
  BY NoneAssumption DEF ProcInv, TypeOK, CpuInv, ThreadInv, OneCpuPerStack
<1> QED
  BY <1>1, ProcInvariance, PTL

\* The panics of sched(), and panic("zombie exit"), cannot happen.
THEOREM SchedNeverPanics == Spec => []SchedPanicsUnreachable
<1>1. ProcInv => SchedPanicsUnreachable
  BY NoneAssumption
     DEF ProcInv, TypeOK, CpuInv, ThreadInv, ReturnInv, SchedPanicsUnreachable, At
<1> QED
  BY <1>1, ProcInvariance, PTL

\* sleep() and wakeup() miss no condition, and wait() no zombie, init's included.
THEOREM NoLostWakeup == Spec => []NoWakeupMissed
<1>1. ProcInv => NoWakeupMissed
  BY DEF ProcInv
<1> QED
  BY <1>1, ProcInvariance, PTL

\* exit() leaves every process a parent that can wait() for it, and allocproc() gives
\* no pid to two processes.
THEOREM TreeIsKept == Spec => []FamilyTree
<1>1. ProcInv => FamilyTree
  BY InitprocAssumption DEF ProcInv, TypeOK, TreeInv, PidInv, Lives, FamilyTree
<1> QED
  BY <1>1, ProcInvariance, PTL
=============================================================================
