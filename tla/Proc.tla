-------------------------------- MODULE Proc --------------------------------
(***************************************************************************)
(* The process table of proc.c on several CPUs: allocproc/fork, exit,      *)
(* wait, kill, yield, sleep, wakeup and the per-CPU scheduler, with the    *)
(* hand-over of ptable.lock from a process to the scheduler and back       *)
(* across swtch().                                                         *)
(*                                                                         *)
(* A critical section that swtch() does not interrupt is one step whose    *)
(* guard is that its lock is free.  `event' under `lk' stands for any      *)
(* condition that kernel code waits for with sleep(chan, lk), a loop on    *)
(* the condition and wakeup(chan): log.busy, I_BUSY, a pipe's contents.    *)
(***************************************************************************)
EXTENDS Integers

CONSTANTS CPU,       \* processors
          Slot,      \* entries of ptable.proc[]
          initproc,  \* the slot of the first process
          MaxPid,    \* bound on nextpid
          KillPid,   \* the arguments that kill() is called with
          None       \* no slot, no CPU

ASSUME InitprocAssumption == initproc \in Slot
ASSUME NoneAssumption == None \notin Slot \cup CPU
ASSUME MaxPidAssumption == MaxPid \in Nat \ {0}

Event == "event"  \* the channel of `event'; wait() sleeps on the process itself

ASSUME EventAssumption == Event \notin Slot \cup {None}

VARIABLES
  state, pid, parent, killed, chan, \* fields of struct proc
  kstack,   \* slots that have a kernel stack
  nextpid,
  pc,       \* where the kernel thread of each slot is
  ret,      \* where it goes on once it has been switched to again
  np,       \* fork()'s np
  cur,      \* cpu->proc
  on,       \* idle or loop (scheduler() without, with ptable.lock) or proc
  ptlock,   \* the CPU that holds ptable.lock
  lk,       \* the process that holds lk
  event

table == <<state, pid, parent, killed, chan, kstack, nextpid>>
vars == <<state, pid, parent, killed, chan, kstack, nextpid, pc, ret, np, cur, on,
          ptlock, lk, event>>

Pcs == {"none", "user", "forking", "post", "relock", "cond", "wait", "switch",
        "saved", "resumed"}
Rets == {"user", "forking", "relock", "slept", "wait", "forkret", "dead"}

TypeOK ==
  /\ state \in [Slot -> {"UNUSED", "EMBRYO", "SLEEPING", "RUNNABLE", "RUNNING", "ZOMBIE"}]
  /\ pid \in [Slot -> 0..MaxPid]
  /\ parent \in [Slot -> Slot \cup {None}]
  /\ killed \in [Slot -> BOOLEAN]
  /\ chan \in [Slot -> Slot \cup {None, Event}]
  /\ kstack \subseteq Slot
  /\ nextpid \in 1..(MaxPid + 1)
  /\ pc \in [Slot -> Pcs]
  /\ ret \in [Slot -> Rets]
  /\ np \in [Slot -> Slot \cup {None}]
  /\ cur \in [CPU -> Slot \cup {None}]
  /\ on \in [CPU -> {"idle", "loop", "proc"}]
  /\ ptlock \in CPU \cup {None}
  /\ lk \in Slot \cup {None}
  /\ event \in BOOLEAN

\* userinit() has made the first process.
Init ==
  /\ state = [s \in Slot |-> IF s = initproc THEN "RUNNABLE" ELSE "UNUSED"]
  /\ pid = [s \in Slot |-> IF s = initproc THEN 1 ELSE 0]
  /\ parent = [s \in Slot |-> None]
  /\ killed = [s \in Slot |-> FALSE]
  /\ chan = [s \in Slot |-> None]
  /\ kstack = {initproc}
  /\ nextpid = 2
  /\ pc = [s \in Slot |-> IF s = initproc THEN "saved" ELSE "none"]
  /\ ret = [s \in Slot |-> IF s = initproc THEN "forkret" ELSE "dead"]
  /\ np = [s \in Slot |-> None]
  /\ cur = [c \in CPU |-> None]
  /\ on = [c \in CPU |-> "idle"]
  /\ ptlock = None
  /\ lk = None
  /\ event = FALSE

\* CPU c executes the kernel thread of slot s, which is at l.
At(c, s, l) == on[c] = "proc" /\ cur[c] = s /\ pc[s] = l

Go(s, l) == pc' = [pc EXCEPT ![s] = l]
-----------------------------------------------------------------------------
(***************************************************************************)
(* scheduler(), sched() and the return from it.                            *)
(***************************************************************************)

sched_acquire(c) ==
  /\ on[c] = "idle" /\ ptlock = None
  /\ on' = [on EXCEPT ![c] = "loop"]
  /\ ptlock' = c
  /\ UNCHANGED <<table, pc, ret, np, cur, lk, event>>

\* Switch to a RUNNABLE process, which will release ptable.lock.
sched_run(c, s) ==
  /\ on[c] = "loop" /\ state[s] = "RUNNABLE"
  /\ state' = [state EXCEPT ![s] = "RUNNING"]
  /\ cur' = [cur EXCEPT ![c] = s]
  /\ on' = [on EXCEPT ![c] = "proc"]
  /\ Go(s, "resumed")
  /\ UNCHANGED <<pid, parent, killed, chan, kstack, nextpid, ret, np, ptlock, lk, event>>

\* The scan of the table is over.
sched_release(c) ==
  /\ on[c] = "loop"
  /\ on' = [on EXCEPT ![c] = "idle"]
  /\ ptlock' = None
  /\ UNCHANGED <<table, pc, ret, np, cur, lk, event>>

\* sched(): swtch() from the thread of s to the scheduler of the CPU it runs on.
swtch(c, s) ==
  /\ At(c, s, "switch")
  /\ Go(s, "saved")
  /\ cur' = [cur EXCEPT ![c] = None]
  /\ on' = [on EXCEPT ![c] = "loop"]
  /\ UNCHANGED <<table, ret, np, ptlock, lk, event>>

ReturnTo(s) ==
  CASE ret[s] = "slept" -> "relock"
    [] ret[s] = "forkret" -> "user"
    [] OTHER -> ret[s]

\* Back from sched(), or in forkret(): release ptable.lock, except in wait(),
\* which goes on with it.  sleep() clears proc->chan first.
resume(c, s) ==
  /\ At(c, s, "resumed")
  /\ chan' = IF ret[s] \in {"slept", "wait"} THEN [chan EXCEPT ![s] = None] ELSE chan
  /\ ptlock' = IF ret[s] = "wait" THEN ptlock ELSE None
  /\ Go(s, ReturnTo(s))
  /\ UNCHANGED <<state, pid, parent, killed, kstack, nextpid, ret, np, cur, on, lk, event>>

\* Mutation: ptable.lock is released before the CPU has left the stack.
yield_unlocked(c, s) ==
  /\ \E l \in {"user", "forking", "relock"} : At(c, s, l)
  /\ ptlock = None
  /\ state' = [state EXCEPT ![s] = "RUNNABLE"]
  /\ ret' = [ret EXCEPT ![s] = pc[s]]
  /\ Go(s, "switch")
  /\ UNCHANGED <<pid, parent, killed, chan, kstack, nextpid, np, cur, on, ptlock, lk, event>>

\* A timer interrupt makes the thread yield() wherever it holds no lock; in
\* user mode a killed process exits instead.
yield(c, s) ==
  /\ \E l \in {"user", "forking", "relock"} : At(c, s, l)
  /\ ~(pc[s] = "user" /\ killed[s])
  /\ ptlock = None
  /\ ptlock' = c
  /\ state' = [state EXCEPT ![s] = "RUNNABLE"]
  /\ ret' = [ret EXCEPT ![s] = pc[s]]
  /\ Go(s, "switch")
  /\ UNCHANGED <<pid, parent, killed, chan, kstack, nextpid, np, cur, on, lk, event>>
-----------------------------------------------------------------------------
(***************************************************************************)
(* sleep() and wakeup(), used the way all kernel code uses them.           *)
(***************************************************************************)

\* Mutation: nobody is woken.
wakeup1_lost(st, ch) == st

\* The states st after a wakeup of the processes that sleep on ch.
wakeup1(st, ch) ==
  [s \in Slot |-> IF st[s] = "SLEEPING" /\ chan[s] = ch THEN "RUNNABLE" ELSE st[s]]

\* acquire(&lk) before the loop on the condition, and again at the end of sleep().
acquire_lk(c, s) ==
  /\ \/ At(c, s, "user") /\ ~killed[s]
     \/ At(c, s, "relock")
  /\ lk = None
  /\ lk' = s
  /\ Go(s, "cond")
  /\ UNCHANGED <<table, ret, np, cur, on, ptlock, event>>

\* The condition holds: consume it and release lk.
consume(c, s) ==
  /\ At(c, s, "cond")
  /\ event
  /\ event' = FALSE
  /\ lk' = None
  /\ Go(s, "user")
  /\ UNCHANGED <<table, ret, np, cur, on, ptlock>>

\* sleep(Event, &lk): take ptable.lock, and only then release lk.
sleep(c, s) ==
  /\ At(c, s, "cond")
  /\ ~event
  /\ ptlock = None
  /\ ptlock' = c
  /\ lk' = None
  /\ chan' = [chan EXCEPT ![s] = Event]
  /\ state' = [state EXCEPT ![s] = "SLEEPING"]
  /\ ret' = [ret EXCEPT ![s] = "slept"]
  /\ Go(s, "switch")
  /\ UNCHANGED <<pid, parent, killed, kstack, nextpid, np, cur, on, event>>

\* Make the condition true under lk ...
post(c, s) ==
  /\ At(c, s, "user") /\ ~killed[s]
  /\ lk = None
  /\ lk' = s
  /\ event' = TRUE
  /\ Go(s, "post")
  /\ UNCHANGED <<table, ret, np, cur, on, ptlock>>

\* ... then wakeup(Event) under ptable.lock, and release lk.
wakeup(c, s) ==
  /\ At(c, s, "post")
  /\ ptlock = None
  /\ state' = wakeup1(state, Event)
  /\ lk' = None
  /\ Go(s, "user")
  /\ UNCHANGED <<pid, parent, killed, chan, kstack, nextpid, ret, np, cur, on, ptlock, event>>
-----------------------------------------------------------------------------
(***************************************************************************)
(* The life of a process.                                                  *)
(***************************************************************************)

\* allocproc() in fork(): an UNUSED slot, a pid, a kernel stack.  When kalloc()
\* fails the slot goes back, and keeps the pid.
allocproc(c, s, n) ==
  /\ At(c, s, "user") /\ ~killed[s]
  /\ ptlock = None
  /\ state[n] = "UNUSED"
  /\ nextpid <= MaxPid
  /\ pid' = [pid EXCEPT ![n] = nextpid]
  /\ nextpid' = nextpid + 1
  /\ \/ /\ state' = [state EXCEPT ![n] = "EMBRYO"]
        /\ kstack' = kstack \cup {n}
        /\ np' = [np EXCEPT ![s] = n]
        /\ pc' = [pc EXCEPT ![s] = "forking", ![n] = "saved"]
        /\ ret' = [ret EXCEPT ![n] = "forkret"]
     \/ UNCHANGED <<state, kstack, np, pc, ret>>
  /\ UNCHANGED <<parent, killed, chan, cur, on, ptlock, lk, event>>

\* The rest of fork(), which writes np's fields without ptable.lock.
fork(c, s) ==
  /\ At(c, s, "forking")
  /\ state' = [state EXCEPT ![np[s]] = "RUNNABLE"]
  /\ parent' = [parent EXCEPT ![np[s]] = s]
  /\ np' = [np EXCEPT ![s] = None]
  /\ Go(s, "user")
  /\ UNCHANGED <<pid, killed, chan, kstack, nextpid, ret, cur, on, ptlock, lk, event>>

\* copyuvm() fails.
fork_fail(c, s) ==
  /\ At(c, s, "forking")
  /\ state' = [state EXCEPT ![np[s]] = "UNUSED"]
  /\ kstack' = kstack \ {np[s]}
  /\ np' = [np EXCEPT ![s] = None]
  /\ pc' = [pc EXCEPT ![s] = "user", ![np[s]] = "none"]
  /\ ret' = [ret EXCEPT ![np[s]] = "dead"]
  /\ UNCHANGED <<pid, parent, killed, chan, nextpid, cur, on, ptlock, lk, event>>

\* Mutation: the children keep their parent.
Abandoned_kept(s) == parent

\* Pass abandoned children to init.
Abandoned(s) == [q \in Slot |-> IF parent[q] = s THEN initproc ELSE parent[q]]

\* exit(): wake the parent, hand the children to init (and wake it for those
\* that are zombies already), then leave the CPU for good.
exit(c, s) ==
  /\ At(c, s, "user") /\ s # initproc
  /\ ptlock = None
  /\ ptlock' = c
  /\ LET kids == { q \in Slot : parent[q] = s }
         woken == wakeup1(state, parent[s])
     IN /\ parent' = Abandoned(s)
        /\ state' = [(IF \E q \in kids : state[q] = "ZOMBIE"
                      THEN wakeup1(woken, initproc) ELSE woken) EXCEPT ![s] = "ZOMBIE"]
  /\ ret' = [ret EXCEPT ![s] = "dead"]
  /\ Go(s, "switch")
  /\ UNCHANGED <<pid, killed, chan, kstack, nextpid, np, cur, on, lk, event>>

\* wait() is called.
wait_call(c, s) ==
  /\ At(c, s, "user") /\ ~killed[s]
  /\ ptlock = None
  /\ ptlock' = c
  /\ Go(s, "wait")
  /\ UNCHANGED <<table, ret, np, cur, on, lk, event>>

\* wait() finds a zombie child and frees it.
wait_reap(c, s, q) ==
  /\ At(c, s, "wait")
  /\ parent[q] = s /\ state[q] = "ZOMBIE"
  /\ kstack' = kstack \ {q}
  /\ state' = [state EXCEPT ![q] = "UNUSED"]
  /\ pid' = [pid EXCEPT ![q] = 0]
  /\ parent' = [parent EXCEPT ![q] = None]
  /\ killed' = [killed EXCEPT ![q] = FALSE]
  /\ ptlock' = None
  /\ pc' = [pc EXCEPT ![s] = "user", ![q] = "none"]
  /\ UNCHANGED <<chan, nextpid, ret, np, cur, on, lk, event>>

\* wait() finds none: return -1, or sleep on the process itself.
wait_none(c, s) ==
  /\ At(c, s, "wait")
  /\ \A q \in Slot : ~(parent[q] = s /\ state[q] = "ZOMBIE")
  /\ \/ /\ killed[s] \/ \A q \in Slot : parent[q] # s
        /\ ptlock' = None
        /\ Go(s, "user")
        /\ UNCHANGED <<state, chan, ret>>
     \/ /\ ~killed[s] /\ \E q \in Slot : parent[q] = s
        /\ chan' = [chan EXCEPT ![s] = s]
        /\ state' = [state EXCEPT ![s] = "SLEEPING"]
        /\ ret' = [ret EXCEPT ![s] = "wait"]
        /\ Go(s, "switch")
        /\ UNCHANGED ptlock
  /\ UNCHANGED <<pid, parent, killed, kstack, nextpid, np, cur, on, lk, event>>

\* kill(k): a slot whose pid is k, whatever its state.
kill(c, s, k) ==
  /\ At(c, s, "user") /\ ~killed[s]
  /\ ptlock = None
  /\ \E q \in Slot :
       /\ pid[q] = k
       /\ killed' = [killed EXCEPT ![q] = TRUE]
       /\ state' = [state EXCEPT ![q] = IF @ = "SLEEPING" THEN "RUNNABLE" ELSE @]
  /\ UNCHANGED <<pid, parent, chan, kstack, nextpid, pc, ret, np, cur, on, ptlock, lk, event>>
-----------------------------------------------------------------------------
\* The thread of s goes on with what it is doing in the kernel.
continue(c, s) ==
  \/ pc[s] = "relock" /\ acquire_lk(c, s)
  \/ consume(c, s) \/ sleep(c, s) \/ wakeup(c, s)
  \/ fork(c, s) \/ fork_fail(c, s)
  \/ wait_none(c, s) \/ \E q \in Slot : wait_reap(c, s, q)
  \/ killed[s] /\ exit(c, s)

\* The thread of s enters the kernel with a system call.
syscall(c, s) ==
  \/ pc[s] = "user" /\ acquire_lk(c, s)
  \/ post(c, s)
  \/ \E n \in Slot : allocproc(c, s, n)
  \/ exit(c, s)
  \/ wait_call(c, s)
  \/ \E k \in KillPid : kill(c, s, k)

Next ==
  \E c \in CPU :
    \/ sched_acquire(c) \/ sched_release(c)
    \/ \E s \in Slot : \/ sched_run(c, s)
                       \/ swtch(c, s) \/ resume(c, s)
                       \/ yield(c, s)
                       \/ continue(c, s)
                       \/ syscall(c, s)

Spec == Init /\ [][Next]_vars

(***************************************************************************)
(* The scheduler visits every slot in turn, a spinning CPU gets a lock     *)
(* that keeps being released, and the timer takes the CPU from a process.  *)
(* The program of initproc (init.c) does nothing for ever but wait().      *)
(***************************************************************************)
Fairness ==
  /\ \A c \in CPU : /\ SF_vars(sched_acquire(c))
                    /\ WF_vars(sched_release(c) \/ \E s \in Slot : sched_run(c, s))
  /\ \A s \in Slot : /\ SF_vars(\E c \in CPU : sched_run(c, s))
                     /\ WF_vars(\E c \in CPU : swtch(c, s) \/ resume(c, s))
                     /\ SF_vars(\E c \in CPU : continue(c, s))
                     /\ SF_vars(\E c \in CPU : yield(c, s))
  /\ SF_vars(\E c \in CPU : wait_call(c, initproc))

InitProgram == \A c \in CPU : ~(pc[initproc] = "user" /\ acquire_lk(c, initproc))

FairSpec == Init /\ [][Next /\ InitProgram]_vars /\ Fairness
-----------------------------------------------------------------------------
(***************************************************************************)
(* Properties.                                                             *)
(***************************************************************************)

\* The kernel stack of a process is used by one CPU at a time, and never after
\* wait() has freed it: ptable.lock is held from the change of proc->state until
\* the CPU has left the stack.
OneCpuPerStack ==
  /\ TypeOK
  /\ \A c \in CPU : on[c] = "proc" =>
       /\ cur[c] \in kstack
       /\ \A d \in CPU : on[d] = "proc" /\ cur[d] = cur[c] => d = c

\* None of the panics of sched(), and not panic("zombie exit"): a thread that
\* leaves the CPU holds ptable.lock and no other lock and is no longer RUNNING.
SchedPanicsUnreachable ==
  \A c \in CPU, s \in Slot :
    /\ At(c, s, "switch") => ptlock = c /\ lk # s /\ state[s] # "RUNNING"
    /\ At(c, s, "resumed") => ptlock = c /\ ret[s] # "dead"

\* No lost wakeup.  In sleep(chan, lk) and wakeup(chan), a process sleeps through a
\* condition that has become true only while the one who made it so is on its way to
\* wakeup().  A process that sleeps in wait() has a child and no zombie child, also
\* when exit() hands it children that are zombies already.
NoWakeupMissed ==
  \A s \in Slot : state[s] = "SLEEPING" =>
    /\ chan[s] = Event /\ event => lk # None /\ pc[lk] = "post"
    /\ chan[s] = s => /\ \E q \in Slot : parent[q] = s
                      /\ \A q \in Slot : parent[q] = s => state[q] # "ZOMBIE"

Lives(s) == state[s] \in {"SLEEPING", "RUNNABLE", "RUNNING"}

\* Every process but init has a parent that can still wait() for it, and no two
\* processes have the same pid.
FamilyTree ==
  \A s \in Slot : Lives(s) \/ state[s] = "ZOMBIE" =>
    /\ s # initproc => parent[s] # None /\ Lives(parent[s])
    /\ \A q \in Slot : pid[q] = pid[s] => q = s

\* A process orphaned by exit() does not stay a zombie: init reaps it.
OrphansAreReaped ==
  \A s \in Slot : state[s] = "ZOMBIE" /\ parent[s] = initproc ~> state[s] = "UNUSED"

\* A process for whom the condition becomes true while it sleeps is run again.
SleeperRuns ==
  \A s \in Slot :
    state[s] = "SLEEPING" /\ chan[s] = Event /\ event ~> state[s] = "RUNNING"
-----------------------------------------------------------------------------
(***************************************************************************)
(* The inductive invariant behind OneCpuPerStack, SchedPanicsUnreachable,  *)
(* NoWakeupMissed and FamilyTree, in six parts.                            *)
(***************************************************************************)

\* A CPU in the scan of the table, or on a stack whose thread is between a change
\* of proc->state and swtch(), holds ptable.lock.
CpuInv ==
  /\ \A c \in CPU : on[c] = "proc" <=> cur[c] # None
  /\ \A c, d \in CPU : cur[c] = cur[d] /\ cur[c] # None => c = d
  /\ \A c \in CPU : on[c] = "loop" => ptlock = c
  /\ \A c \in CPU : on[c] = "proc" /\ pc[cur[c]] \in {"switch", "resumed", "wait"}
                     => ptlock = c

\* proc->state agrees with where the thread is.
ThreadInv ==
  \A s \in Slot :
    /\ pc[s] \notin {"none", "saved"} => \E c \in CPU : cur[c] = s
    /\ pc[s] \in {"none", "saved"} => \A c \in CPU : cur[c] # s
    /\ state[s] = "UNUSED" <=> pc[s] = "none"
    /\ state[s] = "UNUSED" <=> s \notin kstack
    /\ state[s] = "RUNNING" <=> pc[s] \notin {"none", "saved", "switch"}
    /\ state[s] = "EMBRYO" => pc[s] = "saved"
    /\ lk = s <=> pc[s] \in {"post", "cond"}

\* Where a thread goes on once it runs again.
ReturnInv ==
  \A s \in Slot :
    /\ state[s] = "EMBRYO" => ret[s] = "forkret"
    /\ state[s] = "ZOMBIE" => ret[s] = "dead"
    /\ state[s] = "SLEEPING" => \/ ret[s] = "slept" /\ chan[s] = Event
                                \/ ret[s] = "wait" /\ chan[s] = s
    /\ state[s] = "RUNNABLE" \/ pc[s] = "resumed" => ret[s] # "dead"

\* Process s is in fork(), possibly preempted there.
Forking(s) ==
  \/ pc[s] = "forking"
  \/ pc[s] \in {"switch", "saved", "resumed"} /\ ret[s] = "forking"

\* Each fork() has an EMBRYO of its own.
ForkInv ==
  \A s \in Slot : Forking(s) =>
    /\ np[s] \in Slot /\ state[np[s]] = "EMBRYO"
    /\ \A q \in Slot : Forking(q) /\ np[q] = np[s] => q = s

TreeInv ==
  /\ Lives(initproc) /\ parent[initproc] = None
  /\ \A s \in Slot :
       /\ parent[s] # s
       /\ parent[s] = None <=> s = initproc \/ state[s] \in {"UNUSED", "EMBRYO"}
       /\ parent[s] # None => Lives(parent[s])

PidInv ==
  \A s \in Slot :
    /\ pid[s] < nextpid
    /\ state[s] # "UNUSED" => pid[s] # 0
    /\ \A q \in Slot : pid[q] = pid[s] /\ pid[s] # 0 => q = s

ProcInv ==
  /\ TypeOK
  /\ CpuInv
  /\ ThreadInv
  /\ ReturnInv
  /\ ForkInv
  /\ TreeInv
  /\ PidInv
  /\ NoWakeupMissed
=============================================================================
