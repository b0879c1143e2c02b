--------------------------------- MODULE Vm ----------------------------------
(***************************************************************************)
(* Physical pages (kalloc.c), page tables (vm.c), and the calls that use   *)
(* them: fork, sbrk, exec, exit and wait (proc.c, exec.c).                 *)
(*                                                                         *)
(* An address is a number of units of which a page has PGSIZE; pages of    *)
(* an address space are numbered from 0.  A call is one step: it works on  *)
(* its own page table, and shares only the free list with others.  That    *)
(* others take and free pages meanwhile shows in kalloc() failing once at  *)
(* any of its calls, although there are free pages before and after.       *)
(***************************************************************************)
EXTENDS Integers, FiniteSets, Sequences

CONSTANTS Proc,        \* slots of the process table
          Initproc,
          NPages,      \* physical pages
          PGSIZE, NPTENTRIES,
          NUserTables, \* page tables below KERNBASE
          MaxCalls,    \* bound: calls in a behaviour
          Programs,    \* memory sizes of the programs that exec() may load
          Increments   \* arguments of sbrk()

ASSUME VmAssumption ==
  /\ {NPages, PGSIZE, NPTENTRIES, NUserTables} \subseteq Nat \ {0}
  /\ Initproc \in Proc

Page == 1 .. NPages
UserPage == 0 .. NUserTables * NPTENTRIES - 1
KERNBASE == NUserTables * NPTENTRIES * PGSIZE
KTable == NUserTables  \* all of the kernel's page tables, taken as one

PGROUNDUP(a) == (a + PGSIZE - 1) \div PGSIZE  \* a number of pages

VARIABLES
  mem,   \* free: the free list; n, fail: how often a call has used kalloc(), and
         \* when it fails; ptfail: history, whether a page table was not to be
         \* had; stop: why the kernel has stopped
  pr,    \* state, kernel stack, page table and size of each process
  calls  \* counts fork(), sbrk() and exec()

vars == <<mem, pr, calls>>

NoSpace == [dir |-> 0, pde |-> [t \in 0 .. KTable |-> 0], pte |-> [a \in UserPage |-> 0]]
Unused == [state |-> "UNUSED", kstack |-> 0, vm |-> NoSpace, sz |-> 0]

Stop(m, why) == IF m.stop = "" THEN [m EXCEPT !.stop = why] ELSE m
-----------------------------------------------------------------------------
(***************************************************************************)
(* kalloc.c.  Functions return a record with the next value of mem, of the *)
(* address space, or a page.                                               *)
(***************************************************************************)
kalloc(m) ==
  LET t == [m EXCEPT !.n = @ + 1]
      p == CHOOSE x \in m.free : \A y \in m.free : x <= y
  IN IF m.free = {} \/ t.n = m.fail THEN [mem |-> t, page |-> 0]
     ELSE [mem |-> [t EXCEPT !.free = @ \ {p}], page |-> p]

\* kfree() does not notice a page that is free already.
kfree(m, p) == IF p = 0 THEN Stop(m, "kfree") ELSE [m EXCEPT !.free = @ \cup {p}]
-----------------------------------------------------------------------------
(***************************************************************************)
(* vm.c.  r has the fields mem and vm.                                     *)
(***************************************************************************)
\* walkpgdir(pgdir, va, alloc) for page table t: ok if it is there at the end.
walkpgdir(r, t, alloc) ==
  LET k == kalloc(r.mem) IN
  IF r.vm.pde[t] # 0 THEN [mem |-> r.mem, vm |-> r.vm, ok |-> TRUE]
  ELSE IF ~alloc THEN [mem |-> r.mem, vm |-> r.vm, ok |-> FALSE]
  ELSE IF k.page = 0
  THEN [mem |-> [k.mem EXCEPT !.ptfail = TRUE], vm |-> r.vm, ok |-> FALSE]
  ELSE [mem |-> k.mem, vm |-> [r.vm EXCEPT !.pde[t] = k.page], ok |-> TRUE]

\* mappages() of one page.
mappages(r, a, page) ==
  LET w == walkpgdir(r, a \div NPTENTRIES, TRUE) IN
  IF ~w.ok THEN w
  ELSE IF w.vm.pte[a] # 0 THEN [w EXCEPT !.mem = Stop(@, "remap")]
  ELSE [w EXCEPT !.vm.pte[a] = page]

\* Without memory for the kernel's page tables, the page of pgdir is lost.
setupkvm(m) ==
  LET k == kalloc(m)
      w == walkpgdir([mem |-> k.mem, vm |-> [NoSpace EXCEPT !.dir = k.page]], KTable, TRUE)
  IN IF k.page = 0 THEN [mem |-> k.mem, vm |-> NoSpace]
     ELSE [mem |-> w.mem, vm |-> IF w.ok THEN w.vm ELSE NoSpace]

\* Page a begins below sz.
Inside(a, sz) == a * PGSIZE < sz

\* Mutation: the entry is not cleared.
unmap_kept(r, a) == [r EXCEPT !.mem = kfree(@, r.vm.pte[a])]

unmap(r, a) == [r EXCEPT !.mem = kfree(@, r.vm.pte[a]), !.vm.pte[a] = 0]

\* The loop of deallocuvm(): where there is no page table it goes on NPTENTRIES
\* pages later, be page a the first of the table or not.
RECURSIVE dealloc_pages(_, _, _)
dealloc_pages(r, a, oldsz) ==
  IF ~Inside(a, oldsz) THEN r
  ELSE IF r.vm.pde[a \div NPTENTRIES] = 0 THEN dealloc_pages(r, a + NPTENTRIES, oldsz)
  ELSE IF r.vm.pte[a] = 0 THEN dealloc_pages(r, a + 1, oldsz)
  ELSE dealloc_pages(unmap(r, a), a + 1, oldsz)

deallocuvm(r, oldsz, newsz) ==
  IF newsz >= oldsz THEN [mem |-> r.mem, vm |-> r.vm, sz |-> oldsz]
  ELSE LET d == dealloc_pages(r, PGROUNDUP(newsz), oldsz)
       IN [mem |-> d.mem, vm |-> d.vm, sz |-> newsz]

\* Mutation: the pages that were allocated before the failure stay.
alloc_failed_kept(r, newsz, oldsz) == r

alloc_failed(r, newsz, oldsz) == deallocuvm(r, newsz, oldsz)

\* The loop of allocuvm().  The result of mappages() is not looked at: the page is
\* lost, and the loop goes on.
RECURSIVE alloc_pages(_, _, _, _)
alloc_pages(r, a, oldsz, newsz) ==
  LET k == kalloc(r.mem)
      w == mappages([mem |-> k.mem, vm |-> r.vm], a, k.page)
  IN IF ~Inside(a, newsz) THEN [mem |-> r.mem, vm |-> r.vm, sz |-> newsz]
     ELSE IF k.page = 0
     THEN LET d == alloc_failed([mem |-> k.mem, vm |-> r.vm], newsz, oldsz)
          IN [mem |-> d.mem, vm |-> d.vm, sz |-> 0]
     ELSE alloc_pages([mem |-> w.mem, vm |-> w.vm], a + 1, oldsz, newsz)

allocuvm(r, oldsz, newsz) ==
  IF newsz >= KERNBASE THEN [mem |-> r.mem, vm |-> r.vm, sz |-> 0]
  ELSE IF newsz < oldsz THEN [mem |-> r.mem, vm |-> r.vm, sz |-> oldsz]
  ELSE alloc_pages(r, PGROUNDUP(oldsz), oldsz, newsz)

freevm(m, vm) ==
  LET d == deallocuvm([mem |-> m, vm |-> vm], KERNBASE, 0)
      tables == { d.vm.pde[t] : t \in 0 .. KTable } \ {0}
  IN IF vm.dir = 0 THEN Stop(m, "freevm: no pgdir")
     ELSE kfree([d.mem EXCEPT !.free = @ \cup tables], vm.dir)

\* The loop of copyuvm(), for the pages of `from' below sz.
RECURSIVE copy_pages(_, _, _, _)
copy_pages(r, from, a, sz) ==
  LET k == kalloc(r.mem)
      w == mappages([mem |-> k.mem, vm |-> r.vm], a, k.page)
      bad(m) == [mem |-> freevm(m, r.vm), vm |-> NoSpace]
  IN IF ~Inside(a, sz) THEN r
     ELSE IF from.pte[a] = 0 THEN [r EXCEPT !.mem = Stop(@, "copyuvm")]
     ELSE IF k.page = 0 THEN bad(k.mem)
     ELSE IF ~w.ok THEN bad(w.mem)
     ELSE copy_pages([mem |-> w.mem, vm |-> w.vm], from, a + 1, sz)

copyuvm(m, vm, sz) ==
  LET d == setupkvm(m) IN
  IF d.vm = NoSpace THEN d ELSE copy_pages(d, vm, 0, sz)

\* loaduvm(), clearpteu() and copyout() need the page tables of the pages they work on:
\* two panic, and the third follows a null pointer.  loaduvm() fills physical page 0 in
\* place of a page that is not present, and copyout() returns -1.
needs(m, vm, pages, why) ==
  IF \E a \in pages : vm.pde[a \div NPTENTRIES] = 0 THEN Stop(m, why) ELSE m
-----------------------------------------------------------------------------
(***************************************************************************)
(* The calls.                                                              *)
(***************************************************************************)
\* The most that a call uses kalloc(): a kernel stack, a page table with its tables
\* and pages.
MaxAllocs == 3 + NUserTables + Cardinality(UserPage)

\* A call begins; its fail-th kalloc() fails.
Failing(fail) == [mem EXCEPT !.n = 0, !.fail = fail]

\* A process whose text is not mapped any more does nothing but fault.
Runs(p) == mem.stop = "" /\ pr[p].state = "RUNNABLE" /\ pr[p].vm.pte[0] # 0

Set(p, m, q) ==
  /\ mem' = [m EXCEPT !.n = 0, !.fail = 0]
  /\ pr' = [pr EXCEPT ![p] = q]

Call(p) == Runs(p) /\ calls < MaxCalls /\ calls' = calls + 1

\* fork() to the unused slot c.
fork(p, c, fail) ==
  LET k == kalloc(Failing(fail))
      d == copyuvm(k.mem, pr[p].vm, pr[p].sz)
  IN /\ Call(p) /\ pr[c].state = "UNUSED"
     /\ \/ k.page = 0 /\ Set(c, k.mem, Unused)
        \/ k.page # 0 /\ d.vm = NoSpace /\ Set(c, kfree(d.mem, k.page), Unused)
        \/ /\ k.page # 0 /\ d.vm # NoSpace
           /\ Set(c, d.mem, [state |-> "RUNNABLE", kstack |-> k.page, vm |-> d.vm, sz |-> pr[p].sz])

\* growproc().  If n is below -sz then sz + n wraps and is above sz.  If it is -sz,
\* deallocuvm() returns 0, which is taken for an error.
growproc(p, n, fail) ==
  LET q == pr[p]
      old == [mem |-> Failing(fail), vm |-> q.vm]
      r == IF n > 0 THEN allocuvm(old, q.sz, q.sz + n)
           ELSE IF n < 0 /\ q.sz + n >= 0 THEN deallocuvm(old, q.sz, q.sz + n)
           ELSE [mem |-> old.mem, vm |-> q.vm, sz |-> q.sz]
  IN /\ Call(p)
     /\ Set(p, r.mem, [q EXCEPT !.vm = r.vm, !.sz = IF r.sz = 0 THEN @ ELSE r.sz])

\* exec() of a program with one segment: memory for it, two pages for the guard and
\* the stack, the arguments; then the old memory is freed.
exec(p, prog, fail) ==
  LET d == setupkvm(Failing(fail))
      seg == allocuvm(d, 0, prog)
      loaded == needs(seg.mem, seg.vm, 0 .. PGROUNDUP(prog) - 1, "loaduvm")
      sz == PGROUNDUP(prog) * PGSIZE
      stk == allocuvm([mem |-> loaded, vm |-> seg.vm], sz, sz + 2 * PGSIZE)
      top == PGROUNDUP(stk.sz) - 1
      guarded == needs(stk.mem, stk.vm, {top - 1}, "clearpteu")
      args == needs(guarded, stk.vm, {top}, "copyout")
  IN /\ Call(p)
     /\ \/ d.vm = NoSpace /\ Set(p, d.mem, pr[p])
        \/ d.vm # NoSpace /\ seg.sz = 0 /\ Set(p, freevm(seg.mem, seg.vm), pr[p])
        \/ /\ d.vm # NoSpace /\ seg.sz # 0
           /\ \/ stk.sz = 0 /\ Set(p, freevm(stk.mem, stk.vm), pr[p])
              \/ stk.sz # 0 /\ args.stop # "" /\ Set(p, args, pr[p])
              \/ /\ stk.sz # 0 /\ args.stop = ""
                 /\ IF stk.vm.pte[top] = 0 THEN Set(p, freevm(args, stk.vm), pr[p])
                    ELSE Set(p, freevm(args, pr[p].vm), [pr[p] EXCEPT !.vm = stk.vm, !.sz = stk.sz])

\* Mutation: `bad' does not test pgdir.
exec_bad_always(p, fail) ==
  LET d == setupkvm(Failing(fail)) IN
  /\ Call(p)
  /\ Set(p, freevm(d.mem, d.vm), pr[p])

\* exec() of a file that does not load: no ELF file, or one that is cut short.
exec_bad(p, fail) ==
  LET d == setupkvm(Failing(fail)) IN
  /\ Call(p)
  /\ Set(p, IF d.vm = NoSpace THEN d.mem ELSE freevm(d.mem, d.vm), pr[p])

\* exec() of a protected file that the process has not unlocked: pgdir has no value yet
\* when `bad' tests it, and freevm() may be given anything.
exec_locked(p) ==
  /\ Call(p)
  /\ \/ Set(p, mem, pr[p])
     \/ Set(p, Stop(mem, "no value"), pr[p])

exit(p) ==
  /\ mem.stop = "" /\ p # Initproc /\ pr[p].state = "RUNNABLE" /\ UNCHANGED calls
  /\ Set(p, mem, [pr[p] EXCEPT !.state = "ZOMBIE"])

\* The parent or init finds the zombie p.
wait(p) ==
  /\ mem.stop = "" /\ pr[p].state = "ZOMBIE" /\ UNCHANGED calls
  /\ Set(p, freevm(kfree(mem, pr[p].kstack), pr[p].vm), Unused)

\* userinit(), after kinit1() and kinit2().
Init ==
  LET m0 == [free |-> Page, n |-> 0, fail |-> 0, ptfail |-> FALSE, stop |-> ""]
      k == kalloc(m0)
      r == allocuvm(setupkvm(k.mem), 0, PGSIZE)
  IN /\ mem = [r.mem EXCEPT !.n = 0]
     /\ pr = [p \in Proc |-> IF p = Initproc
                THEN [state |-> "RUNNABLE", kstack |-> k.page, vm |-> r.vm, sz |-> PGSIZE]
                ELSE Unused]
     /\ calls = 0

Next ==
  \E p \in Proc :
    \/ \E fail \in 0 .. MaxAllocs :
         \/ \E c \in Proc : fork(p, c, fail)
         \/ \E n \in Increments : growproc(p, n, fail)
         \/ \E prog \in Programs : exec(p, prog, fail)
         \/ exec_bad(p, fail)
    \/ exec_locked(p)
    \/ exit(p)
    \/ wait(p)

Spec == Init /\ [][Next]_vars
-----------------------------------------------------------------------------
TypeOK ==
  /\ mem.free \subseteq Page
  /\ mem.n = 0 /\ mem.ptfail \in BOOLEAN
  /\ \A p \in Proc :
       /\ pr[p].state \in {"UNUSED", "RUNNABLE", "ZOMBIE"}
       /\ pr[p].sz \in 0 .. KERNBASE - 1
       /\ pr[p].vm.pde \in [0 .. KTable -> 0 .. NPages]
       /\ pr[p].vm.pte \in [UserPage -> 0 .. NPages]

\* The places of a process that hold a physical page, and the page.
Held(p) ==
  LET q == pr[p] IN
  { <<"kstack", 0, q.kstack>>, <<"pgdir", 0, q.vm.dir>> }
  \cup { <<"pde", t, q.vm.pde[t]>> : t \in 0 .. KTable }
  \cup { <<"pte", a, q.vm.pte[a]>> : a \in UserPage }
HeldPages(p) == { h[3] : h \in Held(p) } \ {0}
HeldCount(p) == Cardinality({ h \in Held(p) : h[3] # 0 })

\* Every page is free or in one place of one process: it is never in two, whatever
\* allocation fails and however a call gives up, and never lost, as long as there was
\* memory for every page table.
PagesPartition ==
  /\ TypeOK
  /\ mem.stop = "" => \A p \in Proc :
       /\ HeldCount(p) = Cardinality(HeldPages(p))
       /\ HeldPages(p) \cap mem.free = {}
       /\ \A q \in Proc \ {p} : HeldPages(p) \cap HeldPages(q) = {}
  /\ mem.stop = "" /\ ~mem.ptfail =>
       Page = mem.free \cup UNION { HeldPages(p) : p \in Proc }

\* A process has exactly the pages below its size, after successful and failed calls,
\* unless a page table was not to be had or it has given up all its memory.
MappedBelowSize ==
  mem.stop = "" /\ ~mem.ptfail => \A p \in Proc : Runs(p) =>
    \A a \in UserPage : pr[p].vm.pte[a] # 0 <=> Inside(a, pr[p].sz)

\* But for the pgdir without a value, the panics of copyuvm(), mappages() and exec() need a
\* page table that allocuvm() did not get; freevm() and kfree() never find a null pointer.
StopsExplained ==
  mem.stop \notin {"", "no value"} =>
    mem.ptfail /\ mem.stop \in {"copyuvm", "loaduvm", "clearpteu", "copyout", "remap"}
=============================================================================
