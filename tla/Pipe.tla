-------------------------------- MODULE Pipe --------------------------------
(***************************************************************************)
(* pipe.c: a ring buffer between processes that share its two ends.        *)
(*                                                                         *)
(* p->lock is held from one sleep() to the next, so what pipewrite() and   *)
(* piperead() do between two sleeps is one step.  A process is asleep on   *)
(* &p->nread or &p->nwrite, or woken and about to look again.  The indices *)
(* are unsigned and wrap at UINT.                                          *)
(***************************************************************************)
EXTENDS Integers, Sequences, FiniteSetsExt

CONSTANTS Reader, Writer,  \* processes that have the read (write) end open
          Byte,
          PIPESIZE,
          UINT,            \* 2^32
          Writes,          \* what is written by one write()
          MaxRead          \* longest read() of the model

ASSUME SizeAssumption == PIPESIZE \in Nat \ {0} /\ UINT \in Nat
ASSUME WrapAssumption == UINT > PIPESIZE /\ UINT % PIPESIZE = 0
ASSUME MaxReadAssumption == MaxRead \in Nat
ASSUME WritesAssumption == Writes \subseteq Seq(Byte) \ {<<>>}
ASSUME EndAssumption == Reader \cap Writer = {}

Proc == Reader \cup Writer

VARIABLES
  data, nread, nwrite,   \* the ring and its free-running indices
  readopen, writeopen,
  freed,                 \* how often kfree(p) was called
  ends,                  \* processes that have not closed their end
  pc,                    \* idle, run (in the system call) or asleep
  todo,                  \* addr[i..n-1] of a writer
  want,                  \* n of a reader
  killed,
  got                    \* what each reader's last piperead() copied

ring == <<data, nread, nwrite>>
vars == <<data, nread, nwrite, readopen, writeopen, freed, ends, pc, todo, want, killed, got>>

TypeOK ==
  /\ data \in [0..(PIPESIZE - 1) -> Byte]
  /\ nread \in 0..(UINT - 1) /\ nwrite \in 0..(UINT - 1)
  /\ readopen \in BOOLEAN /\ writeopen \in BOOLEAN
  /\ freed \in 0..1
  /\ ends \subseteq Proc
  /\ pc \in [Proc -> {"idle", "run", "asleep"}]
  /\ todo \in [Writer -> Seq(Byte)]
  /\ want \in [Reader -> 0..MaxRead]
  /\ killed \in [Proc -> BOOLEAN]
  /\ got \in [Reader -> UNION { [1..n -> Byte] : n \in 0..MaxRead }]

\* pipealloc(), then fork()s that leave each process one end.  p->data is
\* whatever the page held.
Init ==
  /\ data \in [0..(PIPESIZE - 1) -> Byte]
  /\ nread = 0 /\ nwrite = 0
  /\ readopen = TRUE /\ writeopen = TRUE
  /\ freed = 0
  /\ ends = Proc
  /\ pc = [p \in Proc |-> "idle"]
  /\ todo = [w \in Writer |-> <<>>]
  /\ want = [r \in Reader |-> 0]
  /\ killed = [p \in Proc |-> FALSE]
  /\ got = [r \in Reader |-> <<>>]

\* Arithmetic on the unsigned indices.
Wrap(n) == n % UINT

\* Mutation: the difference of the indices taken as signed.
Count_signed == nwrite - nread

Count == Wrap(nwrite - nread)
IsFull == nwrite = Wrap(nread + PIPESIZE)
IsEmpty == nread = nwrite

\* Mutation: nobody is woken.
wakeup_lost(side) == pc

\* pc after the processes asleep on one side's channel have been woken.
wakeup(side) == [p \in Proc |-> IF p \in side /\ pc[p] = "asleep" THEN "run" ELSE pc[p]]
-----------------------------------------------------------------------------
write_call(w, s) ==
  /\ w \in ends /\ pc[w] = "idle" /\ ~killed[w]
  /\ todo' = [todo EXCEPT ![w] = s]
  /\ pc' = [pc EXCEPT ![w] = "run"]
  /\ UNCHANGED <<ring, readopen, writeopen, freed, ends, want, killed, got>>

\* The loop of pipewrite() from lock to unlock: copy until done or full.  Done:
\* wake the readers.  Full: give up if nobody can read or the writer was killed,
\* else wake the readers and sleep.
pipewrite(w) ==
  /\ pc[w] = "run"
  /\ LET n == Min({Len(todo[w]), PIPESIZE - Count})
         left == SubSeq(todo[w], n + 1, Len(todo[w]))
         giveup == ~readopen \/ killed[w]
     IN /\ data' = [k \in DOMAIN data |->
                      LET i == ((k - nwrite) % PIPESIZE) + 1
                      IN IF i <= n THEN todo[w][i] ELSE data[k]]
        /\ nwrite' = Wrap(nwrite + n)
        /\ \/ /\ left = <<>>
              /\ pc' = [wakeup(Reader) EXCEPT ![w] = "idle"]
              /\ todo' = [todo EXCEPT ![w] = <<>>]
           \/ /\ left # <<>> /\ giveup
              /\ pc' = [pc EXCEPT ![w] = "idle"]
              /\ todo' = [todo EXCEPT ![w] = <<>>]
           \/ /\ left # <<>> /\ ~giveup
              /\ pc' = [wakeup(Reader) EXCEPT ![w] = "asleep"]
              /\ todo' = [todo EXCEPT ![w] = left]
  /\ UNCHANGED <<nread, readopen, writeopen, freed, ends, want, killed, got>>

read_call(r, n) ==
  /\ r \in ends /\ pc[r] = "idle" /\ ~killed[r]
  /\ want' = [want EXCEPT ![r] = n]
  /\ pc' = [pc EXCEPT ![r] = "run"]
  /\ UNCHANGED <<ring, readopen, writeopen, freed, ends, todo, killed, got>>

\* piperead() finds nothing, and there may be more to come: sleep, or return
\* -1 when killed.
piperead_empty(r) ==
  /\ pc[r] = "run"
  /\ IsEmpty /\ writeopen
  /\ pc' = [pc EXCEPT ![r] = IF killed[r] THEN "idle" ELSE "asleep"]
  /\ want' = [want EXCEPT ![r] = IF killed[r] THEN 0 ELSE @]
  /\ UNCHANGED <<ring, readopen, writeopen, freed, ends, todo, killed, got>>

\* piperead() copies what there is, nothing at the end of the stream, and
\* wakes the writers.
piperead(r) ==
  /\ pc[r] = "run"
  /\ ~(IsEmpty /\ writeopen)
  /\ LET n == Min({want[r], Count})
     IN /\ got' = [got EXCEPT ![r] = [i \in 1..n |-> data[(nread + i - 1) % PIPESIZE]]]
        /\ nread' = Wrap(nread + n)
  /\ pc' = [wakeup(Writer) EXCEPT ![r] = "idle"]
  /\ want' = [want EXCEPT ![r] = 0]
  /\ UNCHANGED <<data, nwrite, readopen, writeopen, freed, ends, todo, killed>>

\* Mutation: freed when the first end is closed.
BothClosed_either(r, w) == ~r \/ ~w

BothClosed(r, w) == ~r /\ ~w

\* The last close of an end runs pipeclose(): wake the other side; with both
\* ends closed, free the pipe.
pipeclose(p) ==
  /\ p \in ends /\ pc[p] = "idle"
  /\ ends' = ends \ {p}
  /\ LET last == (IF p \in Writer THEN Writer ELSE Reader) \cap ends' = {}
     IN /\ writeopen' = (writeopen /\ ~(last /\ p \in Writer))
        /\ readopen' = (readopen /\ ~(last /\ p \in Reader))
        /\ pc' = IF last THEN wakeup(IF p \in Writer THEN Reader ELSE Writer) ELSE pc
        /\ freed' = IF last /\ BothClosed(readopen', writeopen') THEN freed + 1 ELSE freed
  /\ UNCHANGED <<ring, todo, want, killed, got>>

\* kill(): a sleeper is made to look at its condition and at proc->killed.
kill(p) ==
  /\ ~killed[p]
  /\ killed' = [killed EXCEPT ![p] = TRUE]
  /\ pc' = [pc EXCEPT ![p] = IF @ = "asleep" THEN "run" ELSE @]
  /\ UNCHANGED <<ring, readopen, writeopen, freed, ends, todo, want, got>>

Next ==
  \/ \E w \in Writer : pipewrite(w) \/ \E s \in Writes : write_call(w, s)
  \/ \E r \in Reader : \/ piperead(r) \/ piperead_empty(r)
                       \/ \E n \in 1..MaxRead : read_call(r, n)
  \/ \E p \in Proc : pipeclose(p) \/ kill(p)

Spec == Init /\ [][Next]_vars

\* A process in a system call is run; readers go on reading, and a process that
\* is killed exits, which closes its end.
Fairness ==
  /\ \A w \in Writer : WF_vars(pipewrite(w))
  /\ \A r \in Reader : /\ WF_vars(piperead(r) \/ piperead_empty(r))
                       /\ WF_vars(\E n \in 1..MaxRead : read_call(r, n))
  /\ \A p \in Proc : WF_vars(killed[p] /\ pipeclose(p))

FairSpec == Spec /\ Fairness
-----------------------------------------------------------------------------
Contents == [i \in 1..Count |-> data[(nread + i - 1) % PIPESIZE]]

Stream == INSTANCE ByteStream WITH
  Capacity <- PIPESIZE, q <- Contents, wopen <- writeopen

\* The ring implements a bounded FIFO stream: no byte is lost, duplicated or
\* reordered when the indices wrap, no more than PIPESIZE are buffered, and
\* piperead() returns 0 only at the end of the stream.
FifoStream == Stream!Spec

\* No lost wakeup: a writer sleeps only on a full pipe that can be read; a reader
\* sleeps only on an empty pipe that can grow, unless a killed writer filled the
\* pipe and returned -1 (pipe.c:85-88 comes before the wakeup of the readers).
NobodyStranded ==
  /\ TypeOK
  /\ \A w \in Writer : pc[w] = "asleep" => IsFull /\ readopen
  /\ \A r \in Reader : pc[r] = "asleep" =>
       writeopen /\ (IsEmpty \/ \E w \in Writer : killed[w])

\* pipeclose() frees the pipe once, when nobody can be inside pipewrite() or
\* piperead() any more.
FreedOnce ==
  /\ freed <= 1
  /\ freed = 1 <=> ~readopen /\ ~writeopen
  /\ freed = 1 => \A p \in Proc : pc[p] = "idle"

\* pipewrite() returns, since readers make room, or the last one closes, or the
\* writer is killed; unless another writer takes the room each time.
WriteReturns ==
  \A w \in Writer : \/ []<>(pc[w] = "idle")
                    \/ \E v \in Writer \ {w} : []<>(pc[v] = "idle") /\ []<>(pc[v] # "idle")
-----------------------------------------------------------------------------
(***************************************************************************)
(* The inductive invariant behind NobodyStranded, FreedOnce and            *)
(* FifoStream: a process in a system call has its end open, and an end     *)
(* that some process has open is open.                                     *)
(***************************************************************************)
PipeInv ==
  /\ NobodyStranded
  /\ FreedOnce
  /\ Count <= PIPESIZE
  /\ \A p \in Proc : pc[p] # "idle" => p \in ends
  /\ \A r \in Reader : /\ r \in ends => readopen
                       /\ pc[r] # "idle" => want[r] > 0
  /\ \A w \in Writer : w \in ends => writeopen
=============================================================================
