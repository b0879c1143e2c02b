------------------------------- MODULE Console -------------------------------
(***************************************************************************)
(* Console input (console.c): the interrupt handler edits a line in a ring *)
(* buffer and enters it, readers take what is entered.                     *)
(*                                                                         *)
(* input.lock is held from one sleep() to the next, so the loop of         *)
(* consoleread() between two sleeps is a step.  The three indices are      *)
(* unsigned and wrap at UINT.  consoleread() gives up the inode's lock for *)
(* its duration, so several readers may be inside.                         *)
(***************************************************************************)
EXTENDS Integers, Sequences, FiniteSetsExt

CONSTANTS Reader,
          Char, NL, EOF,   \* what can be typed, '\n' and C('D') included
          INPUT_BUF,
          UINT,            \* 2^32
          MaxRead          \* longest read() of the model

ASSUME BufAssumption == INPUT_BUF \in Nat \ {0} /\ UINT \in Nat
ASSUME WrapAssumption == UINT > INPUT_BUF /\ UINT % INPUT_BUF = 0
ASSUME CharAssumption == {NL, EOF} \subseteq Char
ASSUME MaxReadAssumption == MaxRead \in Nat

VARIABLES
  buf, r, w, e,  \* struct input: read, write and edit index
  pc,            \* idle, run (in consoleread()) or asleep
  left,          \* n: how many characters the reader still wants
  got,           \* what the read() has copied to dst so far
  killed

input == <<buf, r, w, e>>
vars == <<buf, r, w, e, pc, left, got, killed>>

TypeOK ==
  /\ buf \in [0 .. INPUT_BUF - 1 -> Char]
  /\ r \in 0 .. UINT - 1 /\ w \in 0 .. UINT - 1 /\ e \in 0 .. UINT - 1
  /\ pc \in [Reader -> {"idle", "run", "asleep"}]
  /\ left \in [Reader -> 0 .. MaxRead]
  /\ got \in [Reader -> Seq(Char)]
  /\ killed \in [Reader -> BOOLEAN]

\* The input buffer is in the zeroed bss; which character stands for 0 is open.
Init ==
  /\ \E c \in Char : buf = [i \in 0 .. INPUT_BUF - 1 |-> c]
  /\ r = 0 /\ w = 0 /\ e = 0
  /\ pc = [p \in Reader |-> "idle"]
  /\ left = [p \in Reader |-> 0]
  /\ got = [p \in Reader |-> <<>>]
  /\ killed = [p \in Reader |-> FALSE]

\* Arithmetic on the unsigned indices.
Plus(a, n) == (a + n) % UINT
Minus(a, b) == (a - b) % UINT

\* The characters from index a up to index b.
Between(a, b) == [i \in 1 .. Minus(b, a) |-> buf[(a + i - 1) % INPUT_BUF]]

wakeup == [p \in Reader |-> IF pc[p] = "asleep" THEN "run" ELSE pc[p]]
-----------------------------------------------------------------------------
\* Mutation: a line that fills the buffer is not entered.
Ends_full(c) == c \in {NL, EOF}

\* A line ends, with the character at e' - 1 or because the buffer is full.
Ends(c) == c \in {NL, EOF} \/ Minus(e', r) = INPUT_BUF

\* The default case of consoleintr(): a character is typed.  With a full buffer
\* it is dropped.
consoleintr(c) ==
  /\ Minus(e, r) < INPUT_BUF
  /\ buf' = [buf EXCEPT ![e % INPUT_BUF] = c]
  /\ e' = Plus(e, 1)
  /\ w' = IF Ends(c) THEN e' ELSE w
  /\ pc' = IF Ends(c) THEN wakeup ELSE pc
  /\ UNCHANGED <<r, left, got, killed>>

\* C('H') erases a character of the line ...
backspace ==
  /\ e # w
  /\ e' = Minus(e, 1)
  /\ UNCHANGED <<buf, r, w, pc, left, got, killed>>

\* Mutation: C('U') erases what has been entered too.
LineLength_all == Minus(e, r)

\* ... and C('U') erases it back to a '\n' or to what has been entered.
LineLength ==
  LET line == Between(w, e)
  IN Len(line) - Max({0} \cup { i \in DOMAIN line : line[i] = NL })

killline ==
  /\ e # w
  /\ e' = Minus(e, LineLength)
  /\ UNCHANGED <<buf, r, w, pc, left, got, killed>>
-----------------------------------------------------------------------------
read_call(p, n) ==
  /\ pc[p] = "idle" /\ ~killed[p]
  /\ pc' = [pc EXCEPT ![p] = "run"]
  /\ left' = [left EXCEPT ![p] = n]
  /\ got' = [got EXCEPT ![p] = <<>>]
  /\ UNCHANGED <<input, killed>>

\* Nothing is entered: sleep, or return -1 when killed.
consoleread_empty(p) ==
  /\ pc[p] = "run"
  /\ r = w
  /\ pc' = [pc EXCEPT ![p] = IF killed[p] THEN "idle" ELSE "asleep"]
  /\ left' = [left EXCEPT ![p] = IF killed[p] THEN 0 ELSE @]
  /\ UNCHANGED <<input, got, killed>>

\* How many characters the loop takes from those entered: up to the first '\n' or
\* C('D'), but no more than wanted.
Taken(s, n) == Min({Len(s), n} \cup { i \in DOMAIN s : s[i] \in {NL, EOF} })

\* Mutation: the C('D') is not put back.
SavesEOF_never(p, k, c) == FALSE

\* A C('D') after other characters stays for the next read(), which returns 0.
SavesEOF(p, k, c) == c = EOF /\ (k > 1 \/ got[p] # <<>>)

\* The loop: copy, and return at the end of a line or with n characters; when
\* the characters run out before that, sleep, or return -1 when killed.
consoleread(p) ==
  /\ pc[p] = "run"
  /\ r # w
  /\ LET s == Between(r, w)
         k == Taken(s, left[p])
         c == s[k]
         copied == SubSeq(s, 1, IF c = EOF THEN k - 1 ELSE k)
         done == c \in {NL, EOF} \/ k = left[p]
     IN /\ r' = Plus(r, IF SavesEOF(p, k, c) THEN k - 1 ELSE k)
        /\ got' = [got EXCEPT ![p] = @ \o copied]
        /\ left' = [left EXCEPT ![p] = IF done \/ killed[p] THEN 0 ELSE @ - k]
        /\ pc' = [pc EXCEPT ![p] = IF done \/ killed[p] THEN "idle" ELSE "asleep"]
  /\ UNCHANGED <<buf, w, e, killed>>

kill(p) ==
  /\ ~killed[p]
  /\ killed' = [killed EXCEPT ![p] = TRUE]
  /\ pc' = [pc EXCEPT ![p] = IF @ = "asleep" THEN "run" ELSE @]
  /\ UNCHANGED <<input, left, got>>

Next ==
  \/ \E c \in Char : consoleintr(c)
  \/ backspace \/ killline
  \/ \E p \in Reader : \/ consoleread(p) \/ consoleread_empty(p)
                       \/ \E n \in 1 .. MaxRead : read_call(p, n)
                       \/ kill(p)

Spec == Init /\ [][Next]_vars

\* A process in read() is run, and the user enters lines as long as the console
\* takes them.
FairSpec ==
  /\ Spec
  /\ \A p \in Reader : WF_vars(consoleread(p) \/ consoleread_empty(p))
  /\ WF_vars(consoleintr(NL))
-----------------------------------------------------------------------------
\* The line between w and e and the queue between r and w behave as LineInput:
\* erasing never reaches an entered character, nothing entered is overwritten,
\* lost or read twice, and a read() ends with the line.
Lines == INSTANCE LineInput WITH
  Capacity <- INPUT_BUF, line <- Between(w, e), entered <- Between(r, w)
EnteredLinesAreRead == Lines!Spec

\* read() returns 0 only for a C('D') at the start: one that follows other
\* characters ends that read() and is still there for the next.
EofIsKept ==
  [][\A p \in Reader : pc[p] = "run" /\ pc'[p] = "idle" /\ ~killed[p] /\ got'[p] # <<>>
                       => \A i \in 1 .. Minus(r', r) : buf[(r + i - 1) % INPUT_BUF] # EOF]_vars

\* read() returns if the user goes on entering lines, unless another reader takes
\* them each time: a buffer that fills up does not leave user and readers waiting
\* for each other.
ReadReturns ==
  \A p \in Reader : \/ []<>(pc[p] = "idle")
                    \/ \E q \in Reader \ {p} : []<>(pc[q] = "idle") /\ []<>(pc[q] # "idle")
-----------------------------------------------------------------------------
(***************************************************************************)
(* The inductive invariant behind EnteredLinesAreRead and EofIsKept.       *)
(***************************************************************************)
\* The indices are in order whatever is typed, erased and read, also when they
\* wrap, and a full buffer is entered to its end: a line longer than the buffer
\* does not leave the console unable to take input and the reader asleep.
IndicesInOrder ==
  /\ Minus(w, r) <= Minus(e, r)
  /\ Minus(e, r) <= INPUT_BUF
  /\ Minus(e, r) = INPUT_BUF => w = e

\* A read() that is not over wants characters.
ConsoleInv ==
  /\ TypeOK
  /\ IndicesInOrder
  /\ \A p \in Reader : pc[p] # "idle" => left[p] > 0
=============================================================================
