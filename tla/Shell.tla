-------------------------------- MODULE Shell --------------------------------
(***************************************************************************)
(* The shell (sh.c): the parser, and the processes, descriptors and pipes  *)
(* by which runcmd() runs what was parsed.                                 *)
(*                                                                         *)
(* A line is a sequence of tokens as gettoken() tells them apart: "a" for  *)
(* a word, "+" for >>.  A word is known by its place in the line.  System  *)
(* calls that work on a process's own descriptors one after the other are  *)
(* one step: other processes only see the pipe ends that remain.           *)
(***************************************************************************)
EXTENDS Integers, Sequences, FiniteSets

CONSTANTS Lines,    \* lines that can be typed
          MAXARGS,
          Slot,     \* processes
          Sh,       \* the shell's own
          NOFILE

ASSUME ShellAssumption ==
  MAXARGS \in Nat \ {0} /\ Sh \in Slot /\ NOFILE \in Nat /\ NOFILE >= 5

VARIABLES line,   \* the line that was typed, <<>> before
          parsed, \* what parsecmd() makes of it, which depends on nothing else
          pr,     \* each process: pc, command, parent, descriptors and the pipe p[]
          failed  \* history: a fork() or pipe() has failed

vars == <<line, parsed, pr, failed>>
-----------------------------------------------------------------------------
(***************************************************************************)
(* Parsing.  A parser returns where it has got to, the command, and how it *)
(* has failed.  The first argument is the line, i a place in it.           *)
(***************************************************************************)
Result(i, cmd, err) == [i |-> i, cmd |-> cmd, err |-> err]

peek(s, i, toks) == i <= Len(s) /\ s[i] \in toks

Null == [type |-> "NULL"]
execcmd(argv) == [type |-> "EXEC", argv |-> argv]
redircmd(cmd, file, fd) == [type |-> "REDIR", cmd |-> cmd, file |-> file, fd |-> fd]
pipecmd(left, right) == [type |-> "PIPE", left |-> left, right |-> right]
listcmd(left, right) == [type |-> "LIST", left |-> left, right |-> right]
backcmd(cmd) == [type |-> "BACK", cmd |-> cmd]

RECURSIVE parseline(_, _), parsepipe(_, _), parseredirs(_, _, _), parseargs(_, _, _, _), addarg(_, _)

parseredirs(s, i, cmd) ==
  IF ~peek(s, i, {"<", ">", "+"}) THEN Result(i, cmd, "")
  ELSE IF ~peek(s, i + 1, {"a"}) THEN Result(i, cmd, "missing file for redirection")
  ELSE parseredirs(s, i + 2, redircmd(cmd, i + 1, IF s[i] = "<" THEN 0 ELSE 1))

\* parseexec() fills the execcmd that it has already wrapped into redirections.
addarg(cmd, word) ==
  IF cmd.type = "EXEC" THEN [cmd EXCEPT !.argv = Append(@, word)]
  ELSE [cmd EXCEPT !.cmd = addarg(@, word)]

parseargs(s, i, cmd, argc) ==
  IF peek(s, i, {"|", ")", "&", ";"}) \/ i > Len(s) THEN Result(i, cmd, "")
  ELSE IF s[i] # "a" THEN Result(i, cmd, "syntax")
  ELSE IF argc + 1 >= MAXARGS THEN Result(i, cmd, "too many args")
  ELSE LET r == parseredirs(s, i + 1, addarg(cmd, i))
       IN IF r.err # "" THEN r ELSE parseargs(s, r.i, r.cmd, argc + 1)

parseblock(s, i) ==
  LET r == parseline(s, i + 1) IN
  IF r.err # "" THEN r
  ELSE IF ~peek(s, r.i, {")"}) THEN [r EXCEPT !.err = "syntax - missing )"]
  ELSE parseredirs(s, r.i + 1, r.cmd)

parseexec(s, i) ==
  IF peek(s, i, {"("}) THEN parseblock(s, i)
  ELSE LET r == parseredirs(s, i, execcmd(<<>>))
       IN IF r.err # "" THEN r ELSE parseargs(s, r.i, r.cmd, 0)

parsepipe(s, i) ==
  LET l == parseexec(s, i)
      r == parsepipe(s, l.i + 1)
  IN IF l.err # "" \/ ~peek(s, l.i, {"|"}) THEN l
     ELSE [r EXCEPT !.cmd = pipecmd(l.cmd, @)]

RECURSIVE parseback(_, _)
parseback(s, r) ==
  IF peek(s, r.i, {"&"}) THEN parseback(s, [r EXCEPT !.i = @ + 1, !.cmd = backcmd(@)]) ELSE r

parseline(s, i) ==
  LET p == parsepipe(s, i)
      l == parseback(s, p)
      r == parseline(s, l.i + 1)
  IN IF p.err # "" THEN p
     ELSE IF ~peek(s, l.i, {";"}) THEN l
     ELSE [r EXCEPT !.cmd = listcmd(l.cmd, @)]

\* Mutation: what is left of the line is ignored.
parsecmd_leftovers(s) == parseline(s, 1)

parsecmd(s) ==
  LET r == parseline(s, 1) IN
  IF r.err = "" /\ r.i # Len(s) + 1 THEN [r EXCEPT !.err = "syntax"] ELSE r
-----------------------------------------------------------------------------
(***************************************************************************)
(* Descriptors: sys_close(), fdalloc() for open(), dup() and pipe().       *)
(***************************************************************************)
None == <<"none", 0>>
Console == <<"console", 0>>
File(word) == <<"file", word>>
R(k) == <<"read end", k>>
W(k) == <<"write end", k>>

NoFiles == [fd \in 0 .. NOFILE - 1 |-> None]
Stdio == [fd \in 0 .. NOFILE - 1 |-> IF fd < 3 THEN Console ELSE None]

close(ofile, fd) == [ofile EXCEPT ![fd] = None]

fdalloc(ofile, f) ==
  LET fd == CHOOSE n \in DOMAIN ofile : ofile[n] = None /\ \A m \in 0 .. n - 1 : ofile[m] # None
  IN [ofile EXCEPT ![fd] = f]

dup(ofile, fd) == fdalloc(ofile, ofile[fd])

\* The descriptor that has f.
fdof(ofile, f) == CHOOSE n \in DOMAIN ofile : ofile[n] = f

Open(f) == \E p \in Slot : \E fd \in DOMAIN pr[p].ofile : pr[p].ofile[fd] = f

\* A pipe of which no end is open: its memory is free.
NewPipe == CHOOSE k \in 1 .. 2 * Cardinality(Slot) : ~Open(R(k)) /\ ~Open(W(k))
-----------------------------------------------------------------------------
(***************************************************************************)
(* Processes.  Orphans have the parent 0: init, which waits for them.      *)
(***************************************************************************)
Unused == [pc |-> "UNUSED", cmd |-> Null, parent |-> 0, ofile |-> NoFiles, pipe |-> 0]

At(p, pc) == pr[p].pc = pc
Free == { c \in Slot : pr[c].pc = "UNUSED" }
Child == CHOOSE c \in Free : \A d \in Free : c <= d

Become(p, q) == pr' = [pr EXCEPT ![p] = q] /\ UNCHANGED <<line, parsed, failed>>

\* exit(): descriptors are closed, children go to init.
Exited(p) ==
  [q \in Slot |->
     IF q = p THEN [Unused EXCEPT !.pc = "ZOMBIE", !.parent = pr[p].parent]
     ELSE IF pr[q].parent = p THEN [pr[q] EXCEPT !.parent = 0] ELSE pr[q]]

exit(p) == pr' = Exited(p) /\ UNCHANGED <<line, parsed, failed>>

\* fork1(): the child goes on as q, the parent at pc; or fork() has no memory or no slot
\* for it, and panic() exits.  A failure is taken once in a behaviour.
fork1(p, pc, q) ==
  \/ /\ Free # {}
     /\ pr' = [pr EXCEPT ![p].pc = pc, ![Child] = [q EXCEPT !.parent = p]]
     /\ UNCHANGED <<line, parsed, failed>>
  \/ /\ Free = {} \/ ~failed
     /\ pr' = Exited(p) /\ failed' = TRUE /\ UNCHANGED <<line, parsed>>

\* wait(): a zombie child is freed; without children it returns -1.
wait(p, next) ==
  LET children == { c \in Slot : pr[c].pc # "UNUSED" /\ pr[c].parent = p } IN
  \/ \E c \in children :
       pr[c].pc = "ZOMBIE" /\ pr' = [pr EXCEPT ![c] = Unused, ![p] = next]
  \/ children = {} /\ pr' = [pr EXCEPT ![p] = next]
-----------------------------------------------------------------------------
(***************************************************************************)
(* runcmd().                                                               *)
(***************************************************************************)
Runs(p, type) == At(p, "runcmd") /\ pr[p].cmd.type = type

Runcmd(q, cmd) == [q EXCEPT !.pc = "runcmd", !.cmd = cmd]

\* EXEC: a program, unless there is none to run.
run_exec(p) ==
  /\ Runs(p, "EXEC")
  /\ \/ pr[p].cmd.argv # <<>> /\ Become(p, [pr[p] EXCEPT !.pc = "program"])
     \/ exit(p)

run_redir(p) ==
  LET c == pr[p].cmd IN
  /\ Runs(p, "REDIR")
  /\ \/ Become(p, [Runcmd(pr[p], c.cmd) EXCEPT !.ofile = fdalloc(close(@, c.fd), File(c.file))])
     \/ exit(p)

run_list(p) == Runs(p, "LIST") /\ fork1(p, "list_wait", Runcmd(pr[p], pr[p].cmd.left))

\* Mutation: the second command does not wait for the first.
list_wait_not(p) ==
  At(p, "list_wait") /\ Become(p, Runcmd(pr[p], pr[p].cmd.right))

list_wait(p) ==
  /\ At(p, "list_wait") /\ wait(p, Runcmd(pr[p], pr[p].cmd.right))
  /\ UNCHANGED <<line, parsed, failed>>

\* PIPE: pipe(), which gives p[0] and p[1] or fails.
run_pipe(p) ==
  LET k == NewPipe
      ends == fdalloc(fdalloc(pr[p].ofile, R(k)), W(k))
  IN /\ Runs(p, "PIPE")
     /\ \/ Become(p, [pr[p] EXCEPT !.pc = "pipe_left", !.ofile = ends, !.pipe = k])
        \/ ~failed /\ failed' = TRUE /\ pr' = Exited(p) /\ UNCHANGED <<line, parsed>>

\* Mutation: the write end stays open.
CloseEnds_write(ofile, r, w) == close(ofile, r)

\* The descriptors r and w of the pipe are closed.
CloseEnds(ofile, r, w) == close(close(ofile, r), w)

\* Mutation: dup() before close().
Onto_early(ofile, fd, end) == close(dup(ofile, end), fd)

\* close(fd); dup(end).
Onto(ofile, fd, end) == dup(close(ofile, fd), end)

pipe_left(p) ==
  LET q == pr[p]
      r == fdof(q.ofile, R(q.pipe))
      w == fdof(q.ofile, W(q.pipe))
  IN /\ At(p, "pipe_left")
     /\ fork1(p, "pipe_right",
          [Runcmd(q, q.cmd.left) EXCEPT !.ofile = CloseEnds(Onto(@, 1, w), r, w), !.pipe = 0])

pipe_right(p) ==
  LET q == pr[p]
      r == fdof(q.ofile, R(q.pipe))
      w == fdof(q.ofile, W(q.pipe))
  IN /\ At(p, "pipe_right")
     /\ fork1(p, "pipe_close",
          [Runcmd(q, q.cmd.right) EXCEPT !.ofile = CloseEnds(Onto(@, 0, r), r, w), !.pipe = 0])

pipe_close(p) ==
  LET q == pr[p]
      r == fdof(q.ofile, R(q.pipe))
      w == fdof(q.ofile, W(q.pipe))
  IN /\ At(p, "pipe_close")
     /\ Become(p, [q EXCEPT !.pc = "pipe_wait", !.ofile = CloseEnds(@, r, w), !.pipe = 0])

pipe_wait(p) ==
  /\ \/ At(p, "pipe_wait") /\ wait(p, [pr[p] EXCEPT !.pc = "pipe_wait2"])
     \/ At(p, "pipe_wait2") /\ wait(p, [pr[p] EXCEPT !.pc = "exit"])
  /\ UNCHANGED <<line, parsed, failed>>

run_back(p) == Runs(p, "BACK") /\ fork1(p, "exit", Runcmd(pr[p], pr[p].cmd.cmd))

run_exit(p) == At(p, "exit") /\ exit(p)

\* A program ends once its input does: a pipe when no write end is open.
program(p) ==
  /\ At(p, "program")
  /\ \A k \in 1 .. 2 * Cardinality(Slot) : pr[p].ofile[0] = R(k) => ~Open(W(k))
  /\ exit(p)
-----------------------------------------------------------------------------
\* main(): a line is read, and a child parses and runs it.
getcmd ==
  /\ At(Sh, "getcmd") /\ line = <<>>
  /\ \E s \in Lines : line' = s /\ parsed' = parsecmd(s)
  /\ pr' = [pr EXCEPT ![Sh].pc = "fork"]
  /\ UNCHANGED failed

main_fork ==
  At(Sh, "fork") /\ fork1(Sh, "wait", [pr[Sh] EXCEPT !.pc = "parse"])

\* panic() ends the child, not the shell.
parse(p) ==
  /\ At(p, "parse")
  /\ \/ parsed.err = "" /\ Become(p, Runcmd(pr[p], parsed.cmd))
     \/ parsed.err # "" /\ exit(p)

main_wait ==
  /\ At(Sh, "wait") /\ wait(Sh, [pr[Sh] EXCEPT !.pc = "getcmd"])
  /\ UNCHANGED <<line, parsed, failed>>

\* init waits for orphans.
init_wait(p) ==
  At(p, "ZOMBIE") /\ pr[p].parent = 0 /\ Become(p, Unused)

Init ==
  /\ line = <<>> /\ parsed = Result(1, Null, "")
  /\ pr = [p \in Slot |-> IF p = Sh THEN [Unused EXCEPT !.pc = "getcmd", !.ofile = Stdio] ELSE Unused]
  /\ failed = FALSE

Step(p) ==
  \/ run_exec(p) \/ run_redir(p) \/ run_list(p) \/ list_wait(p)
  \/ run_pipe(p) \/ pipe_left(p) \/ pipe_right(p) \/ pipe_close(p) \/ pipe_wait(p)
  \/ run_back(p) \/ run_exit(p) \/ program(p) \/ parse(p) \/ init_wait(p)

Run == main_fork \/ main_wait \/ \E p \in Slot : Step(p)

Next ==
  \/ getcmd
  \/ Run

\* The scheduler does not leave all processes that can run waiting, and a program whose
\* input is at its end is taken to exit.  No step of a line is ever repeated, so that this
\* is as strong as fairness for each process.
Spec == Init /\ [][Next]_vars /\ WF_vars(Run)
-----------------------------------------------------------------------------
(***************************************************************************)
(* What a line means.                                                      *)
(***************************************************************************)
\* The grammar, by splitting the line.
Cut(s, i, j) == SubSeq(s, i, j)

RECURSIVE IsLine(_), IsPipe(_), IsArgs(_, _)

\* Words and redirections, fewer than n words.
IsArgs(s, n) ==
  \/ s = <<>>
  \/ n > 1 /\ s[1] = "a" /\ IsArgs(Tail(s), n - 1)
  \/ Len(s) > 1 /\ s[1] \in {"<", ">", "+"} /\ s[2] = "a" /\ IsArgs(Cut(s, 3, Len(s)), n)

IsExec(s) ==
  \/ IsArgs(s, MAXARGS)
  \/ \E j \in 2 .. Len(s) :
       /\ s[1] = "(" /\ s[j] = ")" /\ IsLine(Cut(s, 2, j - 1))
       /\ IsArgs(Cut(s, j + 1, Len(s)), 1)

IsPipe(s) ==
  \/ IsExec(s)
  \/ \E i \in 1 .. Len(s) :
       s[i] = "|" /\ IsExec(Cut(s, 1, i - 1)) /\ IsPipe(Cut(s, i + 1, Len(s)))

IsLine(s) ==
  \/ IsPipe(s)
  \/ \E i \in 1 .. Len(s), j \in 1 .. Len(s) + 1 :
       /\ IsPipe(Cut(s, 1, i - 1))
       /\ i <= j /\ \A k \in i .. j - 1 : s[k] = "&"
       /\ j <= Len(s) => s[j] = ";" /\ IsLine(Cut(s, j + 1, Len(s)))

\* The commands of a tree: first word, input and output.
RECURSIVE Wiring(_, _, _)
Wiring(c, in, out) ==
  CASE c.type = "EXEC" -> IF c.argv = <<>> THEN {} ELSE { <<c.argv[1], in, out>> }
    [] c.type = "REDIR" -> IF c.fd = 0 THEN Wiring(c.cmd, File(c.file), out)
                                       ELSE Wiring(c.cmd, in, File(c.file))
    [] c.type = "LIST" -> Wiring(c.left, in, out) \cup Wiring(c.right, in, out)
    [] c.type = "PIPE" -> Wiring(c.left, in, <<"pipe", 0>>) \cup Wiring(c.right, <<"pipe", 0>>, out)
    [] c.type = "BACK" -> Wiring(c.cmd, in, out)

Words(c) == { w[1] : w \in Wiring(c, Console, Console) }

\* The commands in the background.
RECURSIVE Background(_)
Background(c) ==
  CASE c.type = "EXEC" -> {}
    [] c.type = "REDIR" -> Background(c.cmd)
    [] c.type = "BACK" -> Words(c.cmd)
    [] OTHER -> Background(c.left) \cup Background(c.right)

\* The pairs of commands that may run at the same time.
RECURSIVE Parallel(_)
Parallel(c) ==
  CASE c.type = "EXEC" -> {}
    [] c.type \in {"REDIR", "BACK"} -> Parallel(c.cmd)
    [] c.type = "PIPE" -> Parallel(c.left) \cup Parallel(c.right) \cup (Words(c.left) \X Words(c.right))
    [] c.type = "LIST" -> Parallel(c.left) \cup Parallel(c.right) \cup (Background(c.left) \X Words(c.right))

Program == { p \in Slot : At(p, "program") }
First(p) == pr[p].cmd.argv[1]
-----------------------------------------------------------------------------
TypeOK ==
  /\ failed \in BOOLEAN
  /\ \A p \in Slot :
       /\ pr[p].parent # 0 => pr[pr[p].parent].pc \notin {"UNUSED", "ZOMBIE"}
       /\ DOMAIN pr[p].ofile = 0 .. NOFILE - 1
       /\ pr[p].pipe # 0 => At(p, "pipe_left") \/ At(p, "pipe_right") \/ At(p, "pipe_close")

\* The recursive descent of parsecmd() accepts exactly the lines of the grammar.
ParserAgrees ==
  At(Sh, "fork") => (parsed.err = "" <=> IsLine(line))

\* A program that runs has the input and the output that the line gives it, console as
\* its descriptor 2, and no other descriptor: no end of a pipe is left open in it.  The
\* reader of a pipe comes after its writer in the line.
WiredAsWritten ==
  /\ TypeOK
  /\ \A p \in Program :
    LET f == pr[p].ofile
        end(x) == IF x[1] \in {"read end", "write end"} THEN <<"pipe", 0>> ELSE x
    IN /\ <<First(p), end(f[0]), end(f[1])>> \in Wiring(parsed.cmd, Console, Console)
       /\ f[2] = Console /\ \A fd \in 3 .. NOFILE - 1 : f[fd] = None
       /\ f[0][1] # "write end" /\ f[1][1] # "read end"
       /\ \A q \in Program : f[1][1] = "write end" /\ pr[q].ofile[0] = R(f[1][2]) => First(p) < First(q)

\* Two programs run at the same time only as stages of a pipeline or with the earlier one
\* in the background, and a program that still runs when the shell prompts again is in
\* the background; unless a fork() or pipe() has failed.
InOrder ==
  ~failed => LET c == parsed.cmd IN
    /\ \A p, q \in Program : First(p) < First(q) => <<First(p), First(q)>> \in Parallel(c)
    /\ At(Sh, "getcmd") => \A p \in Program : First(p) \in Background(c)

\* The shell prompts again after every line, or exits because it could not fork(): every
\* program of a pipeline finds the end of its input, since no process keeps a write end
\* open, and no process waits for a child that it does not have.
PromptReturns == At(Sh, "fork") ~> (At(Sh, "getcmd") \/ At(Sh, "ZOMBIE") \/ At(Sh, "UNUSED"))
=============================================================================
