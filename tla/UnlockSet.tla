------------------------------ MODULE UnlockSet ------------------------------
(***************************************************************************)
(* What the table of unlocked inodes promises: a relation between the live *)
(* processes and the inodes they may open although these have a password.  *)
(* A process adds to its own inodes, a child starts with those of its      *)
(* parent, and what a process unlocked is forgotten when it exits.         *)
(***************************************************************************)
CONSTANTS Pid, Inode

VARIABLES live,      \* the pids of the processes
          unlocked   \* a set of pairs <<pid, inode>>

vars == <<live, unlocked>>

Init == live = {1} /\ unlocked = {}

Unlock(p, i) ==
  /\ p \in live
  /\ unlocked' = unlocked \cup {<<p, i>>}
  /\ UNCHANGED live

Fork(p, n) ==
  /\ p \in live /\ n \notin live
  /\ live' = live \cup {n}
  /\ unlocked' = unlocked \cup { <<n, i>> : i \in { j \in Inode : <<p, j>> \in unlocked } }

Exit(p) ==
  /\ p \in live
  /\ live' = live \ {p}
  /\ unlocked' = { u \in unlocked : u[1] # p }

Next ==
  \E p \in Pid : \/ \E i \in Inode : Unlock(p, i)
                 \/ \E n \in Pid : Fork(p, n)
                 \/ Exit(p)

Spec == Init /\ [][Next]_vars
=============================================================================
