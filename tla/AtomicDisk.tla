---------------------------- MODULE AtomicDisk ----------------------------
(***************************************************************************)
(* What the logging layer (log.c) promises to the file system above it:    *)
(* a block device on which the writes of a transaction take effect all at  *)
(* once.  `stable' is the contents that survive a crash, `cur' the         *)
(* contents that a bread() returns now, and phase[p] tells where process p *)
(* is in its transaction.  Transactions are serial; a transaction changes  *)
(* `cur' block by block; its one commit makes all of the changes stable in *)
(* one step, before commit_trans() returns; a crash at any other time      *)
(* loses all of them.                                                      *)
(***************************************************************************)
CONSTANTS Proc,    \* processes that run file system calls
          Block,   \* home sectors of the file system
          Val      \* contents of a sector

VARIABLES stable, cur, phase

vars == <<stable, cur, phase>>

\* Boot on a disk whose contents are arbitrary but settled.
Init ==
  /\ stable \in [Block -> Val]
  /\ cur = stable
  /\ phase = [p \in Proc |-> "idle"]

\* begin_trans() returns to one process at a time.
Begin(p) ==
  /\ \A q \in Proc : phase[q] = "idle"
  /\ phase' = [phase EXCEPT ![p] = "open"]
  /\ UNCHANGED <<stable, cur>>

\* A write inside a transaction is visible at once and not yet stable.
Write(p, b, v) ==
  /\ phase[p] = "open"
  /\ cur' = [cur EXCEPT ![b] = v]
  /\ UNCHANGED <<stable, phase>>

\* Every write of the transaction becomes stable in a single step.
Commit(p) ==
  /\ phase[p] = "open"
  /\ phase' = [phase EXCEPT ![p] = "done"]
  /\ stable' = cur
  /\ UNCHANGED cur

\* commit_trans() returns: only after the commit.
End(p) ==
  /\ phase[p] = "done"
  /\ phase' = [phase EXCEPT ![p] = "idle"]
  /\ UNCHANGED <<stable, cur>>

\* Power loss: what was not committed is gone, what was committed is not.
Crash ==
  /\ cur' = stable
  /\ phase' = [p \in Proc |-> "idle"]
  /\ UNCHANGED stable

Next ==
  \/ \E p \in Proc : Begin(p) \/ Commit(p) \/ End(p)
  \/ \E p \in Proc, b \in Block, v \in Val : Write(p, b, v)
  \/ Crash

Spec == Init /\ [][Next]_vars
===========================================================================
