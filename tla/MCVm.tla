-------------------------------- MODULE MCVm ---------------------------------
(***************************************************************************)
(* Vm for TLC: the arguments of sbrk().                                    *)
(***************************************************************************)
EXTENDS Vm

\* Grow over page boundaries and page tables; shrink by pages, by all that a process has,
\* and by more than it has.
MCIncrements == {3, 5, -4}
=============================================================================
