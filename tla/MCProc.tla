------------------------------- MODULE MCProc -------------------------------
(* Processors, and table entries other than init's, are interchangeable. *)
EXTENDS Proc, TLC

Symmetry == Permutations(CPU) \cup Permutations(Slot \ {initproc})
=============================================================================
