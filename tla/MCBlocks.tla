------------------------------ MODULE MCBlocks -------------------------------
(* Blocks with two processes and two files on a disk of 46 blocks.            *)
EXTENDS Blocks

\* With the second list, the entries of the root directory fill its block.
MCImages == { <<15>>, <<15, 0>> }
Symmetry == Permutations(Proc)
=============================================================================
