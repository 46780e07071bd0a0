------------------------------ MODULE MCBCache ------------------------------
(* Module BCache on small instances. *)
EXTENDS BCache, TLC

\* The processes are interchangeable, and so are the structs and the blocks.
Symmetry == Permutations(Procs) \cup Permutations(Bufs) \cup Permutations(BlockNos)
=============================================================================
