------------------------------- MODULE MCLog -------------------------------
(* Module Log on small instances. *)
EXTENDS Log, TLC

\* The processes are interchangeable, and so are the blocks.
Symmetry == Permutations(Procs) \cup Permutations(Blocks)
=============================================================================
