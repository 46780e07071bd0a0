------------------------------ MODULE MCSched ------------------------------
EXTENDS Sched, TLC
Symmetry == Permutations(Procs \ {Root}) \cup Permutations(Cpus)
=============================================================================
