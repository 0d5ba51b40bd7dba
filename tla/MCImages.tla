------------------------------ MODULE MCImages ------------------------------
(* Images for TLC: processes, names and VMs are interchangeable. *)
EXTENDS Images, TLC

Symmetry == Permutations(Procs) \cup Permutations(Names) \cup Permutations(VMs)
=============================================================================
