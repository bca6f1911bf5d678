------------------------------ MODULE MCDevLock ------------------------------
(* DevLock with interchangeable processes, for the runs without liveness. *)
EXTENDS DevLock, TLC

Symmetry == Permutations(Procs)
=============================================================================
