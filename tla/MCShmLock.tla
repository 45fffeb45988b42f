------------------------------ MODULE MCShmLock ------------------------------
(* Instances of ShmLock for TLC. *)
EXTENDS ShmLock, TLC

\* Processes are interchangeable.
Symmetry == Permutations(Procs)
=============================================================================
