-------------------------- MODULE MCRecursiveMutex --------------------------
(* Two create_ap processes, each with a watchdog.                          *)
EXTENDS RecursiveMutex, TLC

Symmetry == Permutations(Process)

=============================================================================
