----------------------------- MODULE MCJobQueue -----------------------------
(* TLC instances of JobQueue. *)
EXTENDS JobQueue, TLC

CONSTANTS r1, r2

OneProcess == {{r1, r2}}
TwoProcesses == {{r1}, {r2}}
Symmetry == Permutations(Tasks)
=============================================================================
