----------------------------- MODULE MCAttempt ------------------------------
(* TLC instances of Attempt. *)
EXTENDS Attempt

CONSTANTS src, test, lock

\* A source file and a lock file; the test file is to be written.
MCBase == [f \in Files |-> IF f = test THEN Gone ELSE "text"]
=============================================================================
