---------------------------- MODULE MCEventStream ----------------------------
(* A TLC instance of EventStream: two tasks write into the log, one of them is watched. *)
EXTENDS EventStream

CONSTANTS t1, t2
=============================================================================
