---------------------------- MODULE MCModelCalls -----------------------------
(* A TLC instance of ModelCalls. Two callers share a provider whose concurrency is *)
(* configured as 0, which counts as one; the third has a provider that never retries. *)
EXTENDS ModelCalls

CONSTANTS c1, c2, c3, shared, own

Asks == [c \in Callers |-> IF c = c3 THEN own ELSE shared]
Configured == [p \in Providers |-> IF p = shared THEN 0 ELSE 2]
Named == [p \in Providers |-> IF p = shared THEN {} ELSE {90}]
Retries == [p \in Providers |-> IF p = shared THEN 1 ELSE 0]
=============================================================================
