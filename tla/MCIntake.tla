------------------------------ MODULE MCIntake ------------------------------
(* TLC instances of Intake. *)
EXTENDS Intake, TLC

Symmetry == Permutations(Handlers)
=============================================================================
