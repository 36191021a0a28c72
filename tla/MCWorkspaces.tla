---------------------------- MODULE MCWorkspaces -----------------------------
(* A TLC instance of Workspaces: three attempts of one round, or of several processes. *)
EXTENDS Workspaces

CONSTANTS a1, a2, a3
=============================================================================
