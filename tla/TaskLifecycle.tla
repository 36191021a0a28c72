--------------------------- MODULE TaskLifecycle ----------------------------
(***************************************************************************)
(* What a task promises to the people who read its issue: work goes on     *)
(* until the task is either delivered, with a patch the forge has, or has  *)
(* failed.  After that nothing new is published, only unused patches are   *)
(* removed, and a delivered patch stays.  This is the contract of a task   *)
(* that nobody stops and that has one run, dead or alive; TaskRun          *)
(* implements it.                                                          *)
(***************************************************************************)
CONSTANTS Patches, None

VARIABLES
  phase,      \* "open", "delivered" or "failed"
  offered,    \* the patch a human is asked to decide on
  published   \* the patches the forge has

Init == phase = "open" /\ offered = None /\ published = {}

\* Attempts are published, and given up, while the task is open.
Work ==
  /\ phase = "open"
  /\ published' \in SUBSET Patches
  /\ UNCHANGED <<phase, offered>>

Deliver ==
  /\ phase = "open"
  /\ phase' = "delivered"
  /\ offered' \in published
  /\ UNCHANGED published

Fail ==
  /\ phase = "open"
  /\ phase' = "failed"
  /\ UNCHANGED <<offered, published>>

\* What was not chosen is removed.
TidyUp ==
  /\ phase # "open"
  /\ published' \in SUBSET published
  /\ phase = "delivered" => offered \in published'
  /\ UNCHANGED <<phase, offered>>

Next == Work \/ Deliver \/ Fail \/ TidyUp

Spec == Init /\ [][Next]_<<phase, offered, published>>
=============================================================================
