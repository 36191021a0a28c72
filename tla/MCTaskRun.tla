----------------------------- MODULE MCTaskRun ------------------------------
(* TLC instances of TaskRun, and what the documents say that the code does not do. *)
EXTENDS TaskRun

\* Once a stop is in the row the bot answers that "the task has been stopped" and that "the
\* workers have interrupted their work": a stopped task is not set to work again.
StopIsHonoured == [][row.state = "cancelled" => row'.state = "cancelled"]_vars
=============================================================================
