------------------------------- MODULE MCSched -------------------------------
(* Scheduler instances: who manages the list is chosen in each cfg.        *)
EXTENDS Sched

CONSTANTS main, t1, t2

MCTasks == {main, t1, t2}

(* main, the repository's one task, creates and removes all the others.    *)
MainManages == {main} \X (MCTasks \ {main})

(* main also removes itself, as the statement behind the loop of           *)
(* fshell_callback would if the loop ended.                                *)
MainLeaves == {main} \X MCTasks
=============================================================================
