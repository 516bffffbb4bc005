------------------------------- MODULE MCTasks ------------------------------
(* Small instance: one retry and one shutdown are enough for a second and a  *)
(* third delivery to meet a run that asynq has given up.                     *)
EXTENDS Tasks
=============================================================================
