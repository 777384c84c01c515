---------------------------- MODULE MCOptimality ----------------------------
(***************************************************************************)
(* Best-first search and its rival on the tasks of MCTasks, whose bounds   *)
(* are the exact costs of reaching a goal.                                 *)
(***************************************************************************)
EXTENDS SearchOptimality, MCTasks
=============================================================================
