------------------------------ MODULE MCSearch ------------------------------
(***************************************************************************)
(* Best-first search on the tasks of MCTasks.                              *)
(***************************************************************************)
EXTENDS BestFirstSearch, MCTasks
=============================================================================
