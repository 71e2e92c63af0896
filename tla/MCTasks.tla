------------------------------ MODULE MCTasks ------------------------------
(* The main program, two tasks, a list of at most two elements.            *)
EXTENDS Tasks

CONSTANTS t1, t2
=============================================================================
