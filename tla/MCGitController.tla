-------------------------- MODULE MCGitController --------------------------
(* GitController with small constants. *)
EXTENDS GitController, TLC

CONSTANTS MCBudget

MCBudgetOf == [g \in Campaign |-> MCBudget]
MCTasksOf == [g \in Campaign |-> Task]
MCHome == [campaign |-> "pilot", scheduler |-> "managed"]

Symmetry == Permutations(Controller) \union Permutations(Run) \union Permutations(AttemptId)
=============================================================================
