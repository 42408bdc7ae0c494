-------------------------- MODULE MCCampaignRunner --------------------------
(***************************************************************************)
(* CampaignRunner with small constants.  Campaign "short" has one attempt, *)
(* "pair" two tasks; lessons of task 1 are also retrieved by task 2, after *)
(* its own (tags overlap), and task 1 retrieves only its own.              *)
(***************************************************************************)
EXTENDS CampaignRunner, TLC

CONSTANTS MCBudget, MCStatements

MCBudgetOf == [g \in Campaign |-> IF g = "short" THEN 1 ELSE MCBudget]
MCTasksOf == [g \in Campaign |-> IF g = "short" THEN {CHOOSE t \in Task : TRUE} ELSE Task]

\* Statements are numbers; the ids of a task's own lessons rank before those of others.
MCRank == [t \in Task |-> [l \in LessonId |->
             IF l[1] = t THEN l[2]
             ELSE IF l[1] < t THEN Cardinality(MCStatements) + l[2] ELSE 0]]

Symmetry == Permutations(AttemptId) \union Permutations(Controller)
=============================================================================
