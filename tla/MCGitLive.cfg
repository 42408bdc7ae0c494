CONSTANTS
  Controller = {c1}
  Run = {r1, r2}
  AttemptId = {a1, a2, a3}
  Campaign = {"pilot"}
  Policy = {"managed"}
  Task = {1}
  TasksOf <- MCTasksOf
  BudgetOf <- MCBudgetOf
  MCBudget = 2
  Score = {1}
  Statement = {1}
  None = None
  Home <- MCHome
  Sandboxes = {"fresh", "reused"}
  MaxTicks = 3
  MaxFaults = 1
SPECIFICATION FairSpec
CHECK_DEADLOCK FALSE
PROPERTIES
  CampaignCompletes
