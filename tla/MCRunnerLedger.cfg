CONSTANTS
  Controller = {c1}
  Run = {r1}
  AttemptId = {a1, a2, a3}
  Campaign = {"pair"}
  Policy = {"managed", "round_robin"}
  Task = {1, 2}
  TasksOf <- MCTasksOf
  BudgetOf <- MCBudgetOf
  MCBudget = 3
  Score = {1, 2}
  Statement = {1}
  MCStatements = {1}
  Rank <- MCRank
  LessonLimit = 1
  RemoteWorker = TRUE
  Caps = {1, 3}
  MaxCrashes = 1
  None = None
  Nobody = Nobody
SPECIFICATION Spec
SYMMETRY Symmetry
INVARIANTS
  BalancedCoverage
  ImprovedBeatsAllBefore
  CacheIsCurrent
PROPERTIES
  ImplementsLedger
