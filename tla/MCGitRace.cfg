CONSTANTS
  Controller = {c1, c2}
  Run = {r1, r2}
  AttemptId = {a1, a2, a3}
  Campaign = {"pilot"}
  Policy = {"managed"}
  Task = {1}
  TasksOf <- MCTasksOf
  BudgetOf <- MCBudgetOf
  MCBudget = 2
  Score = {1}
  Statement = {1}
  None = None
  Home <- MCHome
  Sandboxes = {"fresh"}
  MaxTicks = 3
  MaxFaults = 1
SPECIFICATION Spec
SYMMETRY Symmetry
CHECK_DEADLOCK FALSE
INVARIANTS
  ClaimsAreExclusive
  ClaimBeforeLaunch
  BranchIsResumable
PROPERTIES
  ImplementsLedger
