CONSTANTS
  Controller = {c1, c2}
  Run = {r1}
  AttemptId = {a1, a2}
  Campaign = {"pair", "short"}
  Policy = {"managed"}
  Task = {1, 2}
  TasksOf <- MCTasksOf
  BudgetOf <- MCBudgetOf
  MCBudget = 2
  Score = {1}
  Statement = {1}
  MCStatements = {1}
  Rank <- MCRank
  LessonLimit = 1
  RemoteWorker = TRUE
  Caps = {1}
  MaxCrashes = 2
  None = None
  Nobody = Nobody
SPECIFICATION FairSpec
INVARIANTS
  IncompleteIsNext
  JournalIsDense
  ResumeNeverRejected
PROPERTIES
  NoLaunchAfterJournal
  RunCompletes
