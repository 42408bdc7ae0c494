CONSTANTS
  Task = {1, 2, 3}
  MaxScore = 2
  MaxAttempts = 4
  Scale = 2
  Target <- MCTarget
  NoTarget = NoTarget
  NoScore = NoScore
  MaxTokens = 4
  MaxRetries = 2
  NodeCount = 4
  NodeOrders <- MCNodeOrders
  Color = {1, 2}
  SetCount = 3
  ElementCount = 4
  ItemCount = 4
  MaxWeight = 5
  Capacity = 4
  Bin <- MCBin
  MaxPicks = 3
SPECIFICATION Spec
CHECK_DEADLOCK FALSE
INVARIANTS
  ChoiceIsLeastKey
  AreaIsSumOfPrefixes
  LastContractIsRead
  WriteIsDoneOnce
  AcceptsExactlySolutions
  LocalCandidateIsGood
