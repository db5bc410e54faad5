SPECIFICATION Spec
CONSTANTS
  PlanIds = {p1}
  Ladder <- ShortLadder
  SnapshotGens = {1, 2}
  Dwell = 1
  Cooldown = 1
  Window = 1
  MaxTransitions = 1
  RevalidationBoundary = 3
  MaxLifetime = 4
  MaxStageAttempts = 3
  MaxTotalAttempts = 5
  MaxRollbacks = 3
  OnRecurrence <- FailOnRecurrence
  RollbackOnFailure = FALSE
  MaxStageHistory = 2
  MaxRollbackHistory = 3
  MaxCompletionHistory = 2
  MaxExplanationItems = 1
  MaxReasonLength = 1
  TransitionRecords = 1
  MaxGeneration = 4
  MaxEpoch = 1
  MaxTick = 5
INVARIANTS
  CompletionLineage
  AttemptAccounting
  RollbackBudget
  HistoryBounded
  AdvanceRateBounded
  OpenRecordIsCurrent
PROPERTIES
  TerminalIsFinal
