SPECIFICATION Spec
CONSTANTS
  PlanIds = {p1}
  Ladder <- OneLadder
  SnapshotGens = {1}
  Dwell = 1
  Cooldown = 1
  Window = 2
  MaxTransitions = 3
  RevalidationBoundary = 2
  MaxLifetime = 3
  MaxStageAttempts = 2
  MaxTotalAttempts = 5
  MaxRollbacks = 2
  OnRecurrence <- RollbackOnRecurrence
  RollbackOnFailure = TRUE
  MaxStageHistory = 64
  MaxRollbackHistory = 32
  MaxCompletionHistory = 64
  MaxExplanationItems = 1
  MaxReasonLength = 2
  TransitionRecords = 64
  MaxGeneration = 5
  MaxEpoch = 2
  MaxTick = 3
INVARIANTS
  ExportReadable
