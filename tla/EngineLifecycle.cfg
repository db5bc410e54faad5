SPECIFICATION Spec
CONSTANTS
  PlanIds = {p1}
  Ladder <- ShrinkingLadders
  SnapshotGens = {1}
  Dwell = 1
  Cooldown = 1
  Window = 2
  MaxTransitions = 3
  RevalidationBoundary = 2
  MaxLifetime = 3
  MaxStageAttempts = 2
  MaxTotalAttempts = 5
  MaxRollbacks = 2
  OnRecurrence <- RollbackThenPause
  RollbackOnFailure = TRUE
  MaxStageHistory = 64
  MaxRollbackHistory = 1
  MaxCompletionHistory = 64
  MaxExplanationItems = 1
  MaxReasonLength = 1
  TransitionRecords = 64
  MaxGeneration = 5
  MaxEpoch = 2
  MaxTick = 3
INVARIANTS
  TypeOK
  BoundOrFlagged
  StateMatchesStage
  LadderClimbed
  OneAdvancePerTick
  OpenRecordIsCurrent
PROPERTIES
  FlagBlocksProgress
  ReboundOnlyByRevalidation
  NeverRegresses
  LifecycleSpec
