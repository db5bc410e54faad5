SPECIFICATION Spec
CONSTANTS
  r1 = r1
  r2 = r2
  r3 = r3
  Resources = {r1, r2}
  MaxEvidenceAge = 1
  Unit <- AllBytes
  Obligations <- Protected
  MaxDelta = 3
  Rungs <- HoldUnauthorized
  Ladder <- FourRungs
  RollbackTarget <- ConstrainedOrLess
  Baseline <- PreIntervention
  AdvanceMargin = 1
  RollbackMargin = 1
  Tolerance = 1000
  RequireCompletionEvidence = TRUE
  RequireStableCompletion = TRUE
  Dwell = 1
  Cooldown = 1
  MaxRollbacks = 2
  Grants <- SomeGrants
  Reports <- SomeReports
  Sightings <- SomeSightings
  MaxRevalidations = 1
  MaxEpoch = 2
  MaxTick = 4
CHECK_DEADLOCK FALSE
PROPERTIES
  WithinAuthority
