SPECIFICATION Spec
CONSTANTS
  a1 = a1
  a2 = a2
  o1 = o1
  o2 = o2
  replay = replay
  Processes <- AllProcesses
  WorkerOf <- Worker
  BootOf <- Boot
  RoleOf <- Role
  Source <- RecordedBy
  Rungs <- ThreeRungs
  Faults = {"timeout", "kill", "crash", "store"}
  Scenarios = {"staged", "recurrence", "worker-death", "restart-part1"}
  MaxRuns = 2
  StartedIn <- InTwoRuns
  ExpectedWorkers = 2
  StopAfter = 1
  RecurrenceRung = 1
  LoopGuard = 64
  TickStep = 10
CHECK_DEADLOCK FALSE
INVARIANTS
  TypeOK
  AnswersMatchRequests
  OneFrameAtATime
  OneHolderPerAttempt
  ProvidedRunSucceeds
PROPERTIES
  EverythingEnds
  StagedSpec
