SPECIFICATION Spec
CONSTANTS
  MaxRecords = 3
  MaxBoot = 3
  MaxChange = 2
  MaxJournal = 4
INVARIANTS
  TypeOK
  AcknowledgedSurvives
  JournalInOrder
PROPERTIES
  StableSpec
  OneCommitterPerEpoch
CHECK_DEADLOCK FALSE
