SPECIFICATION Spec
CONSTANTS
  MaxRecords = 3
  MaxBoot = 1
  MaxChange = 2
  MaxJournal = 4
INVARIANTS
  SequencesNeverRepeat
CHECK_DEADLOCK FALSE
