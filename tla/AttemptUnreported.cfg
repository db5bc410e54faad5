SPECIFICATION Spec
CONSTANTS
  MaxRecords = 3
  MaxBoot = 3
  MaxChange = 2
  MaxJournal = 4
PROPERTIES
  UnfinishedReported
CHECK_DEADLOCK FALSE
