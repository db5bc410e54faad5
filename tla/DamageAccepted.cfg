SPECIFICATION SpecWithDamage
CONSTANTS
  MaxRecords = 3
  MaxBoot = 3
  MaxChange = 2
  MaxJournal = 4
PROPERTIES
  DamageRefused
CHECK_DEADLOCK FALSE
