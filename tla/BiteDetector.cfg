SPECIFICATION BiteSpec
CONSTANTS
  MaxRecords = 4
  MaxFrames = 11
INVARIANTS BiteTypeOK BitesAreDisjoint
PROPERTY CountsExactlyThePattern
CHECK_DEADLOCK FALSE
